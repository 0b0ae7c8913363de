---------------------------- MODULE SumTheorems ----------------------------
(***************************************************************************)
(* What the sums of the community modules (SumFunctionOnSet, SumFunction,  *)
(* MapThenSumSet) are worth.  They are recursive functions on the subsets  *)
(* of a finite set, so facts about them need induction; the theorems of    *)
(* the library that provide it take an operator for their parameter.  Here *)
(* the induction is over a set of subsets instead, and rests on the least  *)
(* element of a well-founded order.                                        *)
(***************************************************************************)
EXTENDS FiniteSetsExt, Functions, FiniteSetTheorems, TLAPS

(* A set that has {} and, whenever it has a set without any one of its     *)
(* elements, the set itself, has every finite set.                         *)
LEMMA FiniteInduction ==
  ASSUME NEW S, IsFiniteSet(S), NEW Good,
         \A T \in SUBSET S : (\A x \in T : T \ {x} \in Good) => T \in Good
  PROVE  SUBSET S \subseteq Good
<1> DEFINE Bad == (SUBSET S) \ Good
<1>1. SUFFICES ASSUME Bad # {} PROVE FALSE
  OBVIOUS
<1>2. IsWellFoundedOn(StrictSubsetOrdering(S), SUBSET S)
  BY FS_StrictSubsetOrderingWellFounded, FS_FiniteSubsetsOfFinite
<1>3. PICK T \in Bad : \A U \in Bad : ~ (<<U, T>> \in StrictSubsetOrdering(S))
  <2> HIDE DEF Bad
  <2>1. Bad \subseteq SUBSET S
    BY DEF Bad
  <2> QED BY <1>1, <1>2, <2>1, WFMin
<1>4. \A x \in T : T \ {x} \in Good
  <2> SUFFICES ASSUME NEW x \in T, T \ {x} \notin Good PROVE FALSE
    OBVIOUS
  <2>1. T \ {x} \in Bad
    OBVIOUS
  <2>2. <<T \ {x}, T>> \in StrictSubsetOrdering(S)
    BY DEF StrictSubsetOrdering
  <2> QED BY <1>3, <2>1, <2>2
<1> QED BY <1>4

-----------------------------------------------------------------------------
(* The recursion.                                                          *)

SomeOf(s) == CHOOSE x \in s : TRUE

LEMMA SomeOfIsIn == ASSUME NEW s, s # {} PROVE SomeOf(s) \in s
BY DEF SomeOf

SumStep(f, it, s) == IF s = {} THEN 0 ELSE f[SomeOf(s)] + it[s \ {SomeOf(s)}]

SumRecursion(f, it, T) == it = [s \in SUBSET T |-> SumStep(f, it, s)]

LEMMA SumUnfolded ==
  ASSUME NEW f, NEW S
  PROVE  SumFunctionOnSet(f, S) = (CHOOSE it : SumRecursion(f, it, S))[S]
BY DEF SumFunctionOnSet, FoldFunctionOnSet, MapThenFoldSet, SumRecursion, SomeOf, SumStep

(* Two solutions agree. *)
LEMMA SumRecursionsAgree ==
  ASSUME NEW f, NEW S, IsFiniteSet(S), NEW T, S \subseteq T, NEW i, SumRecursion(f, i, S),
         NEW j, SumRecursion(f, j, T)
  PROVE  \A s \in SUBSET S : i[s] = j[s]
<1> DEFINE Good == {s \in SUBSET S : i[s] = j[s]}
<1>1. ASSUME NEW s \in SUBSET S, \A x \in s : s \ {x} \in Good
      PROVE  s \in Good
  <2>1. i[s] = SumStep(f, i, s) /\ j[s] = SumStep(f, j, s)
    BY DEF SumRecursion
  <2>2. CASE s = {}
    BY <2>1, <2>2 DEF SumStep
  <2>3. CASE s # {}
    BY <1>1, <2>1, <2>3, SomeOfIsIn DEF SumStep
  <2> QED BY <2>2, <2>3
<1> HIDE DEF Good
<1>2. SUBSET S \subseteq Good
  BY <1>1, FiniteInduction
<1> QED BY <1>2 DEF Good

(* There is one. *)
LEMMA SumRecursionExists ==
  ASSUME NEW f, NEW S, IsFiniteSet(S)
  PROVE  \E it : SumRecursion(f, it, S)
<1> DEFINE Good == {T \in SUBSET S : \E it : SumRecursion(f, it, T)}
<1>1. ASSUME NEW T \in SUBSET S, \A x \in T : T \ {x} \in Good
      PROVE  T \in Good
  <2> DEFINE it == [s \in SUBSET T |->
               IF s = {} THEN 0
               ELSE f[SomeOf(s)] + (CHOOSE i : SumRecursion(f, i, s \ {SomeOf(s)}))[s \ {SomeOf(s)}]]
  <2>1. ASSUME NEW s \in SUBSET T, s # T
        PROVE  \E i : SumRecursion(f, i, s)
    <3>1. PICK x \in T : x \notin s
      BY <2>1
    <3>2. PICK i : SumRecursion(f, i, T \ {x})
      BY <1>1
    <3>3. SumRecursion(f, [u \in SUBSET s |-> i[u]], s)
      <4>1. ASSUME NEW u \in SUBSET s
            PROVE  i[u] = SumStep(f, [v \in SUBSET s |-> i[v]], u)
        <5>1. i[u] = SumStep(f, i, u)
          BY <3>1, <3>2 DEF SumRecursion
        <5>2. u # {} => u \ {SomeOf(u)} \in SUBSET s
          OBVIOUS
        <5> QED BY <5>1, <5>2 DEF SumStep
      <4> QED BY <4>1 DEF SumRecursion
    <3> QED BY <3>3
  <2>2. ASSUME NEW s \in SUBSET T, s # {}
        PROVE  (CHOOSE i : SumRecursion(f, i, s \ {SomeOf(s)}))[s \ {SomeOf(s)}] = it[s \ {SomeOf(s)}]
    <3> DEFINE u == s \ {SomeOf(s)}
               k == CHOOSE i : SumRecursion(f, i, u)
    <3>1. u \in SUBSET T /\ u # T
      BY <2>2, SomeOfIsIn
    <3>2. \E i : SumRecursion(f, i, u)
      BY <2>1, <3>1
    <3>3. SumRecursion(f, k, u)
      BY <3>2
    <3>4. k[u] = SumStep(f, k, u)
      BY <3>3 DEF SumRecursion
    <3>5. CASE u = {}
      BY <3>1, <3>4, <3>5 DEF SumStep
    <3>6. CASE u # {}
      <4> DEFINE v == u \ {SomeOf(u)}
                 l == CHOOSE i : SumRecursion(f, i, v)
      <4>1. v \in SUBSET T /\ v # T /\ v \subseteq u
        BY <3>1
      <4>2. \E i : SumRecursion(f, i, v)
        BY <2>1, <4>1
      <4>3. SumRecursion(f, l, v)
        BY <4>2
      <4>4. IsFiniteSet(v)
        BY <4>1, FS_Subset
      <4> HIDE DEF u, v, k, l
      <4>5. l[v] = k[v]
        BY <3>3, <4>1, <4>3, <4>4, SumRecursionsAgree
      <4>6. it[u] = f[SomeOf(u)] + l[v]
        BY <3>1, <3>6 DEF l, v
      <4>7. k[u] = f[SomeOf(u)] + k[v]
        BY <3>4, <3>6 DEF SumStep, v
      <4> QED BY <4>5, <4>6, <4>7 DEF u, k
    <3> QED BY <3>5, <3>6
  <2>3. ASSUME NEW s \in SUBSET T
        PROVE  it[s] = SumStep(f, it, s)
    <3> CASE s = {}
      BY DEF SumStep
    <3> CASE s # {}
      <4>1. it[s] = f[SomeOf(s)] + (CHOOSE i : SumRecursion(f, i, s \ {SomeOf(s)}))[s \ {SomeOf(s)}]
        OBVIOUS
      <4> HIDE DEF it
      <4> QED BY <2>2, <4>1 DEF SumStep
    <3> QED OBVIOUS
  <2>4. it = [s \in SUBSET T |-> it[s]]
    OBVIOUS
  <2>5. SumRecursion(f, it, T)
    <3> HIDE DEF it
    <3> QED BY <2>3, <2>4 DEF SumRecursion
  <2> QED BY <2>5
<1> HIDE DEF Good
<1>2. SUBSET S \subseteq Good
  BY <1>1, FiniteInduction
<1> QED BY <1>2 DEF Good

(* The sum over a set is that of any recursion that covers the set.        *)
LEMMA SumIsRecursive ==
  ASSUME NEW f, NEW S, IsFiniteSet(S), NEW it, SumRecursion(f, it, S), NEW T \in SUBSET S
  PROVE  SumFunctionOnSet(f, T) = it[T]
<1> DEFINE j == CHOOSE i : SumRecursion(f, i, T)
<1>1. IsFiniteSet(T)
  BY FS_Subset
<1>2. SumRecursion(f, j, T)
  BY <1>1, SumRecursionExists
<1>3. SumFunctionOnSet(f, T) = j[T]
  BY SumUnfolded
<1> HIDE DEF j
<1>4. j[T] = it[T]
  BY <1>1, <1>2, SumRecursionsAgree
<1> QED BY <1>3, <1>4

-----------------------------------------------------------------------------
(* What a reader expects of a sum.                                         *)

(* Nothing adds up to zero. *)
THEOREM SumOfNothing == \A f : SumFunctionOnSet(f, {}) = 0
<1> SUFFICES ASSUME NEW f PROVE SumFunctionOnSet(f, {}) = 0
  OBVIOUS
<1>1. PICK it : SumRecursion(f, it, {})
  BY SumRecursionExists, FS_EmptySet
<1>2. it[{}] = 0
  BY <1>1 DEF SumRecursion, SumStep
<1> QED BY <1>1, <1>2, SumIsRecursive, FS_EmptySet

LEMMA SumOfOne ==
  ASSUME NEW f, NEW S, IsFiniteSet(S), S # {}
  PROVE  SumFunctionOnSet(f, S) = f[SomeOf(S)] + SumFunctionOnSet(f, S \ {SomeOf(S)})
<1>1. PICK it : SumRecursion(f, it, S)
  BY SumRecursionExists
<1>2. it[S] = f[SomeOf(S)] + it[S \ {SomeOf(S)}]
  BY <1>1 DEF SumRecursion, SumStep
<1> QED BY <1>1, <1>2, SumIsRecursive

(* Integers add up to an integer. *)
THEOREM SumIsInt ==
  ASSUME NEW f, NEW S, IsFiniteSet(S), \A x \in S : f[x] \in Int
  PROVE  SumFunctionOnSet(f, S) \in Int
<1> DEFINE Good == {T \in SUBSET S : SumFunctionOnSet(f, T) \in Int}
<1>1. ASSUME NEW T \in SUBSET S, \A x \in T : T \ {x} \in Good
      PROVE  T \in Good
  <2>1. CASE T = {}
    BY <2>1, SumOfNothing
  <2>2. CASE T # {}
    <3>1. IsFiniteSet(T) /\ SomeOf(T) \in T
      BY <2>2, FS_Subset, SomeOfIsIn
    <3>2. SumFunctionOnSet(f, T) = f[SomeOf(T)] + SumFunctionOnSet(f, T \ {SomeOf(T)})
      BY <2>2, <3>1, SumOfOne
    <3> QED BY <1>1, <3>1, <3>2
  <2> QED BY <2>1, <2>2
<1> HIDE DEF Good
<1>2. SUBSET S \subseteq Good
  BY <1>1, FiniteInduction
<1> QED BY <1>2 DEF Good

(* Natural numbers add up to a natural number. *)
THEOREM SumIsNat ==
  ASSUME NEW f, NEW S, IsFiniteSet(S), \A x \in S : f[x] \in Nat
  PROVE  SumFunctionOnSet(f, S) \in Nat
<1> DEFINE Good == {T \in SUBSET S : SumFunctionOnSet(f, T) \in Nat}
<1>1. ASSUME NEW T \in SUBSET S, \A x \in T : T \ {x} \in Good
      PROVE  T \in Good
  <2>1. CASE T = {}
    BY <2>1, SumOfNothing
  <2>2. CASE T # {}
    <3>1. IsFiniteSet(T) /\ SomeOf(T) \in T
      BY <2>2, FS_Subset, SomeOfIsIn
    <3>2. SumFunctionOnSet(f, T) = f[SomeOf(T)] + SumFunctionOnSet(f, T \ {SomeOf(T)})
      BY <2>2, <3>1, SumOfOne
    <3> QED BY <1>1, <3>1, <3>2
  <2> QED BY <2>1, <2>2
<1> HIDE DEF Good
<1>2. SUBSET S \subseteq Good
  BY <1>1, FiniteInduction
<1> QED BY <1>2 DEF Good

(* Zeros add up to zero. *)
THEOREM SumOfZeros ==
  ASSUME NEW f, NEW S, IsFiniteSet(S), \A x \in S : f[x] = 0
  PROVE  SumFunctionOnSet(f, S) = 0
<1> DEFINE Good == {T \in SUBSET S : SumFunctionOnSet(f, T) = 0}
<1>1. ASSUME NEW T \in SUBSET S, \A x \in T : T \ {x} \in Good
      PROVE  T \in Good
  <2>1. CASE T = {}
    BY <2>1, SumOfNothing
  <2>2. CASE T # {}
    <3>1. IsFiniteSet(T) /\ SomeOf(T) \in T
      BY <2>2, FS_Subset, SomeOfIsIn
    <3>2. SumFunctionOnSet(f, T) = f[SomeOf(T)] + SumFunctionOnSet(f, T \ {SomeOf(T)})
      BY <2>2, <3>1, SumOfOne
    <3> QED BY <1>1, <3>1, <3>2
  <2> QED BY <2>1, <2>2
<1> HIDE DEF Good
<1>2. SUBSET S \subseteq Good
  BY <1>1, FiniteInduction
<1> QED BY <1>2 DEF Good

(* Any element may be taken out first. *)
THEOREM SumWithout ==
  ASSUME NEW f, NEW S, IsFiniteSet(S), \A x \in S : f[x] \in Int, NEW a \in S
  PROVE  SumFunctionOnSet(f, S) = f[a] + SumFunctionOnSet(f, S \ {a})
<1> DEFINE Sum(T) == SumFunctionOnSet(f, T)
           Good == {T \in SUBSET S : \A x \in T : Sum(T) = f[x] + Sum(T \ {x})}
<1>1. ASSUME NEW T \in SUBSET S, \A x \in T : T \ {x} \in Good, NEW x \in T
      PROVE  Sum(T) = f[x] + Sum(T \ {x})
  <2> DEFINE y == SomeOf(T)
  <2>1. IsFiniteSet(T) /\ y \in T
    BY FS_Subset, SomeOfIsIn
  <2>2. Sum(T) = f[y] + Sum(T \ {y})
    BY <2>1, SumOfOne
  <2>3. CASE x = y
    BY <2>2, <2>3
  <2>4. CASE x # y
    <3> HIDE DEF y, Sum
    <3>1. Sum(T \ {y}) = f[x] + Sum((T \ {y}) \ {x})
      BY <1>1, <2>1, <2>4
    <3>2. Sum(T \ {x}) = f[y] + Sum((T \ {x}) \ {y})
      BY <1>1, <2>1, <2>4
    <3>3. (T \ {y}) \ {x} = (T \ {x}) \ {y}
      OBVIOUS
    <3>4. Sum((T \ {x}) \ {y}) \in Int
      <4>1. IsFiniteSet((T \ {x}) \ {y})
        BY <2>1, FS_Subset
      <4> QED BY <4>1, SumIsInt DEF Sum
    <3>5. f[x] \in Int /\ f[y] \in Int
      BY <1>1, <2>1
    <3>6. Sum((T \ {y}) \ {x}) = Sum((T \ {x}) \ {y})
      BY <3>3
    <3>7. ASSUME NEW t \in Int, NEW n \in Int, NEW m \in Int
          PROVE  n + (m + t) = m + (n + t)
      OBVIOUS
    <3> QED BY <2>2, <3>1, <3>2, <3>4, <3>5, <3>6, <3>7
  <2> QED BY <2>3, <2>4
<1> HIDE DEF Sum
<1>2. \A T \in SUBSET S : (\A x \in T : T \ {x} \in Good) => T \in Good
  <2> SUFFICES ASSUME NEW T \in SUBSET S, \A x \in T : T \ {x} \in Good
               PROVE  \A x \in T : Sum(T) = f[x] + Sum(T \ {x})
    OBVIOUS
  <2> HIDE DEF Good
  <2> QED BY <1>1
<1> HIDE DEF Good
<1>3. SUBSET S \subseteq Good
  BY <1>2, FiniteInduction
<1> QED BY <1>3 DEF Good, Sum

(* One more summand adds its value. *)
THEOREM SumWith ==
  ASSUME NEW f, NEW S, IsFiniteSet(S), NEW a, a \notin S, \A x \in S \cup {a} : f[x] \in Int
  PROVE  SumFunctionOnSet(f, S \cup {a}) = f[a] + SumFunctionOnSet(f, S)
<1>1. IsFiniteSet(S \cup {a}) /\ (S \cup {a}) \ {a} = S
  BY FS_AddElement
<1> QED BY <1>1, SumWithout

(* Only the values on the set matter. *)
THEOREM SumOfSame ==
  ASSUME NEW f, NEW g, NEW S, IsFiniteSet(S), \A x \in S : f[x] = g[x]
  PROVE  SumFunctionOnSet(f, S) = SumFunctionOnSet(g, S)
<1> DEFINE Good == {T \in SUBSET S : SumFunctionOnSet(f, T) = SumFunctionOnSet(g, T)}
<1>1. ASSUME NEW T \in SUBSET S, \A x \in T : T \ {x} \in Good
      PROVE  T \in Good
  <2>1. CASE T = {}
    BY <2>1, SumOfNothing
  <2>2. CASE T # {}
    <3>1. IsFiniteSet(T) /\ SomeOf(T) \in T
      BY <2>2, FS_Subset, SomeOfIsIn
    <3>2. SumFunctionOnSet(f, T) = f[SomeOf(T)] + SumFunctionOnSet(f, T \ {SomeOf(T)})
      BY <2>2, <3>1, SumOfOne
    <3>3. SumFunctionOnSet(g, T) = g[SomeOf(T)] + SumFunctionOnSet(g, T \ {SomeOf(T)})
      BY <2>2, <3>1, SumOfOne
    <3> QED BY <1>1, <3>1, <3>2, <3>3
  <2> QED BY <2>1, <2>2
<1> HIDE DEF Good
<1>2. SUBSET S \subseteq Good
  BY <1>1, FiniteInduction
<1> QED BY <1>2 DEF Good

(* One summand changes. *)
THEOREM SumChanged ==
  ASSUME NEW f, NEW g, NEW S, IsFiniteSet(S), \A x \in S : f[x] \in Int /\ g[x] \in Int,
         NEW a \in S, \A x \in S \ {a} : f[x] = g[x]
  PROVE  SumFunctionOnSet(g, S) = SumFunctionOnSet(f, S) + g[a] - f[a]
<1>1. IsFiniteSet(S \ {a})
  BY FS_RemoveElement
<1>2. SumFunctionOnSet(f, S \ {a}) = SumFunctionOnSet(g, S \ {a})
  BY <1>1, SumOfSame
<1>3. SumFunctionOnSet(f, S) = f[a] + SumFunctionOnSet(f, S \ {a})
  BY SumWithout
<1>4. SumFunctionOnSet(g, S) = g[a] + SumFunctionOnSet(g, S \ {a})
  BY SumWithout
<1>5. SumFunctionOnSet(f, S \ {a}) \in Int
  BY <1>1, SumIsInt
<1> QED BY <1>2, <1>3, <1>4, <1>5

(* Summands of nothing may be left out. *)
THEOREM SumOfSupport ==
  ASSUME NEW f, NEW S, IsFiniteSet(S), \A x \in S : f[x] \in Int,
         NEW T \in SUBSET S, \A x \in S \ T : f[x] = 0
  PROVE  SumFunctionOnSet(f, S) = SumFunctionOnSet(f, T)
<1> DEFINE D == S \ T
           Good == {U \in SUBSET D : SumFunctionOnSet(f, T \cup U) = SumFunctionOnSet(f, T)}
<1>1. ASSUME NEW U \in SUBSET D, \A x \in U : U \ {x} \in Good
      PROVE  U \in Good
  <2>1. CASE U = {}
    BY <2>1
  <2>2. CASE U # {}
    <3>1. PICK x \in U : x \in S \ T
      BY <2>2
    <3>2. IsFiniteSet(T \cup U) /\ (T \cup U) \ {x} = T \cup (U \ {x})
      BY <3>1, FS_Subset
    <3>3. SumFunctionOnSet(f, T \cup U) = f[x] + SumFunctionOnSet(f, T \cup (U \ {x}))
      BY <3>1, <3>2, SumWithout
    <3>4. SumFunctionOnSet(f, T) \in Int
      BY FS_Subset, SumIsInt
    <3>5. SumFunctionOnSet(f, T \cup (U \ {x})) = SumFunctionOnSet(f, T)
      BY <1>1
    <3> QED BY <3>1, <3>3, <3>4, <3>5
  <2> QED BY <2>1, <2>2
<1>2. IsFiniteSet(D) /\ T \cup D = S
  BY FS_Subset
<1> HIDE DEF D, Good
<1>3. SUBSET D \subseteq Good
  BY <1>1, <1>2, FiniteInduction
<1>4. D \in Good
  BY <1>3
<1> QED BY <1>2, <1>4 DEF Good

-----------------------------------------------------------------------------
(* Sums of a field, for MapThenSumSet.                                     *)

Total(S) == MapThenSumSet(LAMBDA e : e.amount, S)

LEMMA TotalAsSum ==
  ASSUME NEW S, IsFiniteSet(S), NEW U, S \subseteq U
  PROVE  Total(S) = SumFunctionOnSet([e \in U |-> e.amount], S)
<1> DEFINE f == [e \in U |-> e.amount]
           P(it) == it = [s \in SUBSET S |-> IF s = {} THEN 0
                           ELSE SomeOf(s).amount + it[s \ {SomeOf(s)}]]
           chosen == CHOOSE it : P(it)
<1>1. Total(S) = chosen[S]
  BY DEF Total, MapThenSumSet, MapThenFoldSet, SomeOf
<1>2. ASSUME NEW it PROVE P(it) <=> SumRecursion(f, it, S)
  <2>1. ASSUME NEW s \in SUBSET S
        PROVE  SumStep(f, it, s) = IF s = {} THEN 0 ELSE SomeOf(s).amount + it[s \ {SomeOf(s)}]
    <3>1. s # {} => SomeOf(s) \in U
      BY SomeOfIsIn
    <3> QED BY <3>1 DEF SumStep
  <2>2. [s \in SUBSET S |-> SumStep(f, it, s)]
        = [s \in SUBSET S |-> IF s = {} THEN 0 ELSE SomeOf(s).amount + it[s \ {SomeOf(s)}]]
    <3> HIDE DEF f
    <3> QED BY <2>1
  <2> QED BY <2>2 DEF SumRecursion
<1> HIDE DEF f, P
<1>3. \E it : P(it)
  BY <1>2, SumRecursionExists
<1>4. P(chosen)
  BY <1>3
<1> HIDE DEF chosen
<1>5. SumRecursion(f, chosen, S)
  BY <1>2, <1>4
<1>6. SumFunctionOnSet(f, S) = chosen[S]
  BY <1>5, SumIsRecursive
<1> QED BY <1>1, <1>6 DEF f

(* No entries, no amount. *)
THEOREM TotalOfNothing == Total({}) = 0
<1>1. Total({}) = SumFunctionOnSet([e \in {} |-> e.amount], {})
  BY TotalAsSum, FS_EmptySet
<1> QED BY <1>1, SumOfNothing

(* One more entry adds its amount. *)
THEOREM TotalWith ==
  ASSUME NEW S, IsFiniteSet(S), NEW a, a \notin S, \A e \in S \cup {a} : e.amount \in Int
  PROVE  Total(S) \in Int /\ Total(S \cup {a}) = a.amount + Total(S)
<1> DEFINE U == S \cup {a}
           f == [e \in U |-> e.amount]
<1>1. IsFiniteSet(U)
  BY FS_AddElement
<1>2. Total(S) = SumFunctionOnSet(f, S) /\ Total(U) = SumFunctionOnSet(f, U)
  BY <1>1, TotalAsSum
<1>3. f[a] = a.amount /\ \A e \in U : f[e] \in Int
  OBVIOUS
<1> HIDE DEF f
<1>4. SumFunctionOnSet(f, U) = f[a] + SumFunctionOnSet(f, S) /\ SumFunctionOnSet(f, S) \in Int
  BY <1>3, SumWith, SumIsInt
<1> QED BY <1>2, <1>3, <1>4
=============================================================================
