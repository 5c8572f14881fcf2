-------------------------- MODULE StatementsProofs --------------------------
(***************************************************************************)
(* What the statements add up to, whatever is posted and however it is     *)
(* classed.  First sums over finite sets, which the statements are: the    *)
(* community folds choose what to add next, so the first thing to prove is *)
(* that a sum does not depend on the choice.                               *)
(***************************************************************************)
EXTENDS Statements, FiniteSetTheorems, WellFoundedInduction, TLAPS

-----------------------------------------------------------------------------
(* Sums over finite sets.                                                  *)

\* Among subsets of a finite set some is smallest.
LEMMA SmallestExists ==
  ASSUME NEW S, IsFiniteSet(S), NEW Bad \in SUBSET SUBSET S, Bad # {}
  PROVE  \E t \in Bad : \A u \in Bad : u \subseteq t => u = t
<1>1. Bad \subseteq FiniteSubsetsOf(S)
  BY FS_Subset DEF FiniteSubsetsOf
<1>2. PICK t \in Bad : \A y \in Bad : ~ (<<y, t>> \in StrictSubsetOrdering(S))
  BY <1>1, FS_StrictSubsetOrderingWellFounded, WFMin, Zenon
<1> QED
  BY <1>1, <1>2 DEF StrictSubsetOrdering, FiniteSubsetsOf

\* A property of the empty set that one more element keeps is one of every
\* finite set.
LEMMA FiniteInduction ==
  ASSUME NEW S, IsFiniteSet(S), NEW Good \in SUBSET SUBSET S, {} \in Good,
         \A s \in Good, x \in S : s \cup {x} \in Good
  PROVE  S \in Good
<1> DEFINE Bad == { s \in SUBSET S : s \notin Good }
<1> SUFFICES ASSUME S \notin Good PROVE FALSE
  OBVIOUS
<1>2. PICK t \in Bad : \A u \in Bad : u \subseteq t => u = t
  <2>1. Bad \in SUBSET SUBSET S /\ Bad # {}
    OBVIOUS
  <2> HIDE DEF Bad
  <2> QED
    BY <2>1, SmallestExists
<1>3. PICK x \in t : TRUE
  BY <1>2
<1>4. t \ {x} \notin Bad
  BY <1>2, <1>3
<1>5. t \ {x} \in Good /\ (t \ {x}) \cup {x} = t /\ x \in S
  BY <1>2, <1>3, <1>4
<1> QED
  BY <1>2, <1>5

\* Finitely many finite sets make a finite one, and so do the values of a
\* function of finitely many arguments.
LEMMA UnionFinite ==
  ASSUME NEW S, IsFiniteSet(S), NEW D, \A x \in S : IsFiniteSet(D[x])
  PROVE  IsFiniteSet(UNION { D[x] : x \in S })
<1> DEFINE all(T) == UNION { D[x] : x \in T }
           Good == { T \in SUBSET S : IsFiniteSet(all(T)) }
<1>1. {} \in Good
  <2>1. all({}) = {}
    OBVIOUS
  <2> QED
    BY <2>1, FS_EmptySet
<1>2. ASSUME NEW T \in Good, NEW x \in S PROVE T \cup {x} \in Good
  <2>1. all(T \cup {x}) = all(T) \cup D[x] /\ IsFiniteSet(D[x]) /\ IsFiniteSet(all(T))
    OBVIOUS
  <2> HIDE DEF all
  <2>2. IsFiniteSet(all(T) \cup D[x])
    BY <2>1, FS_Union
  <2> QED
    BY <2>1, <2>2
<1>3. S \in Good
  <2>1. Good \in SUBSET SUBSET S
    OBVIOUS
  <2> HIDE DEF Good
  <2> QED
    BY <1>1, <1>2, <2>1, FiniteInduction
<1> QED
  BY <1>3

LEMMA ImageFinite ==
  ASSUME NEW S, IsFiniteSet(S), NEW h
  PROVE  IsFiniteSet({ h[x] : x \in S })
<1> DEFINE D == [x \in S |-> {h[x]}]
<1>1. \A x \in S : IsFiniteSet(D[x])
  BY FS_Singleton
<1>2. UNION { D[x] : x \in S } = { h[x] : x \in S }
  OBVIOUS
<1> HIDE DEF D
<1>3. IsFiniteSet(UNION { D[x] : x \in S })
  BY <1>1, UnionFinite
<1> QED
  BY <1>2, <1>3

\* The same for the natural numbers.
LEMMA CountingInduction ==
  ASSUME NEW T \in SUBSET Nat, 0 \in T, \A n \in T : n + 1 \in T
  PROVE  T = Nat
<1> DEFINE Bad == Nat \ T
<1> SUFFICES ASSUME Bad # {} PROVE FALSE
  OBVIOUS
<1>1. PICK m \in Bad : \A y \in Bad : ~ (<<y, m>> \in OpToRel(<, Nat))
  BY NatLessThanWellFounded, WFMin, Zenon
<1>2. m \in Nat /\ m # 0
  BY <1>1
<1>5. m - 1 \in Nat /\ m - 1 < m
  BY <1>2
<1>3. m - 1 \notin Bad
  BY <1>1, <1>2, <1>5 DEF OpToRel
<1>4. (m - 1) + 1 = m
  BY <1>2
<1> QED
  BY <1>1, <1>3, <1>4, <1>5

\* The equations of the recursive function that SumFunctionOnSet is.
Adds(g, f, S) ==
  g = [s \in SUBSET S |-> IF s = {} THEN 0
                          ELSE f[CHOOSE x \in s : TRUE] + g[s \ {CHOOSE x \in s : TRUE}]]

\* There is such a function: it is built by the size of its arguments.
LEMMA AddsExists ==
  ASSUME NEW S, IsFiniteSet(S), NEW f
  PROVE  \E g : Adds(g, f, S)
<1> DEFINE pick(s) == CHOOSE x \in s : TRUE
           upto(n) == { s \in SUBSET S : Cardinality(s) <= n }
           Built(g, n) ==
             g = [s \in upto(n) |-> IF s = {} THEN 0 ELSE f[pick(s)] + g[s \ {pick(s)}]]
           P(n) == \E g : Built(g, n)
<1>1. \A s \in SUBSET S : IsFiniteSet(s) /\ Cardinality(s) \in Nat /\ (Cardinality(s) = 0 <=> s = {})
  BY FS_Subset, FS_CardinalityType, FS_EmptySet
<1>2. \A s \in SUBSET S : s # {} => pick(s) \in s /\ Cardinality(s \ {pick(s)}) = Cardinality(s) - 1
  <2> TAKE s \in SUBSET S
  <2> HAVE s # {}
  <2>1. pick(s) \in s
    OBVIOUS
  <2> HIDE DEF pick
  <2> QED
    BY <1>1, <2>1, FS_RemoveElement
<1> HIDE DEF pick
<1>3. P(0)
  <2> WITNESS [s \in upto(0) |-> 0]
  <2> QED
    BY <1>1
<1>4. \A n \in Nat : P(n) => P(n + 1)
  <2> TAKE n \in Nat
  <2> HAVE P(n)
  <2>1. PICK g : Built(g, n)
    OBVIOUS
  <2> DEFINE h == [s \in upto(n + 1) |-> IF s = {} THEN 0 ELSE f[pick(s)] + g[s \ {pick(s)}]]
  <2>2. \A s \in upto(n + 1) : s # {} => s \ {pick(s)} \in upto(n)
    BY <1>1, <1>2
  <2>3. \A s \in upto(n) : s \in upto(n + 1)
    BY <1>1
  <2>4. \A s \in upto(n) : g[s] = IF s = {} THEN 0 ELSE f[pick(s)] + g[s \ {pick(s)}]
    BY <2>1
  <2>5. \A s \in upto(n) : h[s] = g[s]
    <3> HIDE DEF upto
    <3> QED
      BY <2>3, <2>4
  <2>6. Built(h, n + 1)
    <3> HIDE DEF upto
    <3> QED
      BY <2>2, <2>5
  <2> QED
    BY <2>6
<1>5. Cardinality(S) \in Nat
  BY <1>1
<1>6. P(Cardinality(S))
  <2> DEFINE T == { n \in Nat : P(n) }
  <2> HIDE DEF P
  <2>1. T = Nat
    <3>1. 0 \in T
      BY <1>3
    <3>2. \A n \in T : n + 1 \in T
      BY <1>4
    <3>3. T \in SUBSET Nat
      OBVIOUS
    <3> HIDE DEF T
    <3> QED
      BY <3>1, <3>2, <3>3, CountingInduction
  <2> QED
    BY <1>5, <2>1
<1>7. PICK g : Built(g, Cardinality(S))
  BY <1>6
<1>8. upto(Cardinality(S)) = SUBSET S
  BY <1>1, FS_Subset
<1> QED
  BY <1>7, <1>8 DEF Adds, pick

\* It is unique, and has the sum of each subset.
LEMMA SumOfSubset ==
  ASSUME NEW S, IsFiniteSet(S), NEW f, NEW g, Adds(g, f, S), NEW T \in SUBSET S
  PROVE  SumFunctionOnSet(f, T) = g[T]
<1> DEFINE h == CHOOSE h : Adds(h, f, T)
           Bad == { s \in SUBSET T : h[s] # g[s] }
<1>1. IsFiniteSet(T)
  BY FS_Subset
<1>2. Adds(h, f, T)
  BY <1>1, AddsExists
<1>3. SumFunctionOnSet(f, T) = h[T]
  BY DEF SumFunctionOnSet, FoldFunctionOnSet, MapThenFoldSet, Adds
<1> HIDE DEF h
<1> SUFFICES ASSUME Bad # {} PROVE FALSE
  BY <1>3
<1>5. PICK t \in Bad : \A u \in Bad : u \subseteq t => u = t
  <2>1. Bad \in SUBSET SUBSET T /\ Bad # {}
    OBVIOUS
  <2> HIDE DEF Bad
  <2> QED
    BY <1>1, <2>1, SmallestExists
<1> DEFINE x == CHOOSE x \in t : TRUE
           u == t \ {x}
<1>6. t # {}
  BY <1>2, <1>5 DEF Adds
<1>7. x \in t
  BY <1>6
<1>8. h[t] = f[x] + h[u] /\ g[t] = f[x] + g[u]
  BY <1>2, <1>5, <1>6 DEF Adds
<1> HIDE DEF x
<1>9. u \in SUBSET T /\ u \notin Bad
  BY <1>5, <1>7
<1> QED
  BY <1>5, <1>8, <1>9

LEMMA AddsInt ==
  ASSUME NEW S, IsFiniteSet(S), NEW f, \A x \in S : f[x] \in Int, NEW g, Adds(g, f, S)
  PROVE  \A T \in SUBSET S : g[T] \in Int
<1> DEFINE Bad == { s \in SUBSET S : g[s] \notin Int }
<1> SUFFICES ASSUME Bad # {} PROVE FALSE
  OBVIOUS
<1>5. PICK t \in Bad : \A u \in Bad : u \subseteq t => u = t
  <2>1. Bad \in SUBSET SUBSET S /\ Bad # {}
    OBVIOUS
  <2> HIDE DEF Bad
  <2> QED
    BY <2>1, SmallestExists
<1> DEFINE x == CHOOSE x \in t : TRUE
           u == t \ {x}
<1>6. t # {}
  BY <1>5 DEF Adds
<1>7. x \in t
  BY <1>6
<1>8. g[t] = f[x] + g[u]
  BY <1>5, <1>6 DEF Adds
<1> HIDE DEF x
<1>9. u \in SUBSET S /\ u \notin Bad
  BY <1>5, <1>7
<1>10. f[x] \in Int /\ g[u] \in Int
  BY <1>5, <1>7, <1>9
<1> QED
  BY <1>5, <1>8, <1>10

\* The order of addition does not matter: any element may come off first.
LEMMA AddsRemove ==
  ASSUME NEW S, IsFiniteSet(S), NEW f, \A x \in S : f[x] \in Int, NEW g, Adds(g, f, S)
  PROVE  \A T \in SUBSET S : \A y \in T : g[T] = f[y] + g[T \ {y}]
<1> DEFINE Bad == { s \in SUBSET S : \E y \in s : g[s] # f[y] + g[s \ {y}] }
<1> SUFFICES ASSUME Bad # {} PROVE FALSE
  OBVIOUS
<1>1. \A T \in SUBSET S : g[T] \in Int
  BY AddsInt
<1>5. PICK t \in Bad : \A u \in Bad : u \subseteq t => u = t
  <2>1. Bad \in SUBSET SUBSET S /\ Bad # {}
    OBVIOUS
  <2> HIDE DEF Bad
  <2> QED
    BY <2>1, SmallestExists
<1>6. PICK y \in t : g[t] # f[y] + g[t \ {y}]
  BY <1>5
<1> DEFINE x == CHOOSE x \in t : TRUE
<1>7. x \in t
  BY <1>6
<1>8. g[t] = f[x] + g[t \ {x}]
  BY <1>5, <1>6 DEF Adds
<1> HIDE DEF x
<1>9. x # y
  BY <1>6, <1>8
<1>10. /\ t \ {x} \in SUBSET S /\ t \ {x} \notin Bad /\ y \in t \ {x}
       /\ t \ {y} \in SUBSET S /\ t \ {y} \notin Bad /\ x \in t \ {y}
  BY <1>5, <1>6, <1>7, <1>9
<1> DEFINE u == (t \ {x}) \ {y}
<1>11. g[t \ {x}] = f[y] + g[u]
  BY <1>10
<1>12. u = (t \ {y}) \ {x} /\ u \in SUBSET S
  BY <1>5
<1>13. g[t \ {y}] = f[x] + g[u]
  BY <1>10, <1>12
<1>14. f[x] \in Int /\ f[y] \in Int /\ g[u] \in Int
  BY <1>1, <1>5, <1>6, <1>7, <1>12
<1> HIDE DEF u
<1> QED
  BY <1>6, <1>8, <1>11, <1>13, <1>14

\* Sums of integers over finite sets: none, one more, all of them integers.
LEMMA SumEmpty ==
  ASSUME NEW f
  PROVE  SumFunctionOnSet(f, {}) = 0
<1>1. IsFiniteSet({})
  BY FS_EmptySet
<1>2. PICK g : Adds(g, f, {})
  BY <1>1, AddsExists
<1>3. SumFunctionOnSet(f, {}) = g[{}]
  BY <1>1, <1>2, SumOfSubset
<1> QED
  BY <1>2, <1>3 DEF Adds

LEMMA SumInt ==
  ASSUME NEW S, IsFiniteSet(S), NEW f, \A x \in S : f[x] \in Int
  PROVE  SumFunctionOnSet(f, S) \in Int
<1>1. PICK g : Adds(g, f, S)
  BY AddsExists
<1>2. SumFunctionOnSet(f, S) = g[S]
  BY <1>1, SumOfSubset
<1> QED
  BY <1>1, <1>2, AddsInt

LEMMA SumRemove ==
  ASSUME NEW S, IsFiniteSet(S), NEW f, \A x \in S : f[x] \in Int, NEW y \in S
  PROVE  SumFunctionOnSet(f, S) = f[y] + SumFunctionOnSet(f, S \ {y})
<1>1. PICK g : Adds(g, f, S)
  BY AddsExists
<1>2. SumFunctionOnSet(f, S) = g[S] /\ SumFunctionOnSet(f, S \ {y}) = g[S \ {y}]
  BY <1>1, SumOfSubset
<1> QED
  BY <1>1, <1>2, AddsRemove

LEMMA SumAdd ==
  ASSUME NEW S, IsFiniteSet(S), NEW y, y \notin S, NEW f, f[y] \in Int, \A x \in S : f[x] \in Int
  PROVE  SumFunctionOnSet(f, S \cup {y}) = SumFunctionOnSet(f, S) + f[y]
<1>1. IsFiniteSet(S \cup {y}) /\ (S \cup {y}) \ {y} = S
  BY FS_AddElement
<1>2. SumFunctionOnSet(f, S) \in Int
  BY SumInt
<1>3. SumFunctionOnSet(f, S \cup {y}) = f[y] + SumFunctionOnSet(f, S)
  <2> DEFINE T == S \cup {y}
  <2>1. IsFiniteSet(T) /\ y \in T /\ T \ {y} = S /\ \A x \in T : f[x] \in Int
    BY <1>1
  <2> HIDE DEF T
  <2>2. SumFunctionOnSet(f, T) = f[y] + SumFunctionOnSet(f, T \ {y})
    BY <2>1, SumRemove
  <2> QED
    BY <2>1, <2>2 DEF T
<1> QED
  BY <1>1, <1>2, <1>3

\* What is 0 of the empty set and grows by its summand with each element is
\* the sum: the lemmas below name such a G.
GrowsBy(G, f, S) ==
  /\ G[{}] = 0
  /\ \A x \in S : f[x] \in Int
  /\ \A T \in SUBSET S, x \in S : x \notin T => G[T \cup {x}] = G[T] + f[x]

LEMMA SumIs ==
  ASSUME NEW S, IsFiniteSet(S), NEW f, NEW G, GrowsBy(G, f, S)
  PROVE  SumFunctionOnSet(f, S) = G[S]
<1> DEFINE Good == { T \in SUBSET S : SumFunctionOnSet(f, T) = G[T] }
<1>1. {} \in Good
  BY SumEmpty DEF GrowsBy
<1>2. ASSUME NEW T \in Good, NEW x \in S PROVE T \cup {x} \in Good
  <2>1. CASE x \in T
    BY <2>1
  <2>2. CASE x \notin T
    <3>1. IsFiniteSet(T) /\ f[x] \in Int /\ \A y \in T : f[y] \in Int
      BY FS_Subset DEF GrowsBy
    <3> HIDE DEF Good
    <3>2. SumFunctionOnSet(f, T \cup {x}) = SumFunctionOnSet(f, T) + f[x]
      BY <2>2, <3>1, SumAdd
    <3> QED
      BY <2>2, <3>2 DEF Good, GrowsBy
  <2> QED
    BY <2>1, <2>2
<1>3. S \in Good
  <2> HIDE DEF Good
  <2>1. Good \in SUBSET SUBSET S
    BY DEF Good
  <2> QED
    BY <1>1, <1>2, <2>1, FiniteInduction
<1> QED
  BY <1>3

-----------------------------------------------------------------------------
(* Sums of sums.                                                           *)

\* Summands that agree.
LEMMA SumSame ==
  ASSUME NEW S, IsFiniteSet(S), NEW f, NEW h, \A x \in S : f[x] \in Int /\ h[x] = f[x]
  PROVE  SumFunctionOnSet(h, S) = SumFunctionOnSet(f, S)
<1> DEFINE G == [T \in SUBSET S |-> SumFunctionOnSet(f, T)]
<1>1. G[{}] = 0
  BY SumEmpty
<1>2. ASSUME NEW T \in SUBSET S, NEW x \in S, x \notin T PROVE G[T \cup {x}] = G[T] + h[x]
  <2>1. IsFiniteSet(T) /\ f[x] \in Int /\ h[x] = f[x] /\ \A y \in T : f[y] \in Int
    BY FS_Subset
  <2>2. SumFunctionOnSet(f, T \cup {x}) = SumFunctionOnSet(f, T) + f[x]
    BY <1>2, <2>1, SumAdd
  <2> QED
    BY <2>1, <2>2
<1> HIDE DEF G
<1>3. GrowsBy(G, h, S)
  BY <1>1, <1>2 DEF GrowsBy
<1>4. SumFunctionOnSet(h, S) = G[S]
  BY <1>3, SumIs
<1> QED
  BY <1>4 DEF G

LEMMA SumZero ==
  ASSUME NEW S, IsFiniteSet(S), NEW f, \A x \in S : f[x] = 0
  PROVE  SumFunctionOnSet(f, S) = 0
<1> DEFINE G == [T \in SUBSET S |-> 0]
<1>1. G[{}] = 0 /\ \A T \in SUBSET S, x \in S : x \notin T => G[T \cup {x}] = G[T] + f[x]
  OBVIOUS
<1> HIDE DEF G
<1>2. GrowsBy(G, f, S)
  BY <1>1 DEF GrowsBy
<1>3. SumFunctionOnSet(f, S) = G[S]
  BY <1>2, SumIs
<1> QED
  BY <1>3 DEF G

LEMMA SumUnion ==
  ASSUME NEW S, IsFiniteSet(S), NEW R, IsFiniteSet(R), S \cap R = {},
         NEW f, \A x \in S \cup R : f[x] \in Int
  PROVE  SumFunctionOnSet(f, S \cup R) = SumFunctionOnSet(f, S) + SumFunctionOnSet(f, R)
<1> DEFINE G == [T \in SUBSET S |-> SumFunctionOnSet(f, T \cup R) - SumFunctionOnSet(f, R)]
<1>1. SumFunctionOnSet(f, R) \in Int
  BY SumInt
<1>2. ASSUME NEW T \in SUBSET S
      PROVE  IsFiniteSet(T \cup R) /\ SumFunctionOnSet(f, T \cup R) \in Int
  <2>1. IsFiniteSet(T \cup R) /\ \A x \in T \cup R : f[x] \in Int
    BY FS_Subset, FS_Union
  <2> QED
    BY <2>1, SumInt
<1>3. G[{}] = 0
  BY <1>1
<1>4. ASSUME NEW T \in SUBSET S, NEW x \in S, x \notin T PROVE G[T \cup {x}] = G[T] + f[x]
  <2> DEFINE U == T \cup R
  <2>1. IsFiniteSet(U) /\ x \notin U /\ \A y \in U : f[y] \in Int
    BY <1>2, <1>4
  <2>2. SumFunctionOnSet(f, U) \in Int /\ (T \cup {x}) \cup R = U \cup {x} /\ f[x] \in Int
    BY <1>2
  <2>3. G[T] = SumFunctionOnSet(f, U) - SumFunctionOnSet(f, R)
        /\ G[T \cup {x}] = SumFunctionOnSet(f, U \cup {x}) - SumFunctionOnSet(f, R)
    BY <2>2
  <2> HIDE DEF U, G
  <2>4. SumFunctionOnSet(f, U \cup {x}) = SumFunctionOnSet(f, U) + f[x]
    BY <2>1, SumAdd
  <2> QED
    BY <1>1, <2>2, <2>3, <2>4
<1>5. G[S] = SumFunctionOnSet(f, S \cup R) - SumFunctionOnSet(f, R)
  OBVIOUS
<1> HIDE DEF G
<1>6. GrowsBy(G, f, S)
  BY <1>3, <1>4 DEF GrowsBy
<1>7. SumFunctionOnSet(f, S) = G[S]
  BY <1>6, SumIs
<1> QED
  BY <1>1, <1>2, <1>5, <1>7

\* What is nothing on part of a set may be left out.
LEMMA SumPart ==
  ASSUME NEW S, IsFiniteSet(S), NEW T \in SUBSET S, NEW f,
         \A x \in T : f[x] \in Int, \A x \in S \ T : f[x] = 0
  PROVE  SumFunctionOnSet(f, S) = SumFunctionOnSet(f, T)
<1> DEFINE R == S \ T
<1>1. IsFiniteSet(T) /\ IsFiniteSet(R) /\ T \cap R = {} /\ T \cup R = S /\ \A x \in R : f[x] = 0
  BY FS_Subset, FS_Difference
<1>2. \A x \in T \cup R : f[x] \in Int
  OBVIOUS
<1> HIDE DEF R
<1>3. SumFunctionOnSet(f, R) = 0
  BY <1>1, SumZero
<1>4. SumFunctionOnSet(f, T) \in Int
  BY <1>1, SumInt
<1>5. SumFunctionOnSet(f, T \cup R) = SumFunctionOnSet(f, T) + SumFunctionOnSet(f, R)
  BY <1>1, <1>2, SumUnion
<1>6. SumFunctionOnSet(f, T \cup R) = SumFunctionOnSet(f, S)
  BY <1>1, Zenon
<1> QED
  BY <1>3, <1>4, <1>5, <1>6

LEMMA SumOne ==
  ASSUME NEW x, NEW f, f[x] \in Int
  PROVE  SumFunctionOnSet(f, {x}) = f[x]
<1>1. IsFiniteSet({}) /\ {} \cup {x} = {x} /\ x \notin {}
  BY FS_EmptySet
<1>2. SumFunctionOnSet(f, {} \cup {x}) = SumFunctionOnSet(f, {}) + f[x]
  BY <1>1, SumAdd
<1> QED
  BY <1>1, <1>2, SumEmpty

\* Sums of two functions and of the opposite of one.
LEMMA SumPlus ==
  ASSUME NEW S, IsFiniteSet(S), NEW f, NEW g, NEW h,
         \A x \in S : f[x] \in Int, \A x \in S : g[x] \in Int, \A x \in S : h[x] = f[x] + g[x]
  PROVE  SumFunctionOnSet(h, S) = SumFunctionOnSet(f, S) + SumFunctionOnSet(g, S)
<1> DEFINE G == [T \in SUBSET S |-> SumFunctionOnSet(f, T) + SumFunctionOnSet(g, T)]
<1>1. G[{}] = 0
  BY SumEmpty
<1>2. ASSUME NEW T \in SUBSET S, NEW x \in S, x \notin T PROVE G[T \cup {x}] = G[T] + h[x]
  <2>1. IsFiniteSet(T) /\ (\A y \in T : f[y] \in Int) /\ (\A y \in T : g[y] \in Int)
    BY FS_Subset
  <2>2. f[x] \in Int /\ g[x] \in Int /\ h[x] = f[x] + g[x]
    OBVIOUS
  <2>3. /\ SumFunctionOnSet(f, T \cup {x}) = SumFunctionOnSet(f, T) + f[x]
        /\ SumFunctionOnSet(g, T \cup {x}) = SumFunctionOnSet(g, T) + g[x]
    BY <1>2, <2>1, <2>2, SumAdd
  <2>4. SumFunctionOnSet(f, T) \in Int /\ SumFunctionOnSet(g, T) \in Int
    BY <2>1, SumInt
  <2>5. /\ G[T] = SumFunctionOnSet(f, T) + SumFunctionOnSet(g, T)
        /\ G[T \cup {x}] = SumFunctionOnSet(f, T \cup {x}) + SumFunctionOnSet(g, T \cup {x})
    OBVIOUS
  <2> HIDE DEF G
  <2> QED
    BY <2>2, <2>3, <2>4, <2>5
<1>3. \A x \in S : h[x] \in Int
  OBVIOUS
<1> HIDE DEF G
<1>4. GrowsBy(G, h, S)
  BY <1>1, <1>2, <1>3 DEF GrowsBy
<1>5. SumFunctionOnSet(h, S) = G[S]
  BY <1>4, SumIs
<1> QED
  BY <1>5 DEF G

LEMMA SumOpposite ==
  ASSUME NEW S, IsFiniteSet(S), NEW f, NEW h, \A x \in S : f[x] \in Int, \A x \in S : h[x] = - f[x]
  PROVE  SumFunctionOnSet(h, S) = - SumFunctionOnSet(f, S)
<1> DEFINE z == [x \in S |-> 0]
<1>1. SumFunctionOnSet(z, S) = 0
  <2>1. \A x \in S : z[x] = 0
    OBVIOUS
  <2> HIDE DEF z
  <2> QED
    BY <2>1, SumZero
<1>2. /\ \A x \in S : h[x] \in Int
      /\ \A x \in S : z[x] = f[x] + h[x]
  OBVIOUS
<1> HIDE DEF z
<1>3. SumFunctionOnSet(z, S) = SumFunctionOnSet(f, S) + SumFunctionOnSet(h, S)
  BY <1>2, SumPlus
<1>4. SumFunctionOnSet(f, S) \in Int /\ SumFunctionOnSet(h, S) \in Int
  BY <1>2, SumInt
<1> QED
  BY <1>1, <1>3, <1>4

\* What is summed group by group is summed once over the groups.
Group(S, key, C) == { x \in S : key[x] \in C }

SumsGroups(h, C, f, S, key) ==
  /\ \A x \in S : f[x] \in Int
  /\ \A c \in C : h[c] = SumFunctionOnSet(f, Group(S, key, {c}))

LEMMA SumByGroup ==
  ASSUME NEW S, IsFiniteSet(S), NEW C, IsFiniteSet(C), NEW f, NEW key, NEW h, SumsGroups(h, C, f, S, key)
  PROVE  SumFunctionOnSet(h, C) = SumFunctionOnSet(f, Group(S, key, C))
<1> USE DEF Group, SumsGroups
<1> DEFINE in(D) == Group(S, key, D)
           of(c) == Group(S, key, {c})
           G == [D \in SUBSET C |-> SumFunctionOnSet(f, in(D))]
<1>1. \A D : IsFiniteSet(in(D)) /\ \A x \in in(D) : f[x] \in Int
  BY FS_Subset
<1>2. \A c : IsFiniteSet(of(c)) /\ \A x \in of(c) : f[x] \in Int
  BY FS_Subset
<1>3. G[{}] = 0
  <2>1. in({}) = {}
    OBVIOUS
  <2> QED
    BY <2>1, SumEmpty
<1>4. ASSUME NEW D \in SUBSET C, NEW c \in C, c \notin D PROVE G[D \cup {c}] = G[D] + h[c]
  <2>1. in(D \cup {c}) = in(D) \cup of(c) /\ in(D) \cap of(c) = {}
    BY <1>4
  <2>2. /\ G[D] = SumFunctionOnSet(f, in(D)) /\ G[D \cup {c}] = SumFunctionOnSet(f, in(D \cup {c}))
        /\ h[c] = SumFunctionOnSet(f, of(c))
    OBVIOUS
  <2> HIDE DEF in, of, G
  <2> DEFINE P == in(D)
             Q == of(c)
  <2>3. IsFiniteSet(P) /\ IsFiniteSet(Q) /\ P \cap Q = {} /\ \A x \in P \cup Q : f[x] \in Int
    BY <1>1, <1>2, <2>1
  <2>4. G[D] = SumFunctionOnSet(f, P) /\ G[D \cup {c}] = SumFunctionOnSet(f, P \cup Q) /\ h[c] = SumFunctionOnSet(f, Q)
    BY <2>1, <2>2, Zenon
  <2> HIDE DEF P, Q
  <2>5. SumFunctionOnSet(f, P \cup Q) = SumFunctionOnSet(f, P) + SumFunctionOnSet(f, Q)
    BY <2>3, SumUnion
  <2> QED
    BY <2>4, <2>5
<1>5. \A c \in C : h[c] \in Int
  <2> TAKE c \in C
  <2>1. h[c] = SumFunctionOnSet(f, of(c))
    OBVIOUS
  <2> HIDE DEF of
  <2> QED
    BY <1>2, <2>1, SumInt
<1>6. G[C] = SumFunctionOnSet(f, in(C))
  OBVIOUS
<1> HIDE DEF G, in
<1>7. GrowsBy(G, h, C)
  BY <1>3, <1>4, <1>5 DEF GrowsBy
<1>8. SumFunctionOnSet(h, C) = G[C]
  BY <1>7, SumIs
<1> QED
  BY <1>6, <1>8 DEF in

\* Rows first or columns first.
Table(F, H, A, B, u, v) ==
  /\ \A a \in A, b \in B : F[a][b] \in Int
  /\ \A a \in A, b \in B : H[b][a] = F[a][b]
  /\ \A a \in A : u[a] = SumFunctionOnSet(F[a], B)
  /\ \A b \in B : v[b] = SumFunctionOnSet(H[b], A)

LEMMA SumSwap ==
  ASSUME NEW A, IsFiniteSet(A), NEW B, IsFiniteSet(B), NEW F, NEW H, NEW u, NEW v, Table(F, H, A, B, u, v)
  PROVE  SumFunctionOnSet(u, A) = SumFunctionOnSet(v, B)
<1> USE DEF Table
<1> DEFINE part(T) == [b \in B |-> SumFunctionOnSet(H[b], T)]
           G == [T \in SUBSET A |-> SumFunctionOnSet(part(T), B)]
<1>1. ASSUME NEW T \in SUBSET A, NEW b \in B PROVE IsFiniteSet(T) /\ part(T)[b] \in Int
  <2>1. IsFiniteSet(T) /\ \A a \in T : H[b][a] \in Int
    BY FS_Subset
  <2>2. SumFunctionOnSet(H[b], T) \in Int
    BY <2>1, SumInt
  <2> QED
    BY <2>1, <2>2
<1>2. G[{}] = 0
  <2>1. \A b \in B : part({})[b] = 0
    BY SumEmpty
  <2>2. G[{}] = SumFunctionOnSet(part({}), B)
    OBVIOUS
  <2> HIDE DEF part, G
  <2> QED
    BY <2>1, <2>2, SumZero
<1>3. ASSUME NEW T \in SUBSET A, NEW a \in A, a \notin T PROVE G[T \cup {a}] = G[T] + u[a]
  <2>1. ASSUME NEW b \in B PROVE part(T \cup {a})[b] = part(T)[b] + F[a][b]
    <3>1. IsFiniteSet(T) /\ H[b][a] \in Int /\ H[b][a] = F[a][b] /\ \A x \in T : H[b][x] \in Int
      BY FS_Subset
    <3>2. SumFunctionOnSet(H[b], T \cup {a}) = SumFunctionOnSet(H[b], T) + H[b][a]
      <4> DEFINE r == H[b]
      <4>1. IsFiniteSet(T) /\ r[a] \in Int /\ \A x \in T : r[x] \in Int
        BY <3>1
      <4> HIDE DEF r
      <4>2. SumFunctionOnSet(r, T \cup {a}) = SumFunctionOnSet(r, T) + r[a]
        BY <1>3, <4>1, SumAdd
      <4> QED
        BY <4>2 DEF r
    <3> QED
      BY <3>1, <3>2
  <2>2. /\ G[T] = SumFunctionOnSet(part(T), B) /\ G[T \cup {a}] = SumFunctionOnSet(part(T \cup {a}), B)
        /\ u[a] = SumFunctionOnSet(F[a], B)
    OBVIOUS
  <2>3. (\A b \in B : part(T)[b] \in Int) /\ \A b \in B : F[a][b] \in Int
    BY <1>1
  <2> HIDE DEF part, G
  <2>4. SumFunctionOnSet(part(T \cup {a}), B) = SumFunctionOnSet(part(T), B) + SumFunctionOnSet(F[a], B)
    <3> DEFINE p == part(T \cup {a})
               q == part(T)
               r == F[a]
    <3>1. (\A b \in B : q[b] \in Int) /\ (\A b \in B : r[b] \in Int) /\ \A b \in B : p[b] = q[b] + r[b]
      BY <2>1, <2>3
    <3> HIDE DEF p, q, r
    <3>2. SumFunctionOnSet(p, B) = SumFunctionOnSet(q, B) + SumFunctionOnSet(r, B)
      BY <3>1, SumPlus
    <3> QED
      BY <3>2 DEF p, q, r
  <2> QED
    BY <2>2, <2>4
<1>4. \A a \in A : u[a] \in Int
  <2> TAKE a \in A
  <2>1. \A b \in B : F[a][b] \in Int
    OBVIOUS
  <2> QED
    BY <2>1, SumInt
<1>5. G[A] = SumFunctionOnSet(v, B)
  <2>1. \A b \in B : part(A)[b] \in Int
    BY <1>1
  <2>2. \A b \in B : v[b] = part(A)[b]
    OBVIOUS
  <2>3. G[A] = SumFunctionOnSet(part(A), B)
    OBVIOUS
  <2> HIDE DEF part, G
  <2> QED
    BY <2>1, <2>2, <2>3, SumSame
<1> HIDE DEF G
<1>6. GrowsBy(G, u, A)
  BY <1>2, <1>3, <1>4 DEF GrowsBy
<1> QED
  BY <1>5, <1>6, SumIs

-----------------------------------------------------------------------------
(* Entries, classes and what they add up to.                               *)

\* Entries a query may read.
Entries(E) ==
  /\ IsFiniteSet(E)
  /\ \A e \in E : /\ e.month \in Int /\ IsFiniteSet(DOMAIN e.lines)
                  /\ \A a \in DOMAIN e.lines : e.lines[a] \in Int

Window(E, from, to) == { e \in E : e.month \in from .. to }

\* What an entry posts to accounts that the rows place in some classes.
PlacedIn(e, rows, C) == { a \in DOMAIN e.lines \cap DOMAIN rows : rows[a] \in C }
Placed(e, rows, C) == SumFunctionOnSet(e.lines, PlacedIn(e, rows, C))

LEMMA PlacedInt ==
  ASSUME NEW E, Entries(E), NEW rows, NEW C, NEW e \in E
  PROVE  IsFiniteSet(PlacedIn(e, rows, C)) /\ Placed(e, rows, C) \in Int
<1>1. IsFiniteSet(PlacedIn(e, rows, C)) /\ \A a \in PlacedIn(e, rows, C) : e.lines[a] \in Int
  BY FS_Subset DEF Entries, PlacedIn
<1> QED
  BY <1>1, SumInt DEF Placed

\* What a query may return: integers by class, finitely many.
Totals(t) == IsFiniteSet(DOMAIN t) /\ \A c \in DOMAIN t : t[c] \in Int

LEMMA AtInt ==
  ASSUME NEW t, Totals(t), NEW c
  PROVE  At(t, c) \in Int
BY DEF Totals, At

\* class_movements adds up by class what the entries of its window post to
\* the accounts of the class: summed over classes, it is summed over entries.
LEMMA ClassTotalsAddUp ==
  ASSUME NEW E, Entries(E), NEW rows, NEW from \in Int, NEW to \in Int, NEW C, IsFiniteSet(C),
         NEW placed, \A e \in Window(E, from, to) : placed[e] = Placed(e, rows, C)
  PROVE  /\ Of(ClassTotals(E, rows, from, to), C) = SumFunctionOnSet(placed, Window(E, from, to))
         /\ Totals(ClassTotals(E, rows, from, to))
<1> DEFINE read == Window(E, from, to)
           on(a) == { e \in read : a \in DOMAIN e.lines }
           joined == { a \in DOMAIN rows : on(a) # {} }
           posted == [a \in joined |-> SumFunction([e \in on(a) |-> e.lines[a]])]
           of(c) == { a \in joined : rows[a] = c }
           t == ClassTotals(E, rows, from, to)
           J == { a \in joined : rows[a] \in C }
<1>1. t = [c \in { rows[a] : a \in joined } |-> SumFunctionOnSet(posted, of(c))]
  BY DEF ClassTotals, Window
<1> HIDE DEF t
<1>2. IsFiniteSet(read) /\ \A e \in read : e \in E
  BY FS_Subset DEF Entries, Window
<1>3. IsFiniteSet(joined)
  <2> DEFINE D == [e \in read |-> DOMAIN e.lines]
  <2>1. \A e \in read : IsFiniteSet(D[e])
    BY <1>2 DEF Entries
  <2>2. joined \subseteq UNION { D[e] : e \in read }
    OBVIOUS
  <2> HIDE DEF D, joined, read
  <2>3. IsFiniteSet(UNION { D[e] : e \in read })
    BY <1>2, <2>1, UnionFinite
  <2> QED
    BY <2>2, <2>3, FS_Subset
<1>4. IsFiniteSet(J)
  BY <1>3, FS_Subset
<1> DEFINE F == [e \in read |-> [a \in J |-> IF a \in DOMAIN e.lines THEN e.lines[a] ELSE 0]]
           H == [a \in J |-> [e \in read |-> IF a \in DOMAIN e.lines THEN e.lines[a] ELSE 0]]
<1>5. \A e \in read, a \in J : F[e][a] \in Int /\ H[a][e] = F[e][a]
  BY <1>2 DEF Entries
<1>6. ASSUME NEW e \in read PROVE placed[e] = SumFunctionOnSet(F[e], J)
  <2> DEFINE T == PlacedIn(e, rows, C)
             f == F[e]
             lines == e.lines
  <2>1. T \subseteq J
    BY DEF PlacedIn
  <2>2. \A a \in T : lines[a] \in Int /\ f[a] = lines[a]
    BY <1>2, <2>1 DEF PlacedIn, Entries
  <2>3. \A a \in J \ T : f[a] = 0
    BY DEF PlacedIn
  <2>4. IsFiniteSet(T) /\ placed[e] = SumFunctionOnSet(lines, T)
    BY <1>2, PlacedInt DEF Placed
  <2> HIDE DEF f, T, J, lines
  <2>5. SumFunctionOnSet(f, J) = SumFunctionOnSet(f, T)
    BY <1>4, <2>1, <2>2, <2>3, SumPart
  <2>6. SumFunctionOnSet(f, T) = SumFunctionOnSet(lines, T)
    BY <2>2, <2>4, SumSame
  <2> QED
    BY <2>4, <2>5, <2>6 DEF f
<1>7. ASSUME NEW a \in joined
      PROVE  /\ posted[a] \in Int
             /\ a \in J => posted[a] = SumFunctionOnSet(H[a], read)
  <2> DEFINE f == [e \in read |-> IF a \in DOMAIN e.lines THEN e.lines[a] ELSE 0]
             T == on(a)
             g == [e \in T |-> e.lines[a]]
  <2>1. /\ T \subseteq read
        /\ \A e \in T : f[e] \in Int /\ g[e] = f[e]
        /\ \A e \in read \ T : f[e] = 0
    BY <1>2 DEF Entries
  <2>2. posted[a] = SumFunctionOnSet(g, T)
    BY DEF SumFunction
  <2>3. a \in J => H[a] = f
    OBVIOUS
  <2> HIDE DEF f, g, T, read, J, H, posted
  <2>4. IsFiniteSet(T)
    BY <1>2, <2>1, FS_Subset
  <2>5. SumFunctionOnSet(g, T) = SumFunctionOnSet(f, T) /\ SumFunctionOnSet(f, T) \in Int
    BY <2>1, <2>4, SumSame, SumInt
  <2>6. SumFunctionOnSet(f, read) = SumFunctionOnSet(f, T)
    BY <1>2, <2>1, SumPart
  <2> QED
    BY <2>2, <2>3, <2>5, <2>6
<1>8. ASSUME NEW c PROVE At(t, c) = SumFunctionOnSet(posted, of(c))
  <2>1. CASE c \in DOMAIN t
    BY <1>1, <2>1 DEF At
  <2>2. CASE c \notin DOMAIN t
    <3>1. of(c) = {}
      BY <1>1, <2>2
    <3> HIDE DEF of
    <3> QED
      BY <2>2, <3>1, SumEmpty DEF At
  <2> QED
    BY <2>1, <2>2
<1> DEFINE h == [c \in C |-> At(t, c)]
<1>9. Of(t, C) = SumFunctionOnSet(h, C)
  BY DEF Of, SumFunction
<1>10. SumFunctionOnSet(h, C) = SumFunctionOnSet(posted, J)
  <2>1. ASSUME NEW c \in C PROVE h[c] = SumFunctionOnSet(posted, Group(joined, rows, {c}))
    <3>1. of(c) = Group(joined, rows, {c})
      BY DEF Group
    <3> QED
      BY <1>8, <3>1
  <2>2. \A a \in joined : posted[a] \in Int
    BY <1>7
  <2>3. J = Group(joined, rows, C)
    BY DEF Group
  <2> HIDE DEF h, joined, posted, J
  <2>4. SumsGroups(h, C, posted, joined, rows)
    BY <2>1, <2>2 DEF SumsGroups
  <2> QED
    BY <1>3, <2>3, <2>4, SumByGroup
<1>11. SumFunctionOnSet(placed, read) = SumFunctionOnSet(posted, J)
  <2>1. \A a \in J : posted[a] = SumFunctionOnSet(H[a], read)
    BY <1>7
  <2> HIDE DEF read, J, posted, F, H
  <2>2. \A e \in read, a \in J : F[e][a] \in Int
    BY <1>5
  <2>3. \A e \in read, a \in J : H[a][e] = F[e][a]
    BY <1>5
  <2>4. \A e \in read : placed[e] = SumFunctionOnSet(F[e], J)
    BY <1>6
  <2>5. Table(F, H, read, J, placed, posted)
    BY <2>1, <2>2, <2>3, <2>4 DEF Table
  <2> QED
    BY <1>2, <1>4, <2>5, SumSwap
<1>13. Totals(t)
  <2>1. DOMAIN t = { rows[a] : a \in joined } /\ \A c \in DOMAIN t : t[c] = SumFunctionOnSet(posted, of(c))
    BY <1>1
  <2>2. ASSUME NEW c PROVE IsFiniteSet(of(c)) /\ \A a \in of(c) : posted[a] \in Int
    BY <1>3, <1>7, FS_Subset
  <2> HIDE DEF of, posted, joined
  <2>3. \A c : SumFunctionOnSet(posted, of(c)) \in Int
    BY <2>2, SumInt
  <2> QED
    BY <1>3, <2>1, <2>3, ImageFinite DEF Totals
<1> HIDE DEF h, J, posted, read
<1>12. Of(t, C) = SumFunctionOnSet(placed, read)
  BY <1>9, <1>10, <1>11
<1> QED
  BY <1>12, <1>13 DEF t, read

-----------------------------------------------------------------------------
(* Sums over classes.                                                      *)

\* Of over a set of classes, as a sum of one function of classes.
LEMMA OfAsSum ==
  ASSUME NEW t, Totals(t), NEW S, NEW C \in SUBSET S, IsFiniteSet(C)
  PROVE  /\ Of(t, C) = SumFunctionOnSet([c \in S |-> At(t, c)], C)
         /\ Of(t, C) \in Int
<1> DEFINE f == [c \in S |-> At(t, c)]
           g == [c \in C |-> At(t, c)]
<1>1. \A c \in C : f[c] \in Int /\ g[c] = f[c]
  BY AtInt
<1>2. Of(t, C) = SumFunctionOnSet(g, C)
  BY DEF Of, SumFunction
<1> HIDE DEF f, g
<1>3. SumFunctionOnSet(g, C) = SumFunctionOnSet(f, C) /\ SumFunctionOnSet(f, C) \in Int
  BY <1>1, SumSame, SumInt
<1> QED
  BY <1>2, <1>3 DEF f

LEMMA OfUnion ==
  ASSUME NEW t, Totals(t), NEW C, IsFiniteSet(C), NEW D, IsFiniteSet(D), C \cap D = {}
  PROVE  Of(t, C \cup D) = Of(t, C) + Of(t, D)
<1> DEFINE f == [c \in C \cup D |-> At(t, c)]
<1>1. \A c \in C \cup D : f[c] \in Int
  BY AtInt
<1>2. IsFiniteSet(C \cup D)
  BY FS_Union
<1>3. /\ Of(t, C) = SumFunctionOnSet(f, C)
      /\ Of(t, D) = SumFunctionOnSet(f, D)
      /\ Of(t, C \cup D) = SumFunctionOnSet(f, C \cup D)
  BY <1>2, OfAsSum
<1> HIDE DEF f
<1> QED
  BY <1>1, <1>3, SumUnion

LEMMA OfOne ==
  ASSUME NEW t, Totals(t), NEW c
  PROVE  Of(t, {c}) = At(t, c)
<1> DEFINE f == [x \in {c} |-> At(t, x)]
<1>1. f[c] = At(t, c) /\ f[c] \in Int
  BY AtInt
<1>2. Of(t, {c}) = SumFunctionOnSet(f, {c})
  BY DEF Of, SumFunction
<1> HIDE DEF f
<1> QED
  BY <1>1, <1>2, SumOne

\* One class more.
LEMMA OfAdd ==
  ASSUME NEW t, Totals(t), NEW C, IsFiniteSet(C), NEW c, c \notin C
  PROVE  /\ IsFiniteSet(C \cup {c}) /\ At(t, c) \in Int
         /\ Of(t, C \cup {c}) = Of(t, C) + At(t, c)
<1>1. IsFiniteSet({c}) /\ C \cap {c} = {}
  BY FS_Singleton
<1>2. Of(t, C \cup {c}) = Of(t, C) + Of(t, {c})
  BY <1>1, OfUnion
<1> QED
  BY <1>1, <1>2, OfOne, AtInt, FS_AddElement

\* Classes of nothing may be left out.
LEMMA OfPart ==
  ASSUME NEW t, Totals(t), NEW C, IsFiniteSet(C), NEW D \in SUBSET C, \A c \in C \ D : At(t, c) = 0
  PROVE  Of(t, C) = Of(t, D)
<1> DEFINE f == [c \in C |-> At(t, c)]
<1>1. IsFiniteSet(D)
  BY FS_Subset
<1>2. Of(t, C) = SumFunctionOnSet(f, C) /\ Of(t, D) = SumFunctionOnSet(f, D)
  BY <1>1, OfAsSum
<1>3. (\A c \in D : f[c] \in Int) /\ \A c \in C \ D : f[c] = 0
  BY AtInt
<1> HIDE DEF f
<1> QED
  BY <1>2, <1>3, SumPart

-----------------------------------------------------------------------------
(* The balance sheet.                                                      *)

GroupClasses(g) == { c \in SheetClasses : BALANCE_SHEET_LINES[c].group = g }

LEMMA SheetGroups ==
  /\ SheetClasses = {"cash_bank", "trade_receivable", "inventory_rm", "prepaid", "deposit", "investment",
                     "fixed_asset_gross", "trade_payable", "statutory_payable", "debt_term", "share_capital",
                     "unmapped"}
  /\ \A c \in GroupClasses("current_assets") \cup GroupClasses("non_current_assets") : BALANCE_SHEET_LINES[c].sign = 1
  /\ \A c \in GroupClasses("current_liabilities") \cup GroupClasses("non_current_liabilities")
              \cup GroupClasses("equity") \cup GroupClasses("unclassified") : BALANCE_SHEET_LINES[c].sign = -1
  /\ \A c \in SheetClasses : BALANCE_SHEET_LINES[c].group \in
       {"current_assets", "non_current_assets", "current_liabilities", "non_current_liabilities", "equity", "unclassified"}
BY DEF GroupClasses, SheetClasses, BALANCE_SHEET_LINES, REVENUE_SIGN, COST_SIGN

\* A list has finitely many entries.
LEMMA ListFinite ==
  ASSUME NEW n \in Nat, NEW h
  PROVE  IsFiniteSet({ h[i] : i \in 1 .. n })
<1>1. IsFiniteSet(1 .. n)
  BY FS_Interval
<1> QED
  BY <1>1, ImageFinite

LEMMA TaxonomyFinite == IsFiniteSet(Taxonomy) /\ SheetClasses \subseteq Taxonomy /\ PnlClasses \subseteq Taxonomy
<1> DEFINE h == << "cash_bank", "trade_receivable", "inventory_rm", "prepaid", "deposit", "investment",
                   "fixed_asset_gross", "trade_payable", "statutory_payable", "debt_term", "share_capital",
                   "unmapped" >>
           k == << "product_sales", "sales_returns", "trade_discount", "raw_material", "fulfilment", "direct_labour",
                   "power_fuel", "employee_cost", "marketing", "selling_distribution", "admin_general", "scheme_rebate",
                   "depreciation", "misc_income", "interest_debt", "tax_current", "commission_borne",
                   "commission_earned", "store_rent" >>
<1>1. SheetClasses \subseteq { h[i] : i \in 1 .. 12 }
  BY SheetGroups
<1>2. Taxonomy \ SheetClasses \subseteq { k[i] : i \in 1 .. 19 }
  BY DEF Taxonomy, PnlClasses, MANUFACTURING_PNL_LINES
<1>3. IsFiniteSet({ h[i] : i \in 1 .. 12 }) /\ IsFiniteSet({ k[i] : i \in 1 .. 19 })
  BY ListFinite
<1>4. IsFiniteSet(SheetClasses) /\ IsFiniteSet(Taxonomy \ SheetClasses)
  BY <1>1, <1>2, <1>3, FS_Subset
<1>5. IsFiniteSet(SheetClasses \cup (Taxonomy \ SheetClasses))
  BY <1>4, FS_Union
<1> QED
  BY <1>5, FS_Subset DEF Taxonomy

\* compute_balance_sheet: what the assets exceed the other side by is all
\* that the classes hold, and the computed retained earnings are what no
\* sheet line takes.
LEMMA SheetDifference ==
  ASSUME NEW t, Totals(t)
  PROVE  /\ Sheet(t).retained = - Of(t, DOMAIN t \ SheetClasses)
         /\ Sheet(t).assets \in Int /\ Sheet(t).owed \in Int
         /\ Sheet(t).assets - Sheet(t).owed = Of(t, SheetClasses \cup DOMAIN t)
         /\ Sheet(t).balances <=> Sheet(t).assets = Sheet(t).owed
<1> DEFINE signed == [c \in SheetClasses |-> At(t, c) * BALANCE_SHEET_LINES[c].sign]
           G(g) == GroupClasses(g)
           assets == SumFunctionOnSet(signed, G("current_assets")) + SumFunctionOnSet(signed, G("non_current_assets"))
           owed == SumFunctionOnSet(signed, G("current_liabilities")) + SumFunctionOnSet(signed, G("non_current_liabilities"))
                   + SumFunctionOnSet(signed, G("equity")) + (- Of(t, DOMAIN t \ SheetClasses))
                   + SumFunctionOnSet(signed, G("unclassified"))
<1>1. Sheet(t) = [ assets |-> assets, owed |-> owed, retained |-> - Of(t, DOMAIN t \ SheetClasses),
                   balances |-> assets = owed ]
  BY DEF Sheet, GroupClasses
<1>2. IsFiniteSet(SheetClasses) /\ \A g : G(g) \subseteq SheetClasses /\ IsFiniteSet(G(g))
  BY TaxonomyFinite, FS_Subset DEF GroupClasses
<1>3. ASSUME NEW g PROVE Of(t, G(g)) = SumFunctionOnSet([c \in SheetClasses |-> At(t, c)], G(g)) /\ Of(t, G(g)) \in Int
  BY <1>2, OfAsSum
<1>4. ASSUME NEW g \in {"current_assets", "non_current_assets"} PROVE SumFunctionOnSet(signed, G(g)) = Of(t, G(g))
  <2> DEFINE f == [c \in SheetClasses |-> At(t, c)]
             S == G(g)
  <2>1. ASSUME NEW c \in S PROVE f[c] \in Int /\ signed[c] = f[c]
    <3>1. c \in SheetClasses /\ BALANCE_SHEET_LINES[c].sign = 1
      BY SheetGroups DEF GroupClasses
    <3> QED
      BY <3>1, AtInt
  <2> HIDE DEF f, signed, S
  <2>2. SumFunctionOnSet(signed, S) = SumFunctionOnSet(f, S)
    BY <1>2, <2>1, SumSame DEF S
  <2> QED
    BY <1>3, <2>2 DEF f, S
<1>5. ASSUME NEW g \in {"current_liabilities", "non_current_liabilities", "equity", "unclassified"}
      PROVE  SumFunctionOnSet(signed, G(g)) = - Of(t, G(g))
  <2> DEFINE f == [c \in SheetClasses |-> At(t, c)]
             S == G(g)
  <2>1. ASSUME NEW c \in S PROVE f[c] \in Int /\ signed[c] = - f[c]
    <3>1. c \in SheetClasses /\ BALANCE_SHEET_LINES[c].sign = -1
      BY SheetGroups DEF GroupClasses
    <3> QED
      BY <3>1, AtInt
  <2> HIDE DEF f, signed, S
  <2>2. SumFunctionOnSet(signed, S) = - SumFunctionOnSet(f, S)
    BY <1>2, <2>1, SumOpposite DEF S
  <2> QED
    BY <1>3, <2>2 DEF f, S
<1> DEFINE U1 == G("current_assets") \cup G("non_current_assets")
           U2 == U1 \cup G("current_liabilities")
           U3 == U2 \cup G("non_current_liabilities")
           U4 == U3 \cup G("equity")
           U5 == U4 \cup G("unclassified")
           R == DOMAIN t \ SheetClasses
<1>6. /\ G("current_assets") \cap G("non_current_assets") = {} /\ U1 \cap G("current_liabilities") = {}
      /\ U2 \cap G("non_current_liabilities") = {} /\ U3 \cap G("equity") = {} /\ U4 \cap G("unclassified") = {}
      /\ U5 = SheetClasses
  BY SheetGroups DEF GroupClasses
<1>7. IsFiniteSet(R)
  BY FS_Subset DEF Totals
<1> HIDE DEF G, assets, owed, signed, R
<1>8. IsFiniteSet(U1) /\ IsFiniteSet(U2) /\ IsFiniteSet(U3) /\ IsFiniteSet(U4)
  BY <1>2, FS_Union
<1>9. /\ Of(t, U1) = Of(t, G("current_assets")) + Of(t, G("non_current_assets"))
      /\ Of(t, U2) = Of(t, U1) + Of(t, G("current_liabilities"))
      /\ Of(t, U3) = Of(t, U2) + Of(t, G("non_current_liabilities"))
      /\ Of(t, U4) = Of(t, U3) + Of(t, G("equity"))
      /\ Of(t, U5) = Of(t, U4) + Of(t, G("unclassified"))
  <2> HIDE DEF U1, U2, U3, U4, U5
  <2> QED
    BY <1>2, <1>6, <1>8, OfUnion DEF U1, U2, U3, U4, U5
<1>10. Of(t, R) \in Int
  BY <1>7, OfAsSum
<1>11. Of(t, SheetClasses \cup R) = Of(t, SheetClasses) + Of(t, R)
  BY <1>2, <1>7, OfUnion DEF R
<1>12. SheetClasses \cup R = SheetClasses \cup DOMAIN t
  BY DEF R
<1>13. Of(t, U5) = Of(t, SheetClasses) /\ Of(t, SheetClasses \cup R) = Of(t, SheetClasses \cup DOMAIN t)
  <2> HIDE DEF U1, U2, U3, U4, U5
  <2> QED
    BY <1>6, <1>12
<1> HIDE DEF U1, U2, U3, U4, U5
<1>14. /\ SumFunctionOnSet(signed, G("current_assets")) = Of(t, G("current_assets"))
       /\ SumFunctionOnSet(signed, G("non_current_assets")) = Of(t, G("non_current_assets"))
       /\ SumFunctionOnSet(signed, G("current_liabilities")) = - Of(t, G("current_liabilities"))
       /\ SumFunctionOnSet(signed, G("non_current_liabilities")) = - Of(t, G("non_current_liabilities"))
       /\ SumFunctionOnSet(signed, G("equity")) = - Of(t, G("equity"))
       /\ SumFunctionOnSet(signed, G("unclassified")) = - Of(t, G("unclassified"))
  BY <1>4, <1>5
<1>15. /\ Of(t, G("current_assets")) \in Int /\ Of(t, G("non_current_assets")) \in Int
       /\ Of(t, G("current_liabilities")) \in Int /\ Of(t, G("non_current_liabilities")) \in Int
       /\ Of(t, G("equity")) \in Int /\ Of(t, G("unclassified")) \in Int
  BY <1>3
<1>16. Of(t, R) = Of(t, DOMAIN t \ SheetClasses)
  BY DEF R
<1>17. assets \in Int /\ owed \in Int /\ assets - owed = Of(t, U5) + Of(t, R)
  BY <1>9, <1>10, <1>14, <1>15, <1>16 DEF assets, owed
<1>18. assets - owed = Of(t, SheetClasses \cup DOMAIN t)
  BY <1>11, <1>13, <1>17
<1>19. /\ Sheet(t).retained = - Of(t, DOMAIN t \ SheetClasses)
       /\ Sheet(t).assets = assets /\ Sheet(t).owed = owed
  BY <1>1
<1>20. Sheet(t).balances = (assets = owed)
  BY <1>1
<1>21. Sheet(t).balances <=> assets = owed
  BY <1>20, Zenon
<1> HIDE DEF assets, owed
<1> QED
  BY <1>17, <1>18, <1>19, <1>21

\* The classes of the totals are those the rows give.
LEMMA ClassesRead ==
  ASSUME NEW E, NEW rows, NEW from, NEW to
  PROVE  /\ \A e \in Window(E, from, to) : \A a \in DOMAIN e.lines \cap DOMAIN rows :
              rows[a] \in DOMAIN ClassTotals(E, rows, from, to)
         /\ \A c \in DOMAIN ClassTotals(E, rows, from, to) : \E a \in DOMAIN rows : c = rows[a]
BY DEF ClassTotals, Window

\* What an entry posts to accounts that the rows do not have.
LeftOutOf(e, rows) == SumFunctionOnSet(e.lines, DOMAIN e.lines \ DOMAIN rows)

\* A balance sheet over entries that tie: it balances exactly when what they
\* post to accounts without a row nets to zero.
THEOREM SheetOfTiedEntries ==
  ASSUME NEW E, Entries(E), \A e \in E : SumFunction(e.lines) = 0,
         NEW rows, NEW from \in Int, NEW to \in Int
  PROVE  Sheet(ClassTotals(E, rows, from, to)).balances
           <=> SumFunction([e \in Window(E, from, to) |-> LeftOutOf(e, rows)]) = 0
<1> DEFINE t == ClassTotals(E, rows, from, to)
           C == SheetClasses \cup DOMAIN t
           W == Window(E, from, to)
           placed == [e \in W |-> Placed(e, rows, C)]
           over == [e \in W |-> LeftOutOf(e, rows)]
<1>1. \A D, p : IsFiniteSet(D) /\ (\A e \in W : p[e] = Placed(e, rows, D)) =>
               Of(t, D) = SumFunctionOnSet(p, W) /\ Totals(t)
  BY ClassTotalsAddUp
<1>2. Totals(t)
  <2> DEFINE p == [e \in W |-> Placed(e, rows, {})]
  <2>1. IsFiniteSet({}) /\ \A e \in W : p[e] = Placed(e, rows, {})
    BY FS_EmptySet
  <2> QED
    BY <1>1, <2>1
<1>3. IsFiniteSet(C)
  BY <1>2, TaxonomyFinite, FS_Subset, FS_Union DEF Totals
<1>4. Of(t, C) = SumFunctionOnSet(placed, W)
  <2>1. \A e \in W : placed[e] = Placed(e, rows, C)
    OBVIOUS
  <2> HIDE DEF placed, C, W, t
  <2> QED
    BY <1>1, <1>3, <2>1
<1>5. IsFiniteSet(W) /\ \A e \in W : e \in E
  BY FS_Subset DEF Window, Entries
<1>6. ASSUME NEW e \in W PROVE over[e] \in Int /\ placed[e] = - over[e]
  <2> DEFINE lines == e.lines
             P == PlacedIn(e, rows, C)
             Q == DOMAIN lines \ DOMAIN rows
  <2>1. IsFiniteSet(DOMAIN lines) /\ (\A a \in DOMAIN lines : lines[a] \in Int)
        /\ SumFunctionOnSet(lines, DOMAIN lines) = 0
    BY <1>5 DEF Entries, SumFunction
  <2>2. P \cup Q = DOMAIN lines /\ P \cap Q = {}
    BY ClassesRead DEF PlacedIn
  <2>3. placed[e] = SumFunctionOnSet(lines, P) /\ over[e] = SumFunctionOnSet(lines, Q)
    BY DEF Placed, LeftOutOf
  <2> HIDE DEF lines, P, Q
  <2>4. IsFiniteSet(P) /\ IsFiniteSet(Q) /\ P \subseteq DOMAIN lines /\ Q \subseteq DOMAIN lines
    BY <2>1, <2>2, FS_Subset
  <2>5. \A a \in P \cup Q : lines[a] \in Int
    BY <2>1, <2>4
  <2>6. SumFunctionOnSet(lines, P \cup Q) = SumFunctionOnSet(lines, P) + SumFunctionOnSet(lines, Q)
    BY <2>2, <2>4, <2>5, SumUnion
  <2>7. SumFunctionOnSet(lines, P) \in Int /\ SumFunctionOnSet(lines, Q) \in Int
    BY <2>4, <2>5, SumInt
  <2>8. SumFunctionOnSet(lines, P \cup Q) = 0
    BY <2>1, <2>2
  <2> HIDE DEF placed, over
  <2> QED
    BY <2>3, <2>6, <2>7, <2>8
<1>7. SumFunction(over) = SumFunctionOnSet(over, W)
  BY DEF SumFunction
<1> HIDE DEF placed, over, C, W, t
<1>8. SumFunctionOnSet(placed, W) = - SumFunctionOnSet(over, W) /\ SumFunctionOnSet(over, W) \in Int
  BY <1>5, <1>6, SumOpposite, SumInt
<1>9. /\ Sheet(t).assets \in Int /\ Sheet(t).owed \in Int
      /\ Sheet(t).assets - Sheet(t).owed = Of(t, C)
      /\ Sheet(t).balances <=> Sheet(t).assets = Sheet(t).owed
  BY <1>2, SheetDifference DEF C
<1>10. Sheet(t).balances <=> SumFunction(over) = 0
  BY <1>4, <1>7, <1>8, <1>9
<1> QED
  BY <1>10 DEF t, over, W

-----------------------------------------------------------------------------
(* Profit and loss, and the metric.                                        *)

\* Five lists of classes without a class in common.
Apart(A, B, C, D, F) ==
  /\ A \subseteq Taxonomy /\ B \subseteq Taxonomy /\ C \subseteq Taxonomy /\ D \subseteq Taxonomy /\ F \subseteq Taxonomy
  /\ A \cap B = {} /\ (A \cup B) \cap C = {} /\ (A \cup B \cup C) \cap D = {} /\ (A \cup B \cup C \cup D) \cap F = {}

LEMMA OfFive ==
  ASSUME NEW t, Totals(t), NEW A, NEW B, NEW C, NEW D, NEW F, Apart(A, B, C, D, F)
  PROVE  /\ Of(t, A) \in Int /\ Of(t, B) \in Int /\ Of(t, C) \in Int /\ Of(t, D) \in Int /\ Of(t, F) \in Int
         /\ Of(t, A \cup B \cup C \cup D \cup F) = Of(t, A) + Of(t, B) + Of(t, C) + Of(t, D) + Of(t, F)
<1> DEFINE U2 == A \cup B
           U3 == U2 \cup C
           U4 == U3 \cup D
           U5 == U4 \cup F
<1> USE DEF Apart
<1>1. /\ IsFiniteSet(A) /\ IsFiniteSet(B) /\ IsFiniteSet(C) /\ IsFiniteSet(D) /\ IsFiniteSet(F)
      /\ IsFiniteSet(U2) /\ IsFiniteSet(U3) /\ IsFiniteSet(U4)
  BY TaxonomyFinite, FS_Subset, FS_Union
<1>2. Of(t, A) \in Int /\ Of(t, B) \in Int /\ Of(t, C) \in Int /\ Of(t, D) \in Int /\ Of(t, F) \in Int
  BY <1>1, OfAsSum
<1> HIDE DEF U2, U3, U4
<1>3. Of(t, U2) = Of(t, A) + Of(t, B)
  BY <1>1, OfUnion DEF U2
<1>4. Of(t, U3) = Of(t, U2) + Of(t, C)
  BY <1>1, OfUnion DEF U2, U3
<1>5. Of(t, U4) = Of(t, U3) + Of(t, D)
  BY <1>1, OfUnion DEF U2, U3, U4
<1>6. Of(t, U5) = Of(t, U4) + Of(t, F)
  BY <1>1, OfUnion DEF U2, U3, U4
<1>7. Of(t, U5) = Of(t, A) + Of(t, B) + Of(t, C) + Of(t, D) + Of(t, F)
  BY <1>2, <1>3, <1>4, <1>5, <1>6
<1> QED
  BY <1>2, <1>7 DEF U2, U3, U4

\* The classes above EBITDA and those above the bottom line, by profile.
AboveEbitda(profile) ==
  IF profile = "manufacturing"
  THEN PnlClasses \ {"depreciation", "misc_income", "interest_debt", "tax_current"}
  ELSE UNION { CONSUMER_LADDER[k] : k \in DOMAIN CONSUMER_LADDER \ {"gst"} }
AboveBottom(profile) == IF profile = "manufacturing" THEN PnlClasses ELSE AboveEbitda(profile)
MetricClasses == UNION { METRIC_LEAVES[l] : l \in DOMAIN METRIC_LEAVES }

LEMMA MetricEbitdaIs ==
  ASSUME NEW t, Totals(t)
  PROVE  MetricEbitda(t) = - Of(t, MetricClasses) /\ MetricEbitda(t) \in Int
<1> DEFINE L(l) == METRIC_LEAVES[l]
           A == L("gross_revenue")
           B == L("returns")
           C == L("discounts")
           D == L("cogs")
           F == L("opex")
<1>1. Apart(A, B, C, D, F)
  BY DEF Apart, METRIC_LEAVES, Taxonomy, PnlClasses, MANUFACTURING_PNL_LINES
<1>2. MetricClasses = A \cup B \cup C \cup D \cup F
  BY DEF MetricClasses, METRIC_LEAVES
<1>3. MetricEbitda(t) = - Of(t, A) - Of(t, B) - Of(t, C) - Of(t, D) - Of(t, F)
  BY DEF MetricEbitda
<1> HIDE DEF A, B, C, D, F
<1>4. /\ Of(t, A) \in Int /\ Of(t, B) \in Int /\ Of(t, C) \in Int /\ Of(t, D) \in Int /\ Of(t, F) \in Int
      /\ Of(t, A \cup B \cup C \cup D \cup F) = Of(t, A) + Of(t, B) + Of(t, C) + Of(t, D) + Of(t, F)
  BY <1>1, OfFive
<1>5. Of(t, MetricClasses) = Of(t, A \cup B \cup C \cup D \cup F)
  BY <1>2
<1> QED
  BY <1>3, <1>4, <1>5

LEMMA ConsumerIs ==
  ASSUME NEW t, Totals(t)
  PROVE  /\ ConsumerLadder(t).ebitda = - Of(t, AboveEbitda("consumer"))
         /\ ConsumerLadder(t).bottom = ConsumerLadder(t).ebitda
         /\ ConsumerLadder(t).ebitda \in Int
<1> DEFINE L(l) == CONSUMER_LADDER[l]
           A == L("revenue")
           B == L("discount")
           C == L("cogs")
           D == L("operating")
           F == L("marketing")
           U == A \cup B \cup C \cup D \cup F
           G == L("overhead")
<1>1. Apart(A, B, C, D, F) /\ U \subseteq Taxonomy /\ G \subseteq Taxonomy /\ U \cap G = {}
  BY DEF Apart, CONSUMER_LADDER, Taxonomy, PnlClasses, SheetClasses, MANUFACTURING_PNL_LINES
<1>2. AboveEbitda("consumer") = U \cup G
  BY DEF AboveEbitda, CONSUMER_LADDER
<1>3. /\ ConsumerLadder(t).ebitda = REVENUE_SIGN * Of(t, A) - Of(t, B) - Of(t, C) - Of(t, D) - Of(t, F) - Of(t, G)
      /\ ConsumerLadder(t).bottom = ConsumerLadder(t).ebitda
  BY DEF ConsumerLadder
<1> HIDE DEF A, B, C, D, F, G
<1>4. /\ Of(t, A) \in Int /\ Of(t, B) \in Int /\ Of(t, C) \in Int /\ Of(t, D) \in Int /\ Of(t, F) \in Int
      /\ Of(t, U) = Of(t, A) + Of(t, B) + Of(t, C) + Of(t, D) + Of(t, F)
  BY <1>1, OfFive
<1>5. IsFiniteSet(U) /\ IsFiniteSet(G)
  BY <1>1, TaxonomyFinite, FS_Subset
<1> HIDE DEF U
<1>6. Of(t, U \cup G) = Of(t, U) + Of(t, G) /\ Of(t, G) \in Int
  BY <1>1, <1>5, OfUnion, OfAsSum
<1>7. Of(t, AboveEbitda("consumer")) = Of(t, U \cup G)
  BY <1>2
<1> QED
  BY <1>3, <1>4, <1>6, <1>7 DEF REVENUE_SIGN

\* The layout, a class at a time.
LaidOut(c, line, sign) ==
  c \in PnlClasses /\ MANUFACTURING_PNL_LINES[c].line = line /\ MANUFACTURING_PNL_LINES[c].sign = sign

LEMMA Layout ==
  /\ PnlClasses = {"product_sales", "sales_returns", "trade_discount", "raw_material", "fulfilment", "direct_labour",
                   "power_fuel", "employee_cost", "marketing", "selling_distribution", "admin_general",
                   "scheme_rebate", "depreciation", "misc_income", "interest_debt", "tax_current"}
  /\ LaidOut("product_sales", "Gross revenue", -1) /\ LaidOut("sales_returns", "Returns", 1)
  /\ LaidOut("trade_discount", "Discounts", 1) /\ LaidOut("raw_material", "Raw material", 1)
  /\ LaidOut("fulfilment", "Other direct cost", 1) /\ LaidOut("direct_labour", "Direct labour", 1)
  /\ LaidOut("power_fuel", "Power and fuel", 1) /\ LaidOut("employee_cost", "Employee cost", 1)
  /\ LaidOut("marketing", "Marketing", 1) /\ LaidOut("selling_distribution", "Selling and distribution", 1)
  /\ LaidOut("admin_general", "Administration", 1) /\ LaidOut("scheme_rebate", "Other", 1)
  /\ LaidOut("depreciation", "Depreciation", 1) /\ LaidOut("misc_income", "Other income", -1)
  /\ LaidOut("interest_debt", "Finance cost", 1) /\ LaidOut("tax_current", "Tax", 1)
<1> USE DEF PnlClasses, MANUFACTURING_PNL_LINES, REVENUE_SIGN, COST_SIGN, LaidOut
<1>1. PnlClasses = {"product_sales", "sales_returns", "trade_discount", "raw_material", "fulfilment", "direct_labour",
                   "power_fuel", "employee_cost", "marketing", "selling_distribution", "admin_general",
                   "scheme_rebate", "depreciation", "misc_income", "interest_debt", "tax_current"}
  OBVIOUS
<1>2. /\ LaidOut("product_sales", "Gross revenue", -1) /\ LaidOut("sales_returns", "Returns", 1)
      /\ LaidOut("trade_discount", "Discounts", 1) /\ LaidOut("raw_material", "Raw material", 1)
  OBVIOUS
<1>3. /\ LaidOut("fulfilment", "Other direct cost", 1) /\ LaidOut("direct_labour", "Direct labour", 1)
      /\ LaidOut("power_fuel", "Power and fuel", 1) /\ LaidOut("employee_cost", "Employee cost", 1)
  OBVIOUS
<1>4. /\ LaidOut("marketing", "Marketing", 1) /\ LaidOut("selling_distribution", "Selling and distribution", 1)
      /\ LaidOut("admin_general", "Administration", 1) /\ LaidOut("scheme_rebate", "Other", 1)
  OBVIOUS
<1>5. /\ LaidOut("depreciation", "Depreciation", 1) /\ LaidOut("misc_income", "Other income", -1)
      /\ LaidOut("interest_debt", "Finance cost", 1) /\ LaidOut("tax_current", "Tax", 1)
  OBVIOUS
<1> HIDE DEF LaidOut, PnlClasses
<1> QED
  BY <1>1, <1>2, <1>3, <1>4, <1>5

LEMMA LineClasses ==
  LET on(l) == { c \in PnlClasses : MANUFACTURING_PNL_LINES[c].line = l }
  IN  /\ on("Gross revenue") = {"product_sales"} /\ on("Returns") = {"sales_returns"}
      /\ on("Discounts") = {"trade_discount"} /\ on("Other income") = {"misc_income"}
      /\ on("Finance cost") = {"interest_debt"} /\ on("Tax") = {"tax_current"}
<1> DEFINE line == [c \in PnlClasses |-> MANUFACTURING_PNL_LINES[c].line]
           on(l) == { c \in PnlClasses : line[c] = l }
<1>1. /\ line["product_sales"] = "Gross revenue" /\ line["sales_returns"] = "Returns"
      /\ line["trade_discount"] = "Discounts" /\ line["raw_material"] = "Raw material"
      /\ line["fulfilment"] = "Other direct cost" /\ line["direct_labour"] = "Direct labour"
      /\ line["power_fuel"] = "Power and fuel" /\ line["employee_cost"] = "Employee cost"
      /\ line["marketing"] = "Marketing" /\ line["selling_distribution"] = "Selling and distribution"
      /\ line["admin_general"] = "Administration" /\ line["scheme_rebate"] = "Other"
      /\ line["depreciation"] = "Depreciation" /\ line["misc_income"] = "Other income"
      /\ line["interest_debt"] = "Finance cost" /\ line["tax_current"] = "Tax"
  BY Layout DEF LaidOut
<1>2. \A l : on(l) = { c \in PnlClasses : MANUFACTURING_PNL_LINES[c].line = l }
  OBVIOUS
<1> HIDE DEF line
<1>3. /\ on("Gross revenue") = {"product_sales"} /\ on("Returns") = {"sales_returns"}
      /\ on("Discounts") = {"trade_discount"}
  BY <1>1, Layout
<1>4. /\ on("Other income") = {"misc_income"}
      /\ on("Finance cost") = {"interest_debt"} /\ on("Tax") = {"tax_current"}
  BY <1>1, Layout
<1> HIDE DEF on
<1> QED
  BY <1>2, <1>3, <1>4

\* The classes of a section's lines, all of them costs.
SectionClasses(s) == { c \in PnlClasses : MANUFACTURING_PNL_LINES[c].line \in MANUFACTURING_SECTIONS[s] }

LEMMA SectionLines ==
  /\ DOMAIN MANUFACTURING_SECTIONS = {"cogs", "opex", "below_ebitda"}
  /\ MANUFACTURING_SECTIONS["cogs"] = {"Raw material", "Other direct cost"}
  /\ MANUFACTURING_SECTIONS["opex"] = {"Direct labour", "Power and fuel", "Employee cost", "Marketing",
                                       "Selling and distribution", "Administration", "Other"}
  /\ MANUFACTURING_SECTIONS["below_ebitda"] = {"Depreciation"}
BY DEF MANUFACTURING_SECTIONS

LEMMA SectionClassesAre ==
  /\ SectionClasses("cogs") = {"raw_material", "fulfilment"}
  /\ SectionClasses("opex") = {"direct_labour", "power_fuel", "employee_cost", "marketing",
                               "selling_distribution", "admin_general", "scheme_rebate"}
  /\ SectionClasses("below_ebitda") = {"depreciation"}
  /\ \A s \in DOMAIN MANUFACTURING_SECTIONS : \A c \in SectionClasses(s) : MANUFACTURING_PNL_LINES[c].sign = 1
<1> DEFINE in(s) == { c \in PnlClasses : MANUFACTURING_PNL_LINES[c].line \in MANUFACTURING_SECTIONS[s] }
<1>1. in("cogs") = {"raw_material", "fulfilment"}
  BY Layout, SectionLines, ZenonT(40) DEF LaidOut
<1>2. in("opex") = {"direct_labour", "power_fuel", "employee_cost", "marketing",
                    "selling_distribution", "admin_general", "scheme_rebate"}
  <2> DEFINE opex == {"direct_labour", "power_fuel", "employee_cost", "marketing",
                      "selling_distribution", "admin_general", "scheme_rebate"}
             line(c) == MANUFACTURING_PNL_LINES[c].line
  <2>1. /\ line("product_sales") = "Gross revenue" /\ line("sales_returns") = "Returns"
        /\ line("trade_discount") = "Discounts" /\ line("raw_material") = "Raw material"
        /\ line("fulfilment") = "Other direct cost" /\ line("depreciation") = "Depreciation"
        /\ line("misc_income") = "Other income" /\ line("interest_debt") = "Finance cost" /\ line("tax_current") = "Tax"
    BY Layout DEF LaidOut
  <2>2. /\ line("direct_labour") = "Direct labour" /\ line("power_fuel") = "Power and fuel"
        /\ line("employee_cost") = "Employee cost" /\ line("marketing") = "Marketing"
        /\ line("selling_distribution") = "Selling and distribution" /\ line("admin_general") = "Administration"
        /\ line("scheme_rebate") = "Other"
    BY Layout DEF LaidOut
  <2>3. \A c \in PnlClasses : c \in opex \/ c \in {"product_sales", "sales_returns", "trade_discount", "raw_material",
                            "fulfilment", "depreciation", "misc_income", "interest_debt", "tax_current"}
    BY Layout
  <2>4. opex \subseteq PnlClasses
    BY Layout
  <2> HIDE DEF line
  <2>5. \A c \in opex : line(c) \in MANUFACTURING_SECTIONS["opex"]
    BY <2>2, SectionLines
  <2>6. \A c \in {"product_sales", "sales_returns", "trade_discount", "raw_material", "fulfilment", "depreciation",
                  "misc_income", "interest_debt", "tax_current"} : line(c) \notin MANUFACTURING_SECTIONS["opex"]
    BY <2>1, SectionLines
  <2> HIDE DEF opex
  <2>7. in("opex") = opex
    BY <2>3, <2>4, <2>5, <2>6 DEF line
  <2> QED
    BY <2>7 DEF opex
<1>3. in("below_ebitda") = {"depreciation"}
  BY Layout, SectionLines, ZenonT(40) DEF LaidOut
<1>5. \A s : SectionClasses(s) = in(s)
  BY DEF SectionClasses
<1> HIDE DEF in
<1>4. \A c \in in("cogs") \cup in("opex") \cup in("below_ebitda") :
         c \in PnlClasses /\ c # "product_sales" /\ c # "misc_income"
  BY <1>1, <1>2, <1>3, Layout
<1>7. \A c \in PnlClasses : c # "product_sales" /\ c # "misc_income" => MANUFACTURING_PNL_LINES[c].sign = 1
  BY Layout, ZenonT(40) DEF LaidOut
<1>6. \A s \in DOMAIN MANUFACTURING_SECTIONS : s = "cogs" \/ s = "opex" \/ s = "below_ebitda"
  BY SectionLines
<1> QED
  BY <1>1, <1>2, <1>3, <1>4, <1>5, <1>6, <1>7

LEMMA PnlSigns ==
  /\ \A c \in PnlClasses : MANUFACTURING_PNL_LINES[c].sign \in {1, -1}
  /\ \A c \in {"product_sales", "misc_income"} : c \in PnlClasses /\ MANUFACTURING_PNL_LINES[c].sign = -1
  /\ \A c \in {"sales_returns", "trade_discount", "interest_debt", "tax_current"} :
       c \in PnlClasses /\ MANUFACTURING_PNL_LINES[c].sign = 1
BY Layout, ZenonT(40) DEF LaidOut

LEMMA SectionFinite ==
  ASSUME NEW s \in DOMAIN MANUFACTURING_SECTIONS
  PROVE  IsFiniteSet(MANUFACTURING_SECTIONS[s])
<1> DEFINE line == [c \in PnlClasses |-> MANUFACTURING_PNL_LINES[c].line]
           shown == { line[c] : c \in PnlClasses }
<1>1. IsFiniteSet(PnlClasses)
  BY TaxonomyFinite, FS_Subset
<1>2. IsFiniteSet(shown)
  BY <1>1, ImageFinite
<1>8. \A c \in PnlClasses : line[c] \in shown
  OBVIOUS
<1>3. s = "cogs" \/ s = "opex" \/ s = "below_ebitda"
  BY SectionLines
<1>4. /\ line["raw_material"] = "Raw material" /\ line["fulfilment"] = "Other direct cost"
      /\ line["direct_labour"] = "Direct labour" /\ line["power_fuel"] = "Power and fuel"
      /\ line["employee_cost"] = "Employee cost" /\ line["marketing"] = "Marketing"
      /\ line["selling_distribution"] = "Selling and distribution" /\ line["admin_general"] = "Administration"
      /\ line["scheme_rebate"] = "Other" /\ line["depreciation"] = "Depreciation"
  BY Layout DEF LaidOut
<1>5. /\ "raw_material" \in PnlClasses /\ "fulfilment" \in PnlClasses /\ "direct_labour" \in PnlClasses
      /\ "power_fuel" \in PnlClasses /\ "employee_cost" \in PnlClasses /\ "marketing" \in PnlClasses
      /\ "selling_distribution" \in PnlClasses /\ "admin_general" \in PnlClasses
      /\ "scheme_rebate" \in PnlClasses /\ "depreciation" \in PnlClasses
  BY Layout
<1> HIDE DEF line, shown
<1>9. /\ "Raw material" \in shown /\ "Other direct cost" \in shown /\ "Direct labour" \in shown
      /\ "Power and fuel" \in shown /\ "Employee cost" \in shown /\ "Marketing" \in shown
      /\ "Selling and distribution" \in shown /\ "Administration" \in shown /\ "Other" \in shown
      /\ "Depreciation" \in shown
  <2>1. /\ line["raw_material"] \in shown /\ line["fulfilment"] \in shown /\ line["direct_labour"] \in shown
        /\ line["power_fuel"] \in shown /\ line["employee_cost"] \in shown /\ line["marketing"] \in shown
        /\ line["selling_distribution"] \in shown /\ line["admin_general"] \in shown
        /\ line["scheme_rebate"] \in shown /\ line["depreciation"] \in shown
    BY <1>5, <1>8
  <2> QED
    BY <1>4, <2>1
<1>6. MANUFACTURING_SECTIONS["cogs"] \subseteq shown /\ MANUFACTURING_SECTIONS["below_ebitda"] \subseteq shown
  BY <1>9, SectionLines
<1>7. MANUFACTURING_SECTIONS["opex"] \subseteq shown
  BY <1>9, SectionLines
<1> QED
  BY <1>2, <1>3, <1>6, <1>7, FS_Subset

\* compute_manufacturing_pnl: every line of the layout, to a sign.
LEMMA ManufacturingIs ==
  ASSUME NEW t, Totals(t)
  PROVE  /\ ManufacturingPnl(t).ebitda = - Of(t, AboveEbitda("manufacturing"))
         /\ ManufacturingPnl(t).bottom = - Of(t, PnlClasses)
         /\ ManufacturingPnl(t).ebitda \in Int
<1> DEFINE signed == [c \in PnlClasses |-> At(t, c) * MANUFACTURING_PNL_LINES[c].sign]
           key == [c \in PnlClasses |-> MANUFACTURING_PNL_LINES[c].line]
           line(l) == SumFunctionOnSet(signed, { c \in PnlClasses : MANUFACTURING_PNL_LINES[c].line = l })
           section(s) == SumFunction([l \in MANUFACTURING_SECTIONS[s] |-> line(l)])
           gross == line("Gross revenue")
           returns == line("Returns")
           discounts == line("Discounts")
           income == line("Other income")
           finance == line("Finance cost")
           tax == line("Tax")
           cogs == section("cogs")
           opex == section("opex")
           below == section("below_ebitda")
           net == gross - returns - discounts
           ebitda == net - cogs - opex
           pbt == ebitda - below + income - finance
           bottom == pbt - tax
<1>1. ManufacturingPnl(t).ebitda = ebitda /\ ManufacturingPnl(t).bottom = bottom
  BY DEF ManufacturingPnl
<1>2. IsFiniteSet(PnlClasses)
  BY TaxonomyFinite, FS_Subset
<1>3. ASSUME NEW c \in PnlClasses PROVE signed[c] \in Int
  <2>1. MANUFACTURING_PNL_LINES[c].sign \in {1, -1}
    BY PnlSigns
  <2> QED
    BY <2>1, AtInt
<1>4. /\ signed["product_sales"] = - At(t, "product_sales") /\ signed["misc_income"] = - At(t, "misc_income")
      /\ signed["sales_returns"] = At(t, "sales_returns") /\ signed["trade_discount"] = At(t, "trade_discount")
      /\ signed["interest_debt"] = At(t, "interest_debt") /\ signed["tax_current"] = At(t, "tax_current")
  <2>1. \A c \in {"product_sales", "misc_income"} : c \in PnlClasses /\ signed[c] = - At(t, c)
    BY PnlSigns, AtInt
  <2>2. \A c \in {"sales_returns", "trade_discount", "interest_debt", "tax_current"} : c \in PnlClasses /\ signed[c] = At(t, c)
    BY PnlSigns, AtInt
  <2> HIDE DEF signed
  <2> QED
    BY <2>1, <2>2
<1>5. /\ "product_sales" \in PnlClasses /\ "misc_income" \in PnlClasses /\ "sales_returns" \in PnlClasses
      /\ "trade_discount" \in PnlClasses /\ "interest_debt" \in PnlClasses /\ "tax_current" \in PnlClasses
  BY PnlSigns
<1>6. ASSUME NEW s \in DOMAIN MANUFACTURING_SECTIONS
      PROVE  section(s) = Of(t, SectionClasses(s)) /\ Of(t, SectionClasses(s)) \in Int
  <2> DEFINE lines == MANUFACTURING_SECTIONS[s]
             h == [l \in lines |-> line(l)]
             S == SectionClasses(s)
  <2>1. section(s) = SumFunctionOnSet(h, lines)
    BY DEF SumFunction
  <2>2. Group(PnlClasses, key, lines) = S
    BY DEF Group, SectionClasses
  <2>3. ASSUME NEW l \in lines PROVE h[l] = SumFunctionOnSet(signed, Group(PnlClasses, key, {l}))
    <3>1. { c \in PnlClasses : MANUFACTURING_PNL_LINES[c].line = l } = Group(PnlClasses, key, {l})
      BY DEF Group
    <3> QED
      BY <3>1
  <2>4. IsFiniteSet(lines)
    BY SectionFinite
  <2>5. S \subseteq PnlClasses /\ IsFiniteSet(S)
    BY <1>2, FS_Subset DEF SectionClasses
  <2> DEFINE f == [c \in PnlClasses |-> At(t, c)]
  <2>6. Of(t, S) = SumFunctionOnSet(f, S) /\ Of(t, S) \in Int
    BY <2>5, OfAsSum
  <2>7. \A c \in S : f[c] \in Int /\ signed[c] = f[c]
    <3> TAKE c \in S
    <3>1. c \in PnlClasses /\ MANUFACTURING_PNL_LINES[c].sign = 1
      BY <2>5, SectionClassesAre
    <3> QED
      BY <3>1, AtInt
  <2> HIDE DEF f, h, S, lines, signed, key
  <2>8. SumsGroups(h, lines, signed, PnlClasses, key)
    BY <1>3, <2>3 DEF SumsGroups
  <2>9. SumFunctionOnSet(h, lines) = SumFunctionOnSet(signed, S)
    BY <1>2, <2>2, <2>4, <2>8, SumByGroup
  <2>10. SumFunctionOnSet(signed, S) = SumFunctionOnSet(f, S)
    BY <2>5, <2>7, SumSame
  <2> QED
    BY <2>1, <2>6, <2>9, <2>10 DEF S
<1> HIDE DEF section
<1>7. \A c \in PnlClasses : SumFunctionOnSet(signed, {c}) = signed[c]
  <2> HIDE DEF signed
  <2> QED
    BY <1>3, SumOne
<1>8. /\ gross = - At(t, "product_sales") /\ returns = At(t, "sales_returns")
      /\ discounts = At(t, "trade_discount") /\ income = - At(t, "misc_income")
      /\ finance = At(t, "interest_debt") /\ tax = At(t, "tax_current")
  <2> HIDE DEF signed
  <2> QED
    BY <1>4, <1>5, <1>7, LineClasses
<1>9. /\ cogs = Of(t, SectionClasses("cogs")) /\ opex = Of(t, SectionClasses("opex"))
      /\ below = Of(t, SectionClasses("below_ebitda"))
  BY <1>6 DEF MANUFACTURING_SECTIONS
<1> HIDE DEF line, signed, section, gross, returns, discounts, income, finance, tax, cogs, opex, below
<1> DEFINE A == {"product_sales"}
           B == {"sales_returns"}
           C == {"trade_discount"}
           D == SectionClasses("cogs")
           F == SectionClasses("opex")
           U == A \cup B \cup C \cup D \cup F
           P == {"depreciation"}
           Q == {"misc_income"}
           R == {"interest_debt"}
           T == {"tax_current"}
           V == U \cup P \cup Q \cup R \cup T
<1>10. Apart(A, B, C, D, F) /\ Apart(U, P, Q, R, T) /\ U = AboveEbitda("manufacturing") /\ V = PnlClasses
  BY SectionClassesAre, ZenonT(40) DEF Apart, AboveEbitda, PnlClasses, MANUFACTURING_PNL_LINES, Taxonomy
<1>11. /\ Of(t, A) = At(t, "product_sales") /\ Of(t, B) = At(t, "sales_returns") /\ Of(t, C) = At(t, "trade_discount")
       /\ Of(t, P) = At(t, "depreciation") /\ Of(t, Q) = At(t, "misc_income") /\ Of(t, R) = At(t, "interest_debt")
       /\ Of(t, T) = At(t, "tax_current")
  BY OfOne
<1>12. Of(t, SectionClasses("below_ebitda")) = Of(t, P)
  BY SectionClassesAre
<1> HIDE DEF A, B, C, D, F, P, Q, R, T
<1>13. /\ Of(t, A) \in Int /\ Of(t, B) \in Int /\ Of(t, C) \in Int /\ Of(t, D) \in Int /\ Of(t, F) \in Int
       /\ Of(t, U) = Of(t, A) + Of(t, B) + Of(t, C) + Of(t, D) + Of(t, F)
  BY <1>10, OfFive
<1> HIDE DEF U
<1>14. /\ Of(t, U) \in Int /\ Of(t, P) \in Int /\ Of(t, Q) \in Int /\ Of(t, R) \in Int /\ Of(t, T) \in Int
       /\ Of(t, V) = Of(t, U) + Of(t, P) + Of(t, Q) + Of(t, R) + Of(t, T)
  BY <1>10, OfFive
<1> HIDE DEF V
<1>15. ebitda = - Of(t, U)
  BY <1>8, <1>9, <1>11, <1>13 DEF D, F
<1>16. bottom = - Of(t, V)
  BY <1>8, <1>9, <1>11, <1>12, <1>14, <1>15
<1> QED
  BY <1>1, <1>10, <1>14, <1>15, <1>16

\* Either layout.
LEMMA PnlIs ==
  ASSUME NEW t, Totals(t), NEW profile
  PROVE  /\ Pnl(profile, t).ebitda = - Of(t, AboveEbitda(profile))
         /\ Pnl(profile, t).bottom = - Of(t, AboveBottom(profile))
<1>1. CASE profile = "manufacturing"
  BY <1>1, ManufacturingIs DEF Pnl, AboveBottom
<1>2. CASE profile # "manufacturing"
  BY <1>2, ConsumerIs DEF Pnl, AboveBottom, AboveEbitda
<1> QED
  BY <1>1, <1>2

\* The tile and the statement: nothing on the classes the two treat
\* differently, and they give one number.
THEOREM HeadlineAgrees ==
  ASSUME NEW t, Totals(t), NEW profile, \A c \in DifferentlyTreated(profile) : At(t, c) = 0
  PROVE  MetricEbitda(t) = Pnl(profile, t).ebitda
<1> DEFINE M == MetricClasses
           A == AboveEbitda(profile)
<1>1. DifferentlyTreated(profile) = (M \ A) \cup (A \ M)
  BY DEF DifferentlyTreated, MetricClasses, AboveEbitda
<1>2. IsFiniteSet(M) /\ IsFiniteSet(A)
  <2>1. M \subseteq Taxonomy
    BY DEF MetricClasses, METRIC_LEAVES, Taxonomy, PnlClasses, MANUFACTURING_PNL_LINES
  <2>2. A \subseteq Taxonomy
    BY DEF AboveEbitda, CONSUMER_LADDER, Taxonomy, PnlClasses, SheetClasses, MANUFACTURING_PNL_LINES
  <2> QED
    BY <2>1, <2>2, TaxonomyFinite, FS_Subset
<1>3. (\A c \in M \ (M \cap A) : At(t, c) = 0) /\ (\A c \in A \ (M \cap A) : At(t, c) = 0)
  BY <1>1
<1>4. MetricEbitda(t) = - Of(t, M) /\ Pnl(profile, t).ebitda = - Of(t, A)
  BY MetricEbitdaIs, PnlIs
<1> DEFINE B == M \cap A
<1>5. B \in SUBSET M /\ B \in SUBSET A
  OBVIOUS
<1> HIDE DEF M, A, B
<1>6. Of(t, M) = Of(t, B) /\ Of(t, A) = Of(t, B)
  BY <1>2, <1>3, <1>5, OfPart DEF B
<1> QED
  BY <1>4, <1>6

\* What a profile's bottom line and the classes off its layout hold is what
\* no sheet line takes.
LEMMA BottomAndOffLayout ==
  ASSUME NEW t, Totals(t), NEW profile
  PROVE  /\ Pnl(profile, t).bottom - Of(t, OffLayout(profile)) = - Of(t, Taxonomy \ SheetClasses)
         /\ Of(t, Taxonomy \ SheetClasses) \in Int
<1> DEFINE A == AboveBottom(profile)
           O == OffLayout(profile)
<1>1. A \cup O = Taxonomy \ SheetClasses /\ A \cap O = {}
  <2>1. CASE profile = "manufacturing"
    <3>1. A = PnlClasses /\ O = (Taxonomy \ SheetClasses) \ PnlClasses
      BY <2>1 DEF AboveBottom, OffLayout
    <3>2. PnlClasses \subseteq Taxonomy /\ PnlClasses \cap SheetClasses = {}
      BY Layout, SheetGroups DEF Taxonomy
    <3> QED
      BY <3>1, <3>2
  <2>2. CASE profile # "manufacturing"
    <3> DEFINE L == UNION { CONSUMER_LADDER[k] : k \in DOMAIN CONSUMER_LADDER }
    <3>1. A = UNION { CONSUMER_LADDER[k] : k \in DOMAIN CONSUMER_LADDER \ {"gst"} }
          /\ O = (Taxonomy \ SheetClasses) \ L
      BY <2>2 DEF AboveBottom, AboveEbitda, OffLayout
    <3>2. A = {"product_sales", "trade_discount", "raw_material", "commission_borne", "fulfilment",
               "selling_distribution", "store_rent", "marketing", "admin_general", "employee_cost"}
      BY <3>1 DEF CONSUMER_LADDER
    <3>3. L = {"product_sales", "trade_discount", "raw_material", "commission_borne", "fulfilment",
               "selling_distribution", "store_rent", "marketing", "admin_general", "employee_cost",
               "statutory_payable"}
      BY DEF CONSUMER_LADDER
    <3>4. A \subseteq Taxonomy \ SheetClasses /\ L \cap (Taxonomy \ SheetClasses) = A
      <4> HIDE DEF A, L
      <4> QED
        BY <3>2, <3>3, Layout, SheetGroups DEF Taxonomy
    <3> HIDE DEF A, L, O
    <3> QED
      BY <3>1, <3>4
  <2> QED
    BY <2>1, <2>2
<1>2. IsFiniteSet(A) /\ IsFiniteSet(O) /\ IsFiniteSet(Taxonomy \ SheetClasses)
  <2>1. A \subseteq Taxonomy /\ O \subseteq Taxonomy
    BY <1>1
  <2> QED
    BY <2>1, TaxonomyFinite, FS_Subset
<1>3. Pnl(profile, t).bottom = - Of(t, A)
  BY PnlIs
<1> HIDE DEF A, O
<1>4. Of(t, A \cup O) = Of(t, A) + Of(t, O) /\ Of(t, A) \in Int /\ Of(t, O) \in Int
  BY <1>1, <1>2, OfUnion, OfAsSum
<1>5. Of(t, A \cup O) = Of(t, Taxonomy \ SheetClasses)
  BY <1>1
<1> QED
  BY <1>3, <1>4, <1>5 DEF O

\* The computed retained earnings, when the rows give classes of the model.
LEMMA RetainedIs ==
  ASSUME NEW t, Totals(t), DOMAIN t \subseteq Taxonomy
  PROVE  Sheet(t).retained = - Of(t, Taxonomy \ SheetClasses)
<1> DEFINE C == Taxonomy \ SheetClasses
           D == DOMAIN t \ SheetClasses
<1>1. Sheet(t).retained = - Of(t, D)
  BY SheetDifference
<1>2. IsFiniteSet(C) /\ D \in SUBSET C /\ \A c \in C \ D : At(t, c) = 0
  BY TaxonomyFinite, FS_Subset DEF At
<1> HIDE DEF C, D
<1>3. Of(t, C) = Of(t, D)
  BY <1>2, OfPart
<1> QED
  BY <1>1, <1>3 DEF C

-----------------------------------------------------------------------------
(* Windows of months.                                                      *)

LEMMA PlacedSums ==
  ASSUME NEW E, Entries(E), NEW rows, NEW C, IsFiniteSet(C), NEW from \in Int, NEW to \in Int
  PROVE  /\ Of(ClassTotals(E, rows, from, to), C)
              = SumFunctionOnSet([e \in E |-> Placed(e, rows, C)], Window(E, from, to))
         /\ Totals(ClassTotals(E, rows, from, to))
<1> DEFINE p == [e \in E |-> Placed(e, rows, C)]
<1>1. \A e \in Window(E, from, to) : p[e] = Placed(e, rows, C)
  BY DEF Window
<1> HIDE DEF p
<1> QED
  BY <1>1, ClassTotalsAddUp DEF p

\* The balances of two months ends apart by a month differ by its movements.
LEMMA BalancesMove ==
  ASSUME NEW E, Entries(E), NEW rows, NEW C, IsFiniteSet(C), NEW from \in Int, NEW m \in Int, from <= m
  PROVE  LET of(a, b) == Of(ClassTotals(E, rows, a, b), C)
         IN  of(from, m) = of(from, m - 1) + of(m, m) /\ of(from, m - 1) \in Int /\ of(m, m) \in Int
<1> DEFINE p == [e \in E |-> Placed(e, rows, C)]
           W(a, b) == Window(E, a, b)
<1>1. \A a, b \in Int : /\ Of(ClassTotals(E, rows, a, b), C) = SumFunctionOnSet(p, W(a, b))
  BY PlacedSums
<1>2. \A e \in E : p[e] \in Int
  BY PlacedInt
<1>3. /\ W(from, m) = W(from, m - 1) \cup W(m, m) /\ W(from, m - 1) \cap W(m, m) = {}
      /\ W(from, m - 1) \subseteq E /\ W(m, m) \subseteq E
  BY DEF Window, Entries
<1>4. IsFiniteSet(W(from, m - 1)) /\ IsFiniteSet(W(m, m))
  BY <1>3, FS_Subset DEF Entries
<1> HIDE DEF p, W
<1> DEFINE P == W(from, m - 1)
           Q == W(m, m)
<1>5. (\A e \in P \cup Q : p[e] \in Int) /\ IsFiniteSet(P) /\ IsFiniteSet(Q) /\ P \cap Q = {}
  BY <1>2, <1>3, <1>4
<1> HIDE DEF P, Q
<1>6. SumFunctionOnSet(p, P \cup Q) = SumFunctionOnSet(p, P) + SumFunctionOnSet(p, Q)
  BY <1>5, SumUnion
<1>7. SumFunctionOnSet(p, P) \in Int /\ SumFunctionOnSet(p, Q) \in Int
  BY <1>5, SumInt
<1>8. W(from, m) = P \cup Q
  BY <1>3 DEF P, Q
<1>9. SumFunctionOnSet(p, W(from, m)) = SumFunctionOnSet(p, P) + SumFunctionOnSet(p, Q)
  BY <1>6, <1>8
<1> QED
  BY <1>1, <1>7, <1>9 DEF P, Q

\* compute_balance_sheet against pnl.py: over one version, the profit of the
\* month is what the retained earnings moved by, but for the classes off the
\* layout.
THEOREM ProfitMovesRetained ==
  ASSUME NEW E, Entries(E), NEW rows, rows \in [DOMAIN rows -> Taxonomy], NEW profile, NEW m \in Int, 1 <= m
  PROVE  LET of(a, b) == ClassTotals(E, rows, a, b)
         IN  Sheet(of(1, m)).retained - Sheet(of(1, m - 1)).retained
               = Pnl(profile, of(m, m)).bottom - Of(of(m, m), OffLayout(profile))
<1> DEFINE t(a, b) == ClassTotals(E, rows, a, b)
           C == Taxonomy \ SheetClasses
<1>1. IsFiniteSet(C)
  BY TaxonomyFinite, FS_Subset
<1>2. Totals(t(1, m)) /\ Totals(t(1, m - 1)) /\ Totals(t(m, m))
  <2>1. \A a, b \in Int : Totals(ClassTotals(E, rows, a, b))
    BY <1>1, PlacedSums
  <2>2. 1 \in Int /\ m - 1 \in Int
    OBVIOUS
  <2> QED
    BY <2>1, <2>2
<1>3. \A a, b : DOMAIN t(a, b) \subseteq Taxonomy
  BY ClassesRead
<1>4. Of(t(1, m), C) = Of(t(1, m - 1), C) + Of(t(m, m), C)
      /\ Of(t(1, m - 1), C) \in Int /\ Of(t(m, m), C) \in Int
  BY <1>1, BalancesMove
<1> DEFINE full == t(1, m)
           prior == t(1, m - 1)
           moved == t(m, m)
<1>5. Totals(full) /\ Totals(prior) /\ Totals(moved) /\ DOMAIN full \subseteq Taxonomy /\ DOMAIN prior \subseteq Taxonomy
  BY <1>2, <1>3
<1> HIDE DEF full, prior, moved
<1>6. Sheet(full).retained = - Of(full, C) /\ Sheet(prior).retained = - Of(prior, C)
  BY <1>5, RetainedIs
<1>7. Pnl(profile, moved).bottom - Of(moved, OffLayout(profile)) = - Of(moved, C)
  BY <1>5, BottomAndOffLayout
<1>8. Of(full, C) = Of(prior, C) + Of(moved, C) /\ Of(prior, C) \in Int /\ Of(moved, C) \in Int
  BY <1>4 DEF full, prior, moved
<1>9. Sheet(full).retained - Sheet(prior).retained = Pnl(profile, moved).bottom - Of(moved, OffLayout(profile))
  BY <1>6, <1>7, <1>8
<1> QED
  BY <1>9 DEF full, prior, moved

\* Months added up give what their range gives.
LEMMA MonthsAddUp ==
  ASSUME NEW E, Entries(E), NEW rows, NEW C, IsFiniteSet(C), NEW from \in Int, NEW to \in Int,
         NEW h, \A k \in from .. to : h[k] = Of(ClassTotals(E, rows, k, k), C)
  PROVE  SumFunctionOnSet(h, from .. to) = Of(ClassTotals(E, rows, from, to), C)
<1> DEFINE p == [e \in E |-> Placed(e, rows, C)]
           month == [e \in E |-> e.month]
           K == from .. to
<1>1. \A a, b \in Int : /\ Of(ClassTotals(E, rows, a, b), C) = SumFunctionOnSet(p, Window(E, a, b))
  BY PlacedSums
<1>2. \A e \in E : p[e] \in Int
  BY PlacedInt
<1>3. \A k \in Int : Window(E, k, k) = Group(E, month, {k})
  BY DEF Window, Group, Entries
<1>4. Window(E, from, to) = Group(E, month, K)
  BY DEF Window, Group
<1>5. IsFiniteSet(K)
  BY FS_Interval
<1>6. ASSUME NEW k \in K PROVE h[k] = SumFunctionOnSet(p, Group(E, month, {k}))
  <2>1. k \in Int /\ h[k] = Of(ClassTotals(E, rows, k, k), C)
    OBVIOUS
  <2>2. h[k] = SumFunctionOnSet(p, Window(E, k, k))
    BY <1>1, <2>1
  <2> QED
    BY <1>3, <2>1, <2>2
<1>7. IsFiniteSet(E)
  BY DEF Entries
<1> HIDE DEF p, month, K
<1>8. SumsGroups(h, K, p, E, month)
  BY <1>2, <1>6 DEF SumsGroups
<1>9. SumFunctionOnSet(h, K) = SumFunctionOnSet(p, Group(E, month, K))
  BY <1>5, <1>7, <1>8, SumByGroup
<1>10. SumFunctionOnSet(h, K) = Of(ClassTotals(E, rows, from, to), C)
  BY <1>1, <1>4, <1>9
<1> QED
  BY <1>10 DEF K

\* _sum_ytd against the year-to-date statement, over one version.
THEOREM YearToDateAgrees ==
  ASSUME NEW E, Entries(E), NEW rows, NEW profile, NEW from \in Int, NEW to \in Int,
         NEW h, \A k \in from .. to : h[k] = MetricEbitda(ClassTotals(E, rows, k, k)),
         \A c \in DifferentlyTreated(profile) : At(ClassTotals(E, rows, from, to), c) = 0
  PROVE  SumFunctionOnSet(h, from .. to) = Pnl(profile, ClassTotals(E, rows, from, to)).ebitda
<1> DEFINE C == MetricClasses
           K == from .. to
           t == ClassTotals(E, rows, from, to)
           g == [k \in K |-> Of(ClassTotals(E, rows, k, k), C)]
<1>1. IsFiniteSet(C)
  <2>1. C \subseteq Taxonomy
    BY DEF MetricClasses, METRIC_LEAVES, Taxonomy, PnlClasses, MANUFACTURING_PNL_LINES
  <2> QED
    BY <2>1, TaxonomyFinite, FS_Subset
<1>2. Totals(t) /\ \A k \in Int : Totals(ClassTotals(E, rows, k, k))
  BY <1>1, PlacedSums
<1>3. ASSUME NEW k \in K PROVE h[k] = - g[k] /\ g[k] \in Int
  <2>1. Totals(ClassTotals(E, rows, k, k))
    BY <1>2
  <2>2. MetricEbitda(ClassTotals(E, rows, k, k)) = - Of(ClassTotals(E, rows, k, k), C)
    BY <2>1, MetricEbitdaIs
  <2>3. Of(ClassTotals(E, rows, k, k), C) \in Int
    BY <1>1, <2>1, OfAsSum
  <2> QED
    BY <2>2, <2>3
<1>4. \A k \in K : g[k] = Of(ClassTotals(E, rows, k, k), C)
  OBVIOUS
<1>5. IsFiniteSet(K)
  BY FS_Interval
<1> HIDE DEF g, C
<1>6. SumFunctionOnSet(g, K) = Of(t, C)
  BY <1>1, <1>4, MonthsAddUp
<1> HIDE DEF K, t
<1>7. SumFunctionOnSet(h, K) = - SumFunctionOnSet(g, K)
  BY <1>3, <1>5, SumOpposite
<1>8. MetricEbitda(t) = - Of(t, C)
  BY <1>2, MetricEbitdaIs DEF C
<1>9. MetricEbitda(t) = Pnl(profile, t).ebitda
  BY <1>2, HeadlineAgrees DEF t
<1>10. SumFunctionOnSet(h, K) = Pnl(profile, t).ebitda
  BY <1>6, <1>7, <1>8, <1>9
<1> QED
  BY <1>10 DEF K, t
=============================================================================
