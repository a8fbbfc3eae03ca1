----------------------------- MODULE Collections ----------------------------
(***************************************************************************)
(* Facts about the collections of the models: SumFunctionOnSet, the sum of *)
(* f[x] over the x of a finite set, how it changes with one element, with  *)
(* the set and with f; and KeepAt, what a filter leaves of a sequence.     *)
(***************************************************************************)
EXTENDS Subsequences, Functions, FiniteSetTheorems, WellFoundedInduction, TLAPS

-----------------------------------------------------------------------------
(***************************************************************************)
(* Sums.                                                                   *)
(***************************************************************************)

AnyOf(s) == CHOOSE x \in s : TRUE

\* g is the recursive function by which the sum over S is defined.
Solves(f, S, g) ==
  g = [s \in SUBSET S |-> IF s = {} THEN 0 ELSE f[AnyOf(s)] + g[s \ {AnyOf(s)}]]

LEMMA AnyIsIn == \A s : s # {} => AnyOf(s) \in s
BY DEF AnyOf

(***************************************************************************)
(* A nonempty collection of subsets of a finite set has a minimal one: the *)
(* induction of all that follows.                                          *)
(***************************************************************************)
LEMMA MinimalSet ==
  ASSUME NEW S, IsFiniteSet(S), NEW Bad \in SUBSET SUBSET S, Bad # {}
  PROVE  \E b \in Bad : \A c \in SUBSET b : c # b => c \notin Bad
<1> DEFINE R == StrictSubsetOrdering(S)
<1>1. IsWellFoundedOn(R, SUBSET S)
  BY FS_StrictSubsetOrderingWellFounded, FS_FiniteSubsetsOfFinite
<1>2. \A b, c \in SUBSET S : c \subseteq b /\ c # b => <<c, b>> \in R
  BY DEF StrictSubsetOrdering
<1> HIDE DEF R
<1>3. PICK b \in Bad : \A c \in Bad : ~(<<c, b>> \in R)
  BY <1>1, WFMin
<1> QED
  BY <1>2, <1>3

LEMMA SumIs ==
  ASSUME NEW f, NEW S
  PROVE  SumFunctionOnSet(f, S) = (CHOOSE g : Solves(f, S, g))[S]
BY DEF SumFunctionOnSet, FoldFunctionOnSet, MapThenFoldSet, Solves, AnyOf

LEMMA SolutionIs ==
  ASSUME NEW f, NEW S, NEW g, Solves(f, S, g), NEW s \in SUBSET S
  PROVE  g[s] = IF s = {} THEN 0 ELSE f[AnyOf(s)] + g[s \ {AnyOf(s)}]
BY DEF Solves

\* Two solutions agree wherever both are defined.
LEMMA SolutionsAgree ==
  ASSUME NEW f, NEW S, IsFiniteSet(S), NEW T \in SUBSET S,
         NEW g, Solves(f, S, g), NEW h, Solves(f, T, h), NEW s \in SUBSET T
  PROVE  g[s] = h[s]
<1> DEFINE Bad == {b \in SUBSET T : g[b] # h[b]}
<1>1. SUFFICES ASSUME Bad # {} PROVE FALSE
  OBVIOUS
<1>2. IsFiniteSet(T)
  BY FS_Subset
<1>3. PICK b \in Bad : \A c \in SUBSET b : c # b => c \notin Bad
  BY <1>1, <1>2, MinimalSet
<1>4. g[b] = IF b = {} THEN 0 ELSE f[AnyOf(b)] + g[b \ {AnyOf(b)}]
  BY SolutionIs
<1>5. h[b] = IF b = {} THEN 0 ELSE f[AnyOf(b)] + h[b \ {AnyOf(b)}]
  BY SolutionIs
<1>6. b # {} => g[b \ {AnyOf(b)}] = h[b \ {AnyOf(b)}]
  BY <1>3, AnyIsIn
<1> QED
  BY <1>4, <1>5, <1>6

LEMMA SolutionExists ==
  ASSUME NEW f, NEW S, IsFiniteSet(S)
  PROVE  \E g : Solves(f, S, g)
<1> DEFINE Bad == {b \in SUBSET S : ~ \E g : Solves(f, b, g)}
<1>1. SUFFICES ASSUME Bad # {} PROVE FALSE
  OBVIOUS
<1>0. Bad \in SUBSET SUBSET S
  OBVIOUS
<1> HIDE DEF Bad
<1>2. PICK b \in Bad : \A c \in SUBSET b : c # b => c \notin Bad
  BY <1>0, <1>1, MinimalSet
<1> USE DEF Bad
<1> DEFINE h(c) == CHOOSE g : Solves(f, c, g)
           rest(s) == s \ {AnyOf(s)}
           g == [s \in SUBSET b |-> IF s = {} THEN 0 ELSE f[AnyOf(s)] + h(rest(s))[rest(s)]]
<1>3. \A c \in SUBSET b : c # b => Solves(f, c, h(c))
  BY <1>2
<1>4. ASSUME NEW s \in SUBSET b, s # {} PROVE g[rest(s)] = h(rest(s))[rest(s)]
  <2> DEFINE u == rest(s)
  <2>1. u \in SUBSET b /\ u # b
    BY <1>4, AnyIsIn
  <2>2. Solves(f, u, h(u))
    BY <1>3, <2>1
  <2>3. h(u)[u] = IF u = {} THEN 0 ELSE f[AnyOf(u)] + h(u)[rest(u)]
    <3> HIDE DEF h, u
    <3>1. u \in SUBSET u
      OBVIOUS
    <3> QED
      BY <2>2, <3>1, SolutionIs
  <2>4. g[u] = IF u = {} THEN 0 ELSE f[AnyOf(u)] + h(rest(u))[rest(u)]
    BY <2>1
  <2>5. ASSUME u # {} PROVE h(u)[rest(u)] = h(rest(u))[rest(u)]
    <3> DEFINE v == rest(u)
    <3>1. v \in SUBSET u /\ v \in SUBSET b /\ v # b
      BY <2>1, <2>5, AnyIsIn
    <3>2. Solves(f, v, h(v))
      BY <1>3, <3>1
    <3>3. IsFiniteSet(u)
      BY <2>1, FS_Subset
    <3> HIDE DEF h, u, v
    <3>4. h(u)[v] = h(v)[v]
      BY <2>2, <3>1, <3>2, <3>3, SolutionsAgree
    <3> QED
      BY <3>4 DEF u, v
  <2> QED
    BY <2>3, <2>4, <2>5
<1>5. Solves(f, b, g)
  <2>1. ASSUME NEW s \in SUBSET b
        PROVE  g[s] = IF s = {} THEN 0 ELSE f[AnyOf(s)] + g[rest(s)]
    <3>1. s # {} => g[rest(s)] = h(rest(s))[rest(s)]
      BY <1>4
    <3>2. g[s] = IF s = {} THEN 0 ELSE f[AnyOf(s)] + h(rest(s))[rest(s)]
      OBVIOUS
    <3> HIDE DEF g, h
    <3> QED
      BY <3>1, <3>2
  <2>2. g = [s \in SUBSET b |-> g[s]]
    OBVIOUS
  <2> HIDE DEF g
  <2>3. g = [s \in SUBSET b |-> IF s = {} THEN 0 ELSE f[AnyOf(s)] + g[rest(s)]]
    BY <2>1, <2>2
  <2> QED
    BY <2>3 DEF Solves
<1> QED
  BY <1>2, <1>5

LEMMA SumEmpty == \A f : SumFunctionOnSet(f, {}) = 0
<1> TAKE f
<1>1. IsFiniteSet({})
  BY FS_EmptySet
<1> DEFINE g == CHOOSE g : Solves(f, {}, g)
<1>2. Solves(f, {}, g)
  BY <1>1, SolutionExists
<1> HIDE DEF g
<1>3. g[{}] = 0
  BY <1>2, SolutionIs
<1> QED
  BY <1>3, SumIs DEF g

LEMMA SumUnfold ==
  ASSUME NEW f, NEW S, IsFiniteSet(S), S # {}
  PROVE  SumFunctionOnSet(f, S)
           = f[AnyOf(S)] + SumFunctionOnSet(f, S \ {AnyOf(S)})
<1> DEFINE h(c) == CHOOSE g : Solves(f, c, g)
           T    == S \ {AnyOf(S)}
<1>1. T \in SUBSET S /\ IsFiniteSet(T)
  BY FS_Subset
<1>2. Solves(f, S, h(S)) /\ Solves(f, T, h(T))
  BY <1>1, SolutionExists
<1>3. SumFunctionOnSet(f, S) = h(S)[S] /\ SumFunctionOnSet(f, T) = h(T)[T]
  BY SumIs
<1> HIDE DEF h, T
<1>4. h(S)[S] = f[AnyOf(S)] + h(S)[T]
  BY <1>2, SolutionIs DEF T
<1>5. T \in SUBSET T
  OBVIOUS
<1>6. h(S)[T] = h(T)[T]
  BY <1>1, <1>2, <1>5, SolutionsAgree
<1> QED
  BY <1>3, <1>4, <1>6 DEF T
(***************************************************************************)
(* What a proof uses.                                                      *)
(***************************************************************************)

LEMMA SumInt ==
  ASSUME NEW f, NEW S, IsFiniteSet(S), \A x \in S : f[x] \in Int
  PROVE  SumFunctionOnSet(f, S) \in Int
<1> DEFINE Bad == {b \in SUBSET S : SumFunctionOnSet(f, b) \notin Int}
<1>1. SUFFICES ASSUME Bad # {} PROVE FALSE
  OBVIOUS
<1>2. Bad \in SUBSET SUBSET S
  OBVIOUS
<1> HIDE DEF Bad
<1>3. PICK b \in Bad : \A c \in SUBSET b : c # b => c \notin Bad
  BY <1>1, <1>2, MinimalSet
<1>4. b # {} /\ IsFiniteSet(b) /\ SumFunctionOnSet(f, b) \notin Int
  <2>1. b \in SUBSET S /\ SumFunctionOnSet(f, b) \notin Int
    BY <1>3 DEF Bad
  <2>2. IsFiniteSet(b)
    BY <2>1, FS_Subset
  <2>3. SumFunctionOnSet(f, {}) = 0
    BY SumEmpty
  <2> QED
    BY <2>1, <2>2, <2>3
<1>5. SumFunctionOnSet(f, b \ {AnyOf(b)}) \in Int /\ AnyOf(b) \in b
  BY <1>2, <1>3, <1>4, AnyIsIn DEF Bad
<1> QED
  BY <1>2, <1>4, <1>5, SumUnfold

\* Any element may be taken out first.
LEMMA SumRemove ==
  ASSUME NEW f, NEW S, IsFiniteSet(S), \A x \in S : f[x] \in Int, NEW x \in S
  PROVE  SumFunctionOnSet(f, S) = f[x] + SumFunctionOnSet(f, S \ {x})
<1> DEFINE Sum(b) == SumFunctionOnSet(f, b)
           Bad == {b \in SUBSET S : \E y \in b : Sum(b) # f[y] + Sum(b \ {y})}
<1>1. SUFFICES ASSUME Bad # {} PROVE FALSE
  OBVIOUS
<1>2. Bad \in SUBSET SUBSET S
  OBVIOUS
<1> HIDE DEF Bad
<1>3. PICK b \in Bad : \A c \in SUBSET b : c # b => c \notin Bad
  BY <1>1, <1>2, MinimalSet
<1>4. PICK y \in b : Sum(b) # f[y] + Sum(b \ {y})
  BY <1>3 DEF Bad
<1> DEFINE a == AnyOf(b)
<1>5. b \in SUBSET S /\ b # {} /\ a \in b
  BY <1>2, <1>4, AnyIsIn
<1>6. IsFiniteSet(b) /\ IsFiniteSet(b \ {a}) /\ IsFiniteSet(b \ {y})
  BY <1>5, FS_Subset
<1>7. Sum(b) = f[a] + Sum(b \ {a})
  BY <1>5, <1>6, SumUnfold
<1>8. Sum(b \ {a}) = f[y] + Sum((b \ {a}) \ {y}) \/ y = a
  BY <1>2, <1>3, <1>5 DEF Bad
<1>9. Sum(b \ {y}) = f[a] + Sum((b \ {y}) \ {a}) \/ y = a
  BY <1>2, <1>3, <1>4, <1>5 DEF Bad
<1>10. (b \ {y}) \ {a} = (b \ {a}) \ {y}
  OBVIOUS
<1>11. Sum((b \ {a}) \ {y}) \in Int /\ f[a] \in Int /\ f[y] \in Int
  <2>1. IsFiniteSet((b \ {a}) \ {y})
    BY <1>6, FS_Subset
  <2> QED
    BY <1>4, <1>5, <2>1, SumInt
<1> HIDE DEF Sum, a
<1>12. y # a
  BY <1>4, <1>7
<1>13. Sum(b \ {y}) = f[a] + Sum((b \ {a}) \ {y})
  BY <1>9, <1>10, <1>12
<1>14. Sum(b) = f[a] + (f[y] + Sum((b \ {a}) \ {y}))
  BY <1>7, <1>8, <1>12
<1> QED
  BY <1>4, <1>11, <1>13, <1>14

LEMMA SumAdd ==
  ASSUME NEW f, NEW S, IsFiniteSet(S), NEW x, x \notin S,
         \A y \in S \cup {x} : f[y] \in Int
  PROVE  SumFunctionOnSet(f, S \cup {x}) = f[x] + SumFunctionOnSet(f, S)
<1>1. IsFiniteSet(S \cup {x}) /\ (S \cup {x}) \ {x} = S
  BY FS_AddElement
<1> QED
  BY <1>1, SumRemove

LEMMA SumNat ==
  ASSUME NEW f, NEW S, IsFiniteSet(S), \A x \in S : f[x] \in Nat
  PROVE  SumFunctionOnSet(f, S) \in Nat
<1> DEFINE Bad == {b \in SUBSET S : SumFunctionOnSet(f, b) \notin Nat}
<1>1. SUFFICES ASSUME Bad # {} PROVE FALSE
  OBVIOUS
<1>2. Bad \in SUBSET SUBSET S
  OBVIOUS
<1> HIDE DEF Bad
<1>3. PICK b \in Bad : \A c \in SUBSET b : c # b => c \notin Bad
  BY <1>1, <1>2, MinimalSet
<1>4. b # {} /\ IsFiniteSet(b) /\ SumFunctionOnSet(f, b) \notin Nat
  <2>1. b \in SUBSET S /\ SumFunctionOnSet(f, b) \notin Nat
    BY <1>3 DEF Bad
  <2>2. IsFiniteSet(b)
    BY <2>1, FS_Subset
  <2>3. SumFunctionOnSet(f, {}) = 0
    BY SumEmpty
  <2> QED
    BY <2>1, <2>2, <2>3
<1>5. SumFunctionOnSet(f, b \ {AnyOf(b)}) \in Nat /\ AnyOf(b) \in b
  BY <1>2, <1>3, <1>4, AnyIsIn DEF Bad
<1> QED
  BY <1>2, <1>4, <1>5, SumUnfold

\* Only the values at the elements of the set matter.
LEMMA SumSame ==
  ASSUME NEW f, NEW g, NEW S, IsFiniteSet(S), \A x \in S : f[x] = g[x]
  PROVE  SumFunctionOnSet(f, S) = SumFunctionOnSet(g, S)
<1> DEFINE Bad == {b \in SUBSET S : SumFunctionOnSet(f, b) # SumFunctionOnSet(g, b)}
<1>1. SUFFICES ASSUME Bad # {} PROVE FALSE
  OBVIOUS
<1>2. Bad \in SUBSET SUBSET S
  OBVIOUS
<1> HIDE DEF Bad
<1>3. PICK b \in Bad : \A c \in SUBSET b : c # b => c \notin Bad
  BY <1>1, <1>2, MinimalSet
<1>4. b # {} /\ IsFiniteSet(b) /\ SumFunctionOnSet(f, b) # SumFunctionOnSet(g, b)
  BY <1>3, SumEmpty, FS_Subset DEF Bad
<1>5. AnyOf(b) \in b /\ SumFunctionOnSet(f, b \ {AnyOf(b)}) = SumFunctionOnSet(g, b \ {AnyOf(b)})
  BY <1>2, <1>3, <1>4, AnyIsIn DEF Bad
<1> QED
  BY <1>2, <1>4, <1>5, SumUnfold

\* A sum is no larger than one its positive terms can be mapped into.
LEMMA SumInjects ==
  ASSUME NEW f, NEW S, NEW g, NEW T, IsFiniteSet(S), IsFiniteSet(T),
         NEW m, \A x, y \in S : m[x] = m[y] => x = y,
         \A x \in S : f[x] \in Int /\ (f[x] <= 0 \/ (m[x] \in T /\ f[x] <= g[m[x]])),
         \A y \in T : g[y] \in Nat
  PROVE  SumFunctionOnSet(f, S) <= SumFunctionOnSet(g, T)
<1> DEFINE Fits(b, c) == SumFunctionOnSet(f, b) <= SumFunctionOnSet(g, c)
           Into(b, c) == \A x \in b : f[x] <= 0 \/ m[x] \in c
           Bad == {b \in SUBSET S : \E c \in SUBSET T : Into(b, c) /\ ~Fits(b, c)}
<1>1. SUFFICES ASSUME Bad # {} PROVE FALSE
  <2>1. S \in SUBSET S /\ T \in SUBSET T
    OBVIOUS
  <2> QED
    BY <2>1
<1>2. Bad \in SUBSET SUBSET S
  OBVIOUS
<1> HIDE DEF Bad
<1>3. PICK b \in Bad : \A d \in SUBSET b : d # b => d \notin Bad
  BY <1>1, <1>2, MinimalSet
<1>4. PICK c \in SUBSET T : Into(b, c) /\ ~Fits(b, c)
  BY <1>3 DEF Bad
<1>5. b \in SUBSET S /\ IsFiniteSet(b) /\ IsFiniteSet(c)
  BY <1>2, <1>3, FS_Subset
<1>6. SumFunctionOnSet(g, c) \in Nat
  BY <1>5, SumNat
<1>7. PICK x \in b : TRUE
  BY <1>4, <1>5, <1>6, SumEmpty
<1>8. b \ {x} \in SUBSET S /\ b \ {x} \in SUBSET b /\ b \ {x} # b /\ x \in S
  BY <1>5, <1>7
<1>9. ASSUME NEW d \in SUBSET c, Into(b \ {x}, d) PROVE Fits(b \ {x}, d)
  <2>1. b \ {x} \notin Bad
    BY <1>3, <1>8
  <2>2. d \in SUBSET T
    OBVIOUS
  <2> HIDE DEF Fits, Into
  <2> QED
    BY <1>8, <1>9, <2>1, <2>2 DEF Bad
<1>10. SumFunctionOnSet(f, b) = f[x] + SumFunctionOnSet(f, b \ {x})
  BY <1>5, <1>7, SumRemove
<1>11. SumFunctionOnSet(f, b \ {x}) \in Int
  BY <1>5, <1>8, SumInt, FS_Subset
<1>12. CASE f[x] <= 0
  <2>1. Fits(b \ {x}, c)
    BY <1>4, <1>9
  <2> QED
    BY <1>4, <1>6, <1>8, <1>10, <1>11, <1>12, <2>1
<1>13. CASE ~(f[x] <= 0)
  <2>1. m[x] \in c /\ f[x] <= g[m[x]] /\ g[m[x]] \in Nat
    BY <1>4, <1>7, <1>8, <1>13
  <2>2. Into(b \ {x}, c \ {m[x]})
    BY <1>4, <1>5, <1>8
  <2>3. Fits(b \ {x}, c \ {m[x]})
    BY <1>9, <2>2
  <2>4. SumFunctionOnSet(g, c) = g[m[x]] + SumFunctionOnSet(g, c \ {m[x]})
    BY <1>5, <2>1, SumRemove
  <2>5. SumFunctionOnSet(g, c \ {m[x]}) \in Nat
    BY <1>5, SumNat, FS_Subset
  <2> QED
    BY <1>4, <1>8, <1>10, <1>11, <2>1, <2>3, <2>4, <2>5
<1> QED
  BY <1>12, <1>13

\* The sum grows with the set and with the summands.
LEMMA SumMonotone ==
  ASSUME NEW f, NEW S, NEW g, NEW T, IsFiniteSet(T), S \subseteq T,
         \A x \in S : f[x] \in Int /\ f[x] <= g[x],
         \A x \in T : g[x] \in Nat
  PROVE  SumFunctionOnSet(f, S) <= SumFunctionOnSet(g, T)
<1> DEFINE m == [x \in S |-> x]
<1>1. IsFiniteSet(S)
  BY FS_Subset
<1>2. /\ \A x, y \in S : m[x] = m[y] => x = y
      /\ \A x \in S : f[x] \in Int /\ m[x] \in T /\ f[x] <= g[m[x]]
  OBVIOUS
<1> HIDE DEF m
<1> QED
  BY <1>1, <1>2, SumInjects

\* The sum over two disjoint sets.
LEMMA SumUnion ==
  ASSUME NEW f, NEW S, NEW T, IsFiniteSet(S), IsFiniteSet(T), S \cap T = {},
         \A x \in S \cup T : f[x] \in Int
  PROVE  SumFunctionOnSet(f, S \cup T)
           = SumFunctionOnSet(f, S) + SumFunctionOnSet(f, T)
<1> DEFINE Sum(b) == SumFunctionOnSet(f, b)
           Bad == {b \in SUBSET S : Sum(b \cup T) # Sum(b) + Sum(T)}
<1>1. SUFFICES ASSUME Bad # {} PROVE FALSE
  OBVIOUS
<1>2. Bad \in SUBSET SUBSET S
  OBVIOUS
<1> HIDE DEF Bad
<1>3. PICK b \in Bad : \A c \in SUBSET b : c # b => c \notin Bad
  BY <1>1, <1>2, MinimalSet
<1>4. b \in SUBSET S /\ Sum(b \cup T) # Sum(b) + Sum(T) /\ IsFiniteSet(b)
  BY <1>3, FS_Subset DEF Bad
<1>5. Sum(T) \in Int
  BY SumInt
<1>6. b # {}
  <2>1. {} \cup T = T
    OBVIOUS
  <2> QED
    BY <1>4, <1>5, <2>1, SumEmpty
<1>7. PICK x \in b : TRUE
  BY <1>6
<1> DEFINE c == b \ {x}
<1>8. /\ c \in SUBSET S /\ IsFiniteSet(c) /\ IsFiniteSet(b \cup T)
      /\ (b \cup T) \ {x} = c \cup T /\ x \in b \cup T /\ x \in S
  BY <1>4, <1>7, FS_Subset, FS_Union
<1>9. Sum(c \cup T) = Sum(c) + Sum(T)
  BY <1>3, <1>7, <1>8 DEF Bad
<1>10. Sum(b) = f[x] + Sum(c)
  BY <1>4, <1>7, SumRemove
<1>11. Sum(b \cup T) = f[x] + Sum(c \cup T)
  BY <1>4, <1>8, SumRemove
<1>12. Sum(c) \in Int /\ f[x] \in Int
  BY <1>8, SumInt
<1> HIDE DEF Sum, c
<1> QED
  BY <1>4, <1>5, <1>9, <1>10, <1>11, <1>12

\* One summand changes.
LEMMA SumChange ==
  ASSUME NEW f, NEW g, NEW S, IsFiniteSet(S), NEW x \in S,
         \A y \in S : f[y] \in Int /\ g[y] \in Int,
         \A y \in S : y # x => g[y] = f[y]
  PROVE  SumFunctionOnSet(g, S) = SumFunctionOnSet(f, S) - f[x] + g[x]
<1>1. IsFiniteSet(S \ {x})
  BY FS_Subset
<1>2. SumFunctionOnSet(g, S \ {x}) = SumFunctionOnSet(f, S \ {x})
  BY <1>1, SumSame
<1>3. SumFunctionOnSet(f, S) = f[x] + SumFunctionOnSet(f, S \ {x})
  BY SumRemove
<1>4. SumFunctionOnSet(g, S) = g[x] + SumFunctionOnSet(g, S \ {x})
  BY SumRemove
<1>5. SumFunctionOnSet(f, S \ {x}) \in Int
  BY <1>1, SumInt
<1> QED
  BY <1>2, <1>3, <1>4, <1>5

-----------------------------------------------------------------------------
(***************************************************************************)
(* Filtered sequences.                                                     *)
(***************************************************************************)

LEMMA RankGrows ==
  ASSUME NEW I, IsFiniteSet(I), I \subseteq Int
  PROVE  /\ \A i \in I : RankIn(I, i) \in 1 .. Cardinality(I)
         /\ \A i, k \in I : i < k => RankIn(I, i) < RankIn(I, k)
<1> DEFINE Upto(i) == {k \in I : k <= i}
<1>1. \A i \in I : /\ Upto(i) \in SUBSET I /\ IsFiniteSet(Upto(i))
                   /\ Cardinality(Upto(i)) \in Nat /\ Cardinality(I) \in Nat
  BY FS_Subset, FS_CardinalityType
<1>2. ASSUME NEW i \in I PROVE RankIn(I, i) \in 1 .. Cardinality(I)
  <2>1. Cardinality(Upto(i)) <= Cardinality(I)
    BY <1>1, FS_Subset
  <2>2. i \in Upto(i)
    OBVIOUS
  <2>3. Cardinality(Upto(i)) # 0
    BY <1>1, <2>2, FS_EmptySet
  <2> QED
    BY <1>1, <2>1, <2>3 DEF RankIn
<1>3. ASSUME NEW i \in I, NEW k \in I, i < k PROVE RankIn(I, i) < RankIn(I, k)
  <2>0. i \in Int /\ k \in Int /\ ~(k <= i) /\ k <= k /\ \A x \in Int : x <= i => x <= k
    BY <1>3
  <2>1. Upto(i) \in SUBSET Upto(k) /\ k \in Upto(k) /\ k \notin Upto(i)
    BY <2>0
  <2> HIDE DEF Upto
  <2>2. Cardinality(Upto(i)) <= Cardinality(Upto(k)) /\ Cardinality(Upto(i)) # Cardinality(Upto(k))
    BY <1>1, <2>1, FS_Subset
  <2> QED
    BY <1>1, <2>2 DEF RankIn, Upto
<1> QED
  BY <1>2, <1>3

\* p lists the positions a filter keeps, in the order in which they are kept.
Lists(p, s, n, I) ==
  /\ Cardinality(I) \in Nat /\ Cardinality(I) <= n
  /\ p \in [1 .. Cardinality(I) -> I]
  /\ KeepAt(s, I) = [j \in 1 .. Cardinality(I) |-> s[p[j]]]
  /\ \A i \in I : \E j \in 1 .. Cardinality(I) : p[j] = i
  /\ \A j, k \in 1 .. Cardinality(I) : j < k => p[j] < p[k]

LEMMA KeptPositions ==
  ASSUME NEW s, NEW n \in Nat, NEW I \in SUBSET (1 .. n)
  PROVE  \E p : Lists(p, s, n, I)
<1>1. IsFiniteSet(I) /\ I \subseteq Int /\ Cardinality(I) \in Nat
  <2>1. IsFiniteSet(1 .. n)
    BY FS_Interval
  <2>2. IsFiniteSet(I)
    BY <2>1, FS_Subset
  <2>3. Cardinality(I) \in Nat
    BY <2>2, FS_CardinalityType
  <2> QED
    BY <2>2, <2>3
<1>11. Cardinality(I) <= n
  <2>1. IsFiniteSet(1 .. n) /\ Cardinality(1 .. n) = n
    BY FS_Interval
  <2>2. Cardinality(I) <= Cardinality(1 .. n)
    BY <2>1, FS_Subset
  <2> QED
    BY <2>1, <2>2
<1> DEFINE c == Cardinality(I)
           r == [i \in I |-> RankIn(I, i)]
           p == [j \in 1 .. c |-> CHOOSE i \in I : RankIn(I, i) = j]
<1>2. \A i \in I : RankIn(I, i) \in 1 .. c
  BY <1>1, RankGrows
<1>3. \A i, k \in I : i < k => RankIn(I, i) < RankIn(I, k)
  BY <1>1, RankGrows
<1>4. r \in Surjection(I, 1 .. c)
  <2>1. r \in [I -> 1 .. c]
    BY <1>2
  <2>2. \A i, k \in I : r[i] = r[k] => i = k
    <3>1. \A i, k \in I : i < k => r[i] < r[k]
      BY <1>3
    <3>2. \A i, k \in I : i < k \/ i = k \/ k < i
      BY <1>1
    <3> QED
      BY <2>1, <3>1, <3>2
  <2>3. r \in Injection(I, 1 .. c)
    BY <2>1, <2>2 DEF Injection, IsInjective
  <2>4. IsFiniteSet(1 .. c) /\ Cardinality(1 .. c) = c
    BY <1>1, FS_Interval
  <2> HIDE DEF r
  <2> QED
    BY <2>3, <2>4, FS_Injection
<1>5. \A j \in 1 .. c : \E i \in I : RankIn(I, i) = j
  BY <1>4 DEF Surjection
<1>6. \A j \in 1 .. c : p[j] \in I /\ RankIn(I, p[j]) = j
  BY <1>5
<1>7. p \in [1 .. c -> I]
  BY <1>6
<1>8. \A i \in I : \E j \in 1 .. c : p[j] = i
  <2>1. ASSUME NEW i \in I PROVE p[RankIn(I, i)] = i
    <3>1. RankIn(I, i) \in 1 .. c
      BY <1>2
    <3>2. p[RankIn(I, i)] \in I /\ RankIn(I, p[RankIn(I, i)]) = RankIn(I, i)
      BY <1>6, <3>1
    <3> HIDE DEF p
    <3>3. \A k \in I : RankIn(I, k) = RankIn(I, i) => k = i
      <4>1. \A k \in I : k < i \/ k = i \/ i < k
        BY <1>1
      <4> QED
        BY <1>2, <1>3, <4>1
    <3> QED
      BY <3>2, <3>3
  <2> HIDE DEF p
  <2> QED
    BY <1>2, <2>1
<1>9. \A j, k \in 1 .. c : j < k => p[j] < p[k]
  <2> HIDE DEF p
  <2> SUFFICES ASSUME NEW j \in 1 .. c, NEW k \in 1 .. c, j < k PROVE p[j] < p[k]
    OBVIOUS
  <2>0. j < k
    OBVIOUS
  <2>1. p[j] \in I /\ p[k] \in I /\ RankIn(I, p[j]) = j /\ RankIn(I, p[k]) = k
    BY <1>6
  <2>a. p[j] \in Int /\ p[k] \in Int
    BY <1>1, <2>1
  <2>b. j \in Int /\ k \in Int
    BY <1>1
  <2>2. p[j] \in Int /\ p[k] \in Int /\ ~(k < j) /\ j # k
    BY <2>a, <2>b, <2>0
  <2>3. ~(p[k] < p[j])
    BY <1>3, <2>1, <2>2
  <2> QED
    BY <2>1, <2>2, <2>3
<1>10. KeepAt(s, I) = [j \in 1 .. c |-> s[p[j]]]
  BY DEF KeepAt
<1> HIDE DEF p
<1> QED
  BY <1>1, <1>7, <1>8, <1>9, <1>10, <1>11 DEF Lists

\* The same of a sequence.
KeptBy(p, S, s, I) ==
  /\ Cardinality(I) \in Nat /\ Cardinality(I) <= Len(s)
  /\ KeepAt(s, I) \in Seq(S) /\ DOMAIN KeepAt(s, I) = 1 .. Cardinality(I)
  /\ Len(KeepAt(s, I)) = Cardinality(I)
  /\ p \in [1 .. Cardinality(I) -> I]
  /\ \A j \in 1 .. Cardinality(I) : KeepAt(s, I)[j] = s[p[j]]
  /\ \A i \in I : \E j \in 1 .. Cardinality(I) : p[j] = i
  /\ \A j, k \in 1 .. Cardinality(I) : j < k => p[j] < p[k]

LEMMA KeptOfSeq ==
  ASSUME NEW S, NEW s \in Seq(S), NEW I \in SUBSET DOMAIN s
  PROVE  \E p : KeptBy(p, S, s, I)
<1>1. PICK m \in Nat : m = Len(s) /\ I \in SUBSET (1 .. m) /\ DOMAIN s = 1 .. m
  OBVIOUS
<1>2. PICK p : Lists(p, s, m, I)
  BY <1>1, KeptPositions
<1>3. PICK n \in Nat : n = Cardinality(I)
  BY <1>2 DEF Lists
<1>4. PICK k : k = KeepAt(s, I)
  OBVIOUS
<1>5. k = [j \in 1 .. n |-> s[p[j]]] /\ \A j \in 1 .. n : p[j] \in DOMAIN s
  BY <1>1, <1>2, <1>3, <1>4 DEF Lists
<1>6. \A i \in DOMAIN s : s[i] \in S
  OBVIOUS
<1>7. k \in Seq(S) /\ DOMAIN k = 1 .. n /\ Len(k) = n
  BY <1>5, <1>6
<1>8. \A j \in 1 .. n : k[j] = s[p[j]]
  BY <1>5
<1>9. /\ n <= Len(s) /\ p \in [1 .. n -> I]
      /\ \A i \in I : \E j \in 1 .. n : p[j] = i
      /\ \A j, l \in 1 .. n : j < l => p[j] < p[l]
  BY <1>1, <1>2, <1>3 DEF Lists
<1> QED
  BY <1>3, <1>4, <1>7, <1>8, <1>9 DEF KeptBy
-----------------------------------------------------------------------------
(***************************************************************************)
(* Counting: induction on the numbers up to N, the good ones as a set.     *)
(***************************************************************************)

LEMMA LeastNatural ==
  ASSUME NEW S \in SUBSET Nat, NEW k \in S
  PROVE  \E n \in S : \A m \in S : n <= m
<1> DEFINE Bad == {0 .. n : n \in {i \in S : i <= k}}
<1>0. PICK T : T = 0 .. k
  OBVIOUS
<1>1. Bad \in SUBSET SUBSET T /\ Bad # {}
  BY <1>0
<1>2. IsFiniteSet(T)
  BY <1>0, FS_Interval
<1> HIDE DEF Bad
<1>3. PICK b \in Bad : \A c \in SUBSET b : c # b => c \notin Bad
  BY <1>1, <1>2, MinimalSet
<1>4. PICK n \in S : n <= k /\ b = 0 .. n
  BY <1>3 DEF Bad
<1>5. ASSUME NEW m \in S, ~(n <= m) PROVE FALSE
  <2>1. m \in Nat /\ n \in Nat /\ m < n
    BY <1>5
  <2>2. 0 .. m \subseteq b
    BY <1>4, <2>1
  <2>3. n \in b /\ n \notin 0 .. m
    BY <1>4, <2>1
  <2>4. 0 .. m \in Bad
    BY <1>4, <2>1 DEF Bad
  <2> QED
    BY <1>3, <2>2, <2>3, <2>4
<1> QED
  BY <1>5

LEMMA UpTo ==
  ASSUME NEW N \in Nat, NEW Good, 0 \in Good,
         \A n \in 0 .. N : n \in Good /\ n < N => n + 1 \in Good
  PROVE  \A n \in 0 .. N : n \in Good
<1> DEFINE Bad == {n \in 0 .. N : n \notin Good}
<1> SUFFICES ASSUME NEW k \in Bad PROVE FALSE
  OBVIOUS
<1>0. Bad \in SUBSET Nat
  OBVIOUS
<1> HIDE DEF Bad
<1>1. PICK n \in Bad : \A m \in Bad : n <= m
  BY <1>0, LeastNatural
<1>2. n # 0 /\ n - 1 \in 0 .. N /\ n - 1 < N /\ n = (n - 1) + 1 /\ n \notin Good
  BY <1>1 DEF Bad
<1>3. n - 1 \in Good
  BY <1>1, <1>2 DEF Bad
<1> QED
  BY <1>1, <1>2, <1>3

LEMMA DownFrom ==
  ASSUME NEW N \in Nat, NEW Good, N \in Good,
         \A n \in 0 .. N : n \in Good /\ n > 0 => n - 1 \in Good
  PROVE  \A n \in 0 .. N : n \in Good
<1> DEFINE Late == {n \in 0 .. N : N - n \in Good}
<1>1. 0 \in Late
  <2>1. 0 \in 0 .. N /\ N - 0 = N
    OBVIOUS
  <2> QED
    BY <2>1
<1>2. ASSUME NEW n \in 0 .. N, n \in Late, n < N PROVE n + 1 \in Late
  <2>1. N - n \in 0 .. N /\ N - n > 0 /\ N - n \in Good
    BY <1>2
  <2>2. (N - n) - 1 \in Good
    BY <2>1
  <2>3. (N - n) - 1 = N - (n + 1) /\ n + 1 \in 0 .. N
    BY <1>2
  <2> QED
    BY <2>2, <2>3
<1> HIDE DEF Late
<1>3. \A n \in 0 .. N : n \in Late
  BY <1>1, <1>2, UpTo
<1>4. ASSUME NEW n \in 0 .. N PROVE n \in Good
  <2>1. N - n \in 0 .. N /\ N - (N - n) = n
    OBVIOUS
  <2>2. N - n \in Late
    BY <1>3, <2>1
  <2> QED
    BY <2>1, <2>2 DEF Late
<1> QED
  BY <1>4

=============================================================================
