-------------------------------- MODULE Sums --------------------------------
(***************************************************************************)
(* Induction over the naturals and over the subsets of a finite set, with  *)
(* a set where the library's theorems take an operator, and what follows   *)
(* from it for sums of functions over finite sets.                         *)
(***************************************************************************)
EXTENDS Integers, FiniteSets, Functions, FiniteSetsExt, FiniteSetTheorems, TLAPS

\* A set that holds 0, and with a number the next, holds all: the smallest 1 .. k with k
\* outside would have one below it.
LEMMA InductionOverNat ==
  ASSUME NEW S, 0 \in S, \A n \in Nat : n \in S => n + 1 \in S
  PROVE  Nat \subseteq S
<1> SUFFICES ASSUME NEW n \in Nat, n \notin S
             PROVE  FALSE
  OBVIOUS
<1> DEFINE R == StrictSubsetOrdering(1 .. n)
           T == {1 .. k : k \in {j \in 0 .. n : j \notin S}}
<1>1. IsFiniteSet(1 .. n)
  BY FS_Interval
<1>2. IsWellFoundedOn(R, SUBSET (1 .. n))
  BY <1>1, FS_StrictSubsetOrderingWellFounded, FS_FiniteSubsetsOfFinite
<1>3. T \subseteq SUBSET (1 .. n) /\ 1 .. n \in T
  OBVIOUS
<1>4. T # {}
  BY <1>3
<1> HIDE DEF T
<1>5. PICK X \in T : \A Y \in T : <<Y, X>> \notin R
  BY <1>2, <1>3, <1>4, WFMin
<1>6. PICK k \in 0 .. n : k \notin S /\ X = 1 .. k
  BY DEF T
<1>7. k # 0
  BY <1>6
<1>8. k - 1 \in 0 .. n /\ k - 1 \notin S
  BY <1>6, <1>7
<1>9. 1 .. (k - 1) \in T
  BY <1>8 DEF T
<1>10. <<1 .. (k - 1), X>> \in R
  <2>1. 1 .. (k - 1) \subseteq 1 .. k /\ 1 .. (k - 1) # 1 .. k /\ 1 .. k \subseteq 1 .. n
    BY <1>6, <1>7
  <2>2. QED
    BY <2>1, <1>6 DEF StrictSubsetOrdering
<1>11. QED
  BY <1>5, <1>9, <1>10

\* A set of subsets is all of them if it holds each whose proper subsets it holds.
LEMMA SmallestFirst ==
  ASSUME NEW S, IsFiniteSet(S), NEW P,
         \A s \in SUBSET S : (\A t \in SUBSET s : t # s => t \in P) => s \in P
  PROVE  SUBSET S \subseteq P
<1> DEFINE T == (SUBSET S) \ P
<1>1. IsWellFoundedOn(StrictSubsetOrdering(S), SUBSET S)
  BY FS_StrictSubsetOrderingWellFounded, FS_FiniteSubsetsOfFinite
<1>2. ASSUME T # {} PROVE FALSE
  <2>1. PICK s \in T : \A t \in T : <<t, s>> \notin StrictSubsetOrdering(S)
    <3>1. T \subseteq SUBSET S
      OBVIOUS
    <3> HIDE DEF T
    <3>2. QED
      BY <1>1, <1>2, <3>1, WFMin
  <2>2. \A t \in SUBSET s : t # s => t \in P
    BY <2>1 DEF StrictSubsetOrdering
  <2>3. s \in SUBSET S /\ s \notin P
    BY <2>1
  <2>4. s \in P
    BY <2>2, <2>3
  <2>5. QED
    BY <2>3, <2>4
<1>3. QED
  BY <1>2
-----------------------------------------------------------------------------
(***************************************************************************)
(* The recursion behind a sum has one solution on the subsets of a finite  *)
(* set, and a set has the same sum in all of them.                         *)
(***************************************************************************)
First(s) == CHOOSE x \in s : TRUE
Rec(f, S, g) ==
  g = [s \in SUBSET S |-> IF s = {} THEN 0 ELSE f[First(s)] + g[s \ {First(s)}]]

LEMMA Unfold ==
  ASSUME NEW f, NEW S
  PROVE  SumFunctionOnSet(f, S) = (CHOOSE g : Rec(f, S, g))[S]
BY Zenon DEF SumFunctionOnSet, FoldFunctionOnSet, MapThenFoldSet, Rec, First

LEMMA FirstIn == ASSUME NEW s, s # {} PROVE First(s) \in s
BY DEF First

LEMMA RecUnique ==
  ASSUME NEW f, NEW S, IsFiniteSet(S), NEW g, NEW h, Rec(f, S, g), Rec(f, S, h)
  PROVE  g = h
<1> DEFINE P == {s \in SUBSET S : g[s] = h[s]}
<1>1. ASSUME NEW s \in SUBSET S, \A t \in SUBSET s : t # s => t \in P
      PROVE  s \in P
  <2>1. CASE s = {}
    BY <2>1 DEF Rec
  <2>2. CASE s # {}
    <3>1. g[s \ {First(s)}] = h[s \ {First(s)}]
      BY <1>1, <2>2, FirstIn
    <3>2. QED
      BY <2>2, <3>1 DEF Rec
  <2>3. QED
    BY <2>1, <2>2
<1>2. SUBSET S \subseteq P
  <2> HIDE DEF P
  <2> QED BY <1>1, SmallestFirst
<1>3. QED
  BY <1>2 DEF Rec

LEMMA RecRestricts ==
  ASSUME NEW f, NEW S, NEW g, Rec(f, S, g), NEW T \in SUBSET S
  PROVE  Rec(f, T, [t \in SUBSET T |-> g[t]])
<1> DEFINE h == [t \in SUBSET T |-> g[t]]
<1>1. ASSUME NEW t \in SUBSET T
      PROVE  h[t] = IF t = {} THEN 0 ELSE f[First(t)] + h[t \ {First(t)}]
  BY <1>1 DEF Rec
<1>2. QED
  BY <1>1, Zenon DEF Rec

\* Below a set every set has its recursive sum.
LEMMA SumBelow ==
  ASSUME NEW f, NEW S, IsFiniteSet(S), NEW g, Rec(f, S, g), NEW t \in SUBSET S
  PROVE  SumFunctionOnSet(f, t) = g[t]
<1> DEFINE h == [s \in SUBSET t |-> g[s]]
<1>1. Rec(f, t, h)
  BY RecRestricts
<1>2. IsFiniteSet(t)
  BY FS_Subset
<1> HIDE DEF h
<1>3. Rec(f, t, CHOOSE k : Rec(f, t, k))
  BY <1>1
<1>4. h = CHOOSE k : Rec(f, t, k)
  BY <1>1, <1>2, <1>3, RecUnique
<1>5. QED
  BY <1>4, Unfold DEF h

LEMMA RecExists ==
  ASSUME NEW f, NEW S, IsFiniteSet(S)
  PROVE  \E g : Rec(f, S, g)
<1> DEFINE P == {s \in SUBSET S : \E g : Rec(f, s, g)}
           val(u) == SumFunctionOnSet(f, u)
<1>1. ASSUME NEW s \in SUBSET S, \A t \in SUBSET s : t # s => t \in P
      PROVE  s \in P
  <2> DEFINE G == [u \in SUBSET s |-> IF u = {} THEN 0 ELSE f[First(u)] + val(u \ {First(u)})]
  <2>1. ASSUME NEW w \in SUBSET s, w # s
        PROVE  G[w] = val(w)
    <3>1. PICK g : Rec(f, w, g)
      BY <1>1, <2>1
    <3>2. IsFiniteSet(w)
      BY FS_Subset
    <3>3. val(w) = g[w]
      BY <3>1, <3>2, SumBelow
    <3>4. CASE w = {}
      BY <3>1, <3>3, <3>4 DEF Rec
    <3>5. CASE w # {}
      <4>1. val(w \ {First(w)}) = g[w \ {First(w)}]
        BY <3>1, <3>2, SumBelow
      <4>2. g[w] = f[First(w)] + g[w \ {First(w)}]
        BY <3>1, <3>5 DEF Rec
      <4>3. QED
        BY <2>1, <3>3, <3>5, <4>1, <4>2
    <3>6. QED
      BY <3>4, <3>5
  <2>2. ASSUME NEW u \in SUBSET s
        PROVE  G[u] = IF u = {} THEN 0 ELSE f[First(u)] + G[u \ {First(u)}]
    <3>1. CASE u = {}
      BY <3>1
    <3>2. CASE u # {}
      <4>1. First(u) \in u
        BY <3>2, FirstIn
      <4>2. G[u \ {First(u)}] = val(u \ {First(u)})
        BY <2>1, <4>1
      <4>3. QED
        BY <3>2, <4>2
    <3>3. QED
      BY <3>1, <3>2
  <2>3. Rec(f, s, G)
    <3>1. G = [u \in SUBSET s |-> IF u = {} THEN 0 ELSE f[First(u)] + G[u \ {First(u)}]]
      <4> DEFINE H == [u \in SUBSET s |-> IF u = {} THEN 0 ELSE f[First(u)] + G[u \ {First(u)}]]
      <4>1. \A u \in SUBSET s : G[u] = H[u]
        <5> HIDE DEF G
        <5> QED BY <2>2
      <4>2. G = H
        BY <4>1
      <4>3. QED
        BY <4>2
    <3>2. QED
      BY <3>1 DEF Rec
  <2> HIDE DEF G
  <2>4. QED
    BY <2>3
<1>2. SUBSET S \subseteq P
  <2> HIDE DEF P
  <2> QED BY <1>1, SmallestFirst
<1>3. QED
  BY <1>2
-----------------------------------------------------------------------------
(***************************************************************************)
(* Sums.                                                                   *)
(***************************************************************************)
LEMMA SumOfNone ==
  ASSUME NEW f
  PROVE  SumFunctionOnSet(f, {}) = 0
<1>1. PICK g : Rec(f, {}, g)
  BY RecExists, FS_EmptySet
<1>2. SumFunctionOnSet(f, {}) = g[{}]
  BY <1>1, SumBelow, FS_EmptySet
<1>3. QED
  BY <1>1, <1>2 DEF Rec

LEMMA SumOfFirst ==
  ASSUME NEW f, NEW S, IsFiniteSet(S), S # {}
  PROVE  SumFunctionOnSet(f, S) = f[First(S)] + SumFunctionOnSet(f, S \ {First(S)})
<1>1. PICK g : Rec(f, S, g)
  BY RecExists
<1>2. SumFunctionOnSet(f, S) = g[S] /\ SumFunctionOnSet(f, S \ {First(S)}) = g[S \ {First(S)}]
  BY <1>1, SumBelow
<1>3. QED
  BY <1>1, <1>2 DEF Rec

LEMMA SumIsInt ==
  ASSUME NEW f, NEW S, IsFiniteSet(S), \A x \in S : f[x] \in Int
  PROVE  SumFunctionOnSet(f, S) \in Int
<1> DEFINE P == {s \in SUBSET S : SumFunctionOnSet(f, s) \in Int}
<1>1. ASSUME NEW s \in SUBSET S, \A t \in SUBSET s : t # s => t \in P
      PROVE  s \in P
  <2>1. CASE s = {}
    BY <2>1, SumOfNone
  <2>2. CASE s # {}
    <3>1. First(s) \in s
      BY <2>2, FirstIn
    <3>2. SumFunctionOnSet(f, s) = f[First(s)] + SumFunctionOnSet(f, s \ {First(s)})
      BY <2>2, SumOfFirst, FS_Subset
    <3>3. s \ {First(s)} \in P
      BY <1>1, <3>1
    <3>4. QED
      BY <3>1, <3>2, <3>3
  <2>3. QED
    BY <2>1, <2>2
<1>2. SUBSET S \subseteq P
  <2> HIDE DEF P
  <2> QED BY <1>1, SmallestFirst
<1>3. QED
  BY <1>2

\* A sum is any one of its summands and the sum of the rest, although the fold takes them
\* in an order of its own.
LEMMA SumTakesOut ==
  ASSUME NEW f, NEW S, IsFiniteSet(S), \A y \in S : f[y] \in Int, NEW x \in S
  PROVE  SumFunctionOnSet(f, S) = f[x] + SumFunctionOnSet(f, S \ {x})
<1> DEFINE sum(s) == SumFunctionOnSet(f, s)
           P == {s \in SUBSET S : \A y \in s : sum(s) = f[y] + sum(s \ {y})}
<1>1. ASSUME NEW s \in SUBSET S, \A t \in SUBSET s : t # s => t \in P
      PROVE  s \in P
  <2> SUFFICES ASSUME NEW y \in s PROVE sum(s) = f[y] + sum(s \ {y})
    OBVIOUS
  <2> DEFINE c == First(s)
             rest == (s \ {y}) \ {c}
  <2>1. c \in s
    BY FirstIn
  <2>2. sum(s) = f[c] + sum(s \ {c})
    BY SumOfFirst, FS_Subset
  <2>3. CASE y = c
    BY <2>2, <2>3
  <2>4. CASE y # c
    <3>1. s \ {c} \in P /\ s \ {y} \in P
      BY <1>1, <2>1
    <3>2. y \in s \ {c} /\ c \in s \ {y}
      BY <2>1, <2>4
    <3>3. (s \ {c}) \ {y} = rest
      OBVIOUS
    <3>4. sum(s \ {c}) = f[y] + sum(rest) /\ sum(s \ {y}) = f[c] + sum(rest)
      BY <3>1, <3>2, <3>3
    <3>5. sum(rest) \in Int
      BY SumIsInt, FS_Subset
    <3>6. f[y] \in Int /\ f[c] \in Int
      BY <2>1
    <3> HIDE DEF sum, rest, c
    <3>7. QED
      BY <2>2, <3>4, <3>5, <3>6
  <2>5. QED
    BY <2>3, <2>4
<1>2. SUBSET S \subseteq P
  <2> HIDE DEF P
  <2> QED BY <1>1, SmallestFirst
<1>3. QED
  BY <1>2

\* Only the summands matter.
LEMMA SumDependsOn ==
  ASSUME NEW f, NEW g, NEW S, IsFiniteSet(S), \A x \in S : f[x] = g[x]
  PROVE  SumFunctionOnSet(f, S) = SumFunctionOnSet(g, S)
<1> DEFINE P == {s \in SUBSET S : SumFunctionOnSet(f, s) = SumFunctionOnSet(g, s)}
<1>1. ASSUME NEW s \in SUBSET S, \A t \in SUBSET s : t # s => t \in P
      PROVE  s \in P
  <2>1. CASE s = {}
    BY <2>1, SumOfNone
  <2>2. CASE s # {}
    <3>1. First(s) \in s
      BY <2>2, FirstIn
    <3>2. s \ {First(s)} \in P
      BY <1>1, <3>1
    <3>3. QED
      BY <2>2, <3>1, <3>2, SumOfFirst, FS_Subset
  <2>3. QED
    BY <2>1, <2>2
<1>2. SUBSET S \subseteq P
  <2> HIDE DEF P
  <2> QED BY <1>1, SmallestFirst
<1>3. QED
  BY <1>2

\* One summand changes.
LEMMA SumChanges ==
  ASSUME NEW f, NEW g, NEW S, IsFiniteSet(S), NEW x \in S,
         \A y \in S : f[y] \in Int /\ g[y] \in Int,
         \A y \in S : y # x => f[y] = g[y]
  PROVE  SumFunctionOnSet(g, S) = SumFunctionOnSet(f, S) + (g[x] - f[x])
<1>1. IsFiniteSet(S \ {x})
  BY FS_Subset
<1>2. SumFunctionOnSet(f, S \ {x}) = SumFunctionOnSet(g, S \ {x})
  BY <1>1, SumDependsOn
<1>3. SumFunctionOnSet(f, S) = f[x] + SumFunctionOnSet(f, S \ {x})
  BY SumTakesOut
<1>4. SumFunctionOnSet(g, S) = g[x] + SumFunctionOnSet(g, S \ {x})
  BY SumTakesOut
<1>5. SumFunctionOnSet(f, S \ {x}) \in Int
  BY <1>1, SumIsInt
<1>6. QED
  BY <1>2, <1>3, <1>4, <1>5

\* A sum of summands no smaller than c.
LEMMA SumAtLeast ==
  ASSUME NEW f, NEW S, IsFiniteSet(S), NEW c \in Int,
         \A x \in S : f[x] \in Int /\ f[x] >= c
  PROVE  SumFunctionOnSet(f, S) >= c * Cardinality(S)
<1> DEFINE P == {s \in SUBSET S : SumFunctionOnSet(f, s) >= c * Cardinality(s)}
<1>1. ASSUME NEW s \in SUBSET S, \A t \in SUBSET s : t # s => t \in P
      PROVE  s \in P
  <2>1. CASE s = {}
    BY <2>1, SumOfNone, FS_EmptySet
  <2>2. CASE s # {}
    <3>1. First(s) \in s
      BY <2>2, FirstIn
    <3> DEFINE t == s \ {First(s)}
    <3>2. IsFiniteSet(s) /\ IsFiniteSet(t)
      BY FS_Subset
    <3>3. SumFunctionOnSet(f, t) >= c * Cardinality(t)
      BY <1>1, <3>1
    <3>4. SumFunctionOnSet(f, s) = f[First(s)] + SumFunctionOnSet(f, t)
      BY <2>2, <3>2, SumOfFirst
    <3>5. Cardinality(t) = Cardinality(s) - 1 /\ Cardinality(s) \in Nat
      BY <3>1, <3>2, FS_RemoveElement, FS_CardinalityType
    <3>6. c * Cardinality(s) = c + c * Cardinality(t) /\ c * Cardinality(t) \in Int
      <4> DEFINE n == Cardinality(s)
      <4>1. n \in Int /\ Cardinality(t) = n - 1
        BY <3>5
      <4> HIDE DEF n
      <4>2. c * n = c + c * (n - 1) /\ c * (n - 1) \in Int
        BY <4>1
      <4>3. QED
        BY <4>1, <4>2 DEF n
    <3>7. SumFunctionOnSet(f, t) \in Int /\ f[First(s)] \in Int /\ f[First(s)] >= c
      BY <3>1, <3>2, SumIsInt
    <3>8. SumFunctionOnSet(f, s) >= c * Cardinality(s)
      <4> HIDE DEF t
      <4> QED BY <3>3, <3>4, <3>6, <3>7
    <3>9. QED
      BY <3>8
  <2>3. QED
    BY <2>1, <2>2
<1>2. SUBSET S \subseteq P
  <2> HIDE DEF P
  <2> QED BY <1>1, SmallestFirst
<1>3. QED
  BY <1>2

LEMMA SumOfZeros ==
  ASSUME NEW f, NEW S, IsFiniteSet(S), \A x \in S : f[x] = 0
  PROVE  SumFunctionOnSet(f, S) = 0
<1> DEFINE P == {s \in SUBSET S : SumFunctionOnSet(f, s) = 0}
<1>1. ASSUME NEW s \in SUBSET S, \A t \in SUBSET s : t # s => t \in P
      PROVE  s \in P
  <2>1. CASE s = {}
    BY <2>1, SumOfNone
  <2>2. CASE s # {}
    <3>1. First(s) \in s
      BY <2>2, FirstIn
    <3>2. s \ {First(s)} \in P
      BY <1>1, <3>1
    <3>3. QED
      BY <2>2, <3>1, <3>2, SumOfFirst, FS_Subset
  <2>3. QED
    BY <2>1, <2>2
<1>2. SUBSET S \subseteq P
  <2> HIDE DEF P
  <2> QED BY <1>1, SmallestFirst
<1>3. QED
  BY <1>2

LEMMA SumIsNat ==
  ASSUME NEW f, NEW S, IsFiniteSet(S), \A x \in S : f[x] \in Nat
  PROVE  SumFunctionOnSet(f, S) \in Nat
<1>1. SumFunctionOnSet(f, S) >= 0 * Cardinality(S)
  BY SumAtLeast
<1>2. SumFunctionOnSet(f, S) \in Int /\ Cardinality(S) \in Int
  BY SumIsInt, FS_CardinalityType
<1>3. QED
  BY <1>1, <1>2
-----------------------------------------------------------------------------
(***************************************************************************)
(* The least of a finite set, by a measure.                                *)
(***************************************************************************)
\* A finite set has an element that is least by an integer measure.
LEMMA LeastExists ==
  ASSUME NEW f, NEW S, IsFiniteSet(S), S # {}, \A x \in S : f[x] \in Int
  PROVE  \E x \in S : \A y \in S : f[x] <= f[y]
<1> DEFINE least(s) == \E x \in s : \A y \in s : f[x] <= f[y]
           P == {s \in SUBSET S : s # {} => least(s)}
<1>1. ASSUME NEW s \in SUBSET S, \A t \in SUBSET s : t # s => t \in P
      PROVE  s \in P
  <2> SUFFICES ASSUME s # {} PROVE least(s)
    OBVIOUS
  <2>1. First(s) \in s
    BY FirstIn
  <2>2. CASE s = {First(s)}
    <3>1. \A y \in s : f[First(s)] <= f[y]
      BY <2>1, <2>2
    <3>2. QED
      BY <2>1, <3>1
  <2>3. CASE s # {First(s)}
    <3>1. least(s \ {First(s)})
      <4>1. s \ {First(s)} \in P
        BY <1>1, <2>1
      <4>2. s \ {First(s)} # {}
        BY <2>1, <2>3
      <4>3. QED
        BY <4>1, <4>2
    <3>2. PICK m \in s \ {First(s)} : \A y \in s \ {First(s)} : f[m] <= f[y]
      BY <3>1
    <3>3. f[m] \in Int /\ f[First(s)] \in Int
      BY <2>1, <3>2
    <3>4. CASE f[m] <= f[First(s)]
      BY <3>2, <3>4
    <3>5. CASE ~(f[m] <= f[First(s)])
      <4>1. ASSUME NEW y \in s PROVE f[First(s)] <= f[y]
        <5>1. CASE y = First(s)
          BY <3>3, <5>1
        <5>2. CASE y # First(s)
          <6>1. f[m] <= f[y] /\ f[y] \in Int
            BY <3>2, <5>2
          <6>2. QED
            BY <3>3, <3>5, <6>1
        <5>3. QED
          BY <5>1, <5>2
      <4>2. QED
        BY <2>1, <4>1
    <3>6. QED
      BY <3>4, <3>5
  <2>4. QED
    BY <2>2, <2>3
<1>2. SUBSET S \subseteq P
  <2> HIDE DEF P
  <2> QED BY <1>1, SmallestFirst
<1>3. QED
  BY <1>2

LEMMA MaxIsLargest ==
  ASSUME NEW S, IsFiniteSet(S), S # {}, \A x \in S : x \in Int
  PROVE  Max(S) \in S /\ \A x \in S : x <= Max(S)
<1> DEFINE f == [x \in S |-> -x]
<1>1. \A x \in S : f[x] \in Int
  OBVIOUS
<1>2. PICK m \in S : \A y \in S : f[m] <= f[y]
  <2> HIDE DEF f
  <2> QED BY <1>1, LeastExists
<1>3. \A y \in S : m >= y
  BY <1>2
<1>4. QED
  BY <1>3 DEF Max

\* A set of naturals has a least element.
LEMMA Least ==
  ASSUME NEW T, T \subseteq Nat, T # {}
  PROVE  \E x \in T : \A y \in T : x <= y
<1>1. \A x \in T : x \in Nat
  OBVIOUS
<1>2. PICK n : n \in T /\ n \in Nat
  OBVIOUS
<1> DEFINE S == {x \in T : x <= n}
           f == [x \in S |-> x]
<1>3. IsFiniteSet(S)
  <2>1. \A x \in S : x \in 0 .. n
    BY <1>1, <1>2
  <2>2. S \subseteq 0 .. n
    BY <2>1
  <2>3. IsFiniteSet(0 .. n)
    BY <1>2, FS_Interval
  <2>4. QED
    BY <2>2, <2>3, FS_Subset
<1>4. n \in S /\ \A x \in S : f[x] = x /\ x \in Int
  BY <1>1, <1>2
<1>5. PICK m \in S : \A y \in S : f[m] <= f[y]
  <2> HIDE DEF S, f
  <2>1. S # {} /\ \A x \in S : f[x] \in Int
    BY <1>4
  <2>2. QED
    BY <1>3, <2>1, LeastExists
<1>6. \A y \in S : m <= y
  BY <1>4, <1>5
<1>7. ASSUME NEW y \in T PROVE m <= y
  <2>1. y \in Nat /\ m \in Nat /\ m <= n
    BY <1>1
  <2>2. CASE y <= n
    BY <1>6, <2>2
  <2>3. CASE y > n
    BY <1>2, <2>1, <2>3
  <2>4. QED
    BY <1>2, <2>1, <2>2, <2>3
<1>8. QED
  BY <1>7

\* Where each of finitely many has a finite set of numbers, and no two share one, somebody
\* has most of them, and of those with most the one who has the smallest.
LEMMA FavouriteExists ==
  ASSUME NEW D, IsFiniteSet(D), NEW V,
         \A d \in D : V[d] \subseteq Nat /\ IsFiniteSet(V[d]),
         \A d, e \in D : d # e => V[d] \cap V[e] = {},
         \E d \in D : V[d] # {}
  PROVE  \E d \in D :
           /\ V[d] # {}
           /\ \A e \in D \ {d} : V[e] # {} =>
                \/ Cardinality(V[d]) > Cardinality(V[e])
                \/ /\ Cardinality(V[d]) = Cardinality(V[e])
                   /\ \E i \in V[d] : \A j \in V[e] : i < j
<1> DEFINE N == {d \in D : V[d] # {}}
           few == [d \in D |-> -Cardinality(V[d])]
<1>1. \A d \in D : Cardinality(V[d]) \in Nat
  BY FS_CardinalityType
<1>2. IsFiniteSet(N) /\ N # {} /\ \A d \in N : few[d] \in Int
  BY <1>1, FS_Subset
<1>3. PICK c \in N : \A e \in N : few[c] <= few[e]
  <2> HIDE DEF N, few
  <2> QED BY <1>2, LeastExists
<1>4. \A e \in N : Cardinality(V[c]) >= Cardinality(V[e])
  <2>1. \A e \in N : -Cardinality(V[c]) <= -Cardinality(V[e])
    BY <1>3
  <2>2. QED
    BY <1>1, <2>1
<1> DEFINE M == {e \in N : Cardinality(V[e]) = Cardinality(V[c])}
           U == UNION {V[e] : e \in M}
<1>5. U \subseteq Nat /\ U # {}
  BY <1>3
<1>6. \E i \in U : \A j \in U : i <= j
  <2> HIDE DEF U
  <2> QED BY <1>5, Least
<1>7. PICK i \in U : \A j \in U : i <= j
  BY <1>6
<1>8. PICK d \in M : i \in V[d]
  OBVIOUS
<1>9. ASSUME NEW e \in D \ {d}, V[e] # {}
      PROVE  \/ Cardinality(V[d]) > Cardinality(V[e])
             \/ Cardinality(V[d]) = Cardinality(V[e]) /\ \A j \in V[e] : i < j
  <2>1. CASE e \in M
    <3>1. ASSUME NEW j \in V[e] PROVE i < j
      <4>1. i <= j
        BY <1>7, <2>1
      <4>2. i # j
        BY <1>8, <1>9
      <4>3. i \in Nat /\ j \in Nat
        BY <1>5, <1>9
      <4>4. QED
        BY <4>1, <4>2, <4>3
    <3>2. QED
      BY <2>1, <3>1
  <2>2. CASE e \notin M
    <3>1. Cardinality(V[c]) >= Cardinality(V[e]) /\ Cardinality(V[e]) # Cardinality(V[c])
          /\ Cardinality(V[d]) = Cardinality(V[c])
      BY <1>4, <1>9, <2>2
    <3>2. QED
      BY <1>1, <3>1
  <2>3. QED
    BY <2>1, <2>2
<1>10. QED
  BY <1>8, <1>9

\* A quotient that is rounded to even is at most a bound of the quotient.
LEMMA RoundedIsBounded ==
  ASSUME NEW a \in Nat, NEW b \in Nat \ {0}, NEW k \in Nat, a <= k * b
  PROVE  (IF 2 * (a % b) < b \/ (2 * (a % b) = b /\ (a \div b) % 2 = 0)
          THEN a \div b ELSE a \div b + 1) \in 0 .. k
<1> DEFINE q == a \div b
           r == a % b
<1>1. q \in Int /\ r \in 0 .. b - 1 /\ a = b * q + r
  OBVIOUS
<1> HIDE DEF q, r
<1>2. q >= 0
  <2>1. \A x, y \in Int : x > 0 /\ y <= -1 => x * y <= -x
    OBVIOUS
  <2>2. CASE q <= -1
    <3>1. b * q <= -b
      BY <2>1, <2>2, <1>1
    <3>2. b * q \in Int
      BY <1>1
    <3>3. a < 0
      BY <1>1, <3>1, <3>2
    <3>4. QED
      BY <3>3
  <2>3. QED
    BY <1>1, <2>2
<1>3. q < k \/ (q = k /\ r = 0)
  <2>1. \A x, y, z \in Int : x > 0 /\ y >= z + 1 => x * y >= z * x + x
    OBVIOUS
  <2>2. b * q \in Int /\ k * b \in Int /\ b * q + r <= k * b
    BY <1>1
  <2>3. CASE q >= k + 1
    <3>1. b * q >= k * b + b
      BY <1>1, <2>1, <2>3
    <3>2. QED
      BY <1>1, <2>2, <3>1
  <2>4. CASE q = k
    <3>1. b * q = k * b
      BY <2>4
    <3>2. QED
      BY <1>1, <2>2, <2>4, <3>1
  <2>5. QED
    BY <1>1, <2>3, <2>4
<1>4. (IF 2 * r < b \/ (2 * r = b /\ q % 2 = 0) THEN q ELSE q + 1) \in 0 .. k
  <2>1. CASE q < k
    BY <1>1, <1>2, <2>1
  <2>2. CASE q = k /\ r = 0
    BY <2>2
  <2>3. QED
    BY <1>3, <2>1, <2>2
<1>5. QED
  BY <1>4 DEF q, r

\* A sum of summands no greater than c.
LEMMA SumAtMost ==
  ASSUME NEW f, NEW S, IsFiniteSet(S), NEW c \in Int,
         \A x \in S : f[x] \in Int /\ f[x] <= c
  PROVE  SumFunctionOnSet(f, S) <= c * Cardinality(S)
<1> DEFINE P == {s \in SUBSET S : SumFunctionOnSet(f, s) <= c * Cardinality(s)}
<1>1. ASSUME NEW s \in SUBSET S, \A t \in SUBSET s : t # s => t \in P
      PROVE  s \in P
  <2>1. CASE s = {}
    BY <2>1, SumOfNone, FS_EmptySet
  <2>2. CASE s # {}
    <3>1. First(s) \in s
      BY <2>2, FirstIn
    <3> DEFINE t == s \ {First(s)}
    <3>2. IsFiniteSet(s) /\ IsFiniteSet(t)
      BY FS_Subset
    <3>3. SumFunctionOnSet(f, t) <= c * Cardinality(t)
      BY <1>1, <3>1
    <3>4. SumFunctionOnSet(f, s) = f[First(s)] + SumFunctionOnSet(f, t)
      BY <2>2, <3>2, SumOfFirst
    <3>5. Cardinality(t) = Cardinality(s) - 1 /\ Cardinality(s) \in Nat
      BY <3>1, <3>2, FS_RemoveElement, FS_CardinalityType
    <3>6. c * Cardinality(s) = c + c * Cardinality(t) /\ c * Cardinality(t) \in Int
      <4> DEFINE n == Cardinality(s)
      <4>1. n \in Int /\ Cardinality(t) = n - 1
        BY <3>5
      <4> HIDE DEF n
      <4>2. c * n = c + c * (n - 1) /\ c * (n - 1) \in Int
        BY <4>1
      <4>3. QED
        BY <4>1, <4>2 DEF n
    <3>7. SumFunctionOnSet(f, t) \in Int /\ f[First(s)] \in Int /\ f[First(s)] <= c
      BY <3>1, <3>2, SumIsInt
    <3>8. SumFunctionOnSet(f, s) <= c * Cardinality(s)
      <4> HIDE DEF t
      <4> QED BY <3>3, <3>4, <3>6, <3>7
    <3>9. QED
      BY <3>8
  <2>3. QED
    BY <2>1, <2>2
<1>2. SUBSET S \subseteq P
  <2> HIDE DEF P
  <2> QED BY <1>1, SmallestFirst
<1>3. QED
  BY <1>2

\* Ten times the sum of scores is at most a thousand times their number.
LEMMA MeanIsBounded ==
  ASSUME NEW f, NEW S, IsFiniteSet(S), S # {}, \A x \in S : f[x] \in 0 .. 100
  PROVE  /\ 10 * SumFunctionOnSet(f, S) \in Nat /\ Cardinality(S) \in Nat \ {0}
         /\ 10 * SumFunctionOnSet(f, S) <= 1000 * Cardinality(S)
<1>1. SumFunctionOnSet(f, S) \in Nat
  BY SumIsNat
<1>2. SumFunctionOnSet(f, S) <= 100 * Cardinality(S)
  BY SumAtMost
<1>3. Cardinality(S) \in Nat \ {0}
  BY FS_CardinalityType, FS_EmptySet
<1>4. QED
  BY <1>1, <1>2, <1>3
=============================================================================
