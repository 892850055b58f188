----------------------------- MODULE FiniteSums -----------------------------
(***************************************************************************)
(* Sums over finite sets: what SumFunctionOnSet of the community modules   *)
(* is, for every finite set, proved from the smallest subset of which it   *)
(* would not hold.                                                         *)
(***************************************************************************)
EXTENDS Integers, FiniteSets, Functions, FiniteSetTheorems, WellFoundedInduction, TLAPS

\* Every set of subsets of a finite set has a smallest one.
LEMMA SmallestSubset ==
  ASSUME NEW S, IsFiniteSet(S), NEW T, T \subseteq SUBSET S, T # {}
  PROVE  \E x \in T : \A y \in T : y \subseteq x => y = x
<1>1. IsWellFoundedOn(StrictSubsetOrdering(S), SUBSET S)
  BY FS_StrictSubsetOrderingWellFounded, FS_FiniteSubsetsOfFinite
<1>2. \E x \in T : \A y \in T : ~ (<<y, x>> \in StrictSubsetOrdering(S))
  BY <1>1, WFMin
<1> QED
  BY <1>2 DEF StrictSubsetOrdering

Pick(s) == CHOOSE x \in s : TRUE

\* The equation of the fold, on the subsets of S.
FoldOf(g, f, S) ==
  g = [s \in SUBSET S |-> IF s = {} THEN 0 ELSE f[Pick(s)] + g[s \ {Pick(s)}]]

LEMMA FoldEquation ==
  ASSUME NEW f, NEW S
  PROVE  SumFunctionOnSet(f, S) = (CHOOSE g : FoldOf(g, f, S))[S]
  BY DEF SumFunctionOnSet, FoldFunctionOnSet, MapThenFoldSet, FoldOf, Pick

LEMMA PickElement == ASSUME NEW s, s # {} PROVE Pick(s) \in s
  BY DEF Pick

\* Two such functions agree where both are defined.
LEMMA FoldUnique ==
  ASSUME NEW f, NEW S, IsFiniteSet(S), NEW U \in SUBSET S, NEW W \in SUBSET S,
         NEW g, FoldOf(g, f, U), NEW h, FoldOf(h, f, W)
  PROVE  \A s \in SUBSET (U \cap W) : g[s] = h[s]
<1> DEFINE T == {s \in SUBSET (U \cap W) : g[s] # h[s]}
<1>1. SUFFICES ASSUME T # {} PROVE FALSE
  OBVIOUS
<1>2. PICK s \in T : \A y \in T : y \subseteq s => y = s
  <2>1. T \subseteq SUBSET S
    OBVIOUS
  <2> HIDE DEF T
  <2> QED
    BY <1>1, <2>1, SmallestSubset
<1>3. s # {}
  BY DEF FoldOf
<1> DEFINE p == Pick(s)
<1>4. p \in s
  BY <1>3, PickElement
<1>5. s \ {p} \notin T /\ s \ {p} \in SUBSET (U \cap W)
  BY <1>2, <1>4
<1>6. g[s] = f[p] + g[s \ {p}] /\ h[s] = f[p] + h[s \ {p}]
  BY <1>3 DEF FoldOf
<1> QED
  BY <1>5, <1>6

\* There is one.
LEMMA FoldExists ==
  ASSUME NEW f, NEW S, IsFiniteSet(S)
  PROVE  \E g : FoldOf(g, f, S)
<1> DEFINE T == {s \in SUBSET S : ~ \E g : FoldOf(g, f, s)}
           V(s) == (CHOOSE g : FoldOf(g, f, s))[s]
<1>1. SUFFICES ASSUME T # {} PROVE FALSE
  OBVIOUS
<1>2. PICK s \in T : \A y \in T : y \subseteq s => y = s
  <2>1. T \subseteq SUBSET S
    OBVIOUS
  <2> HIDE DEF T
  <2> QED
    BY <1>1, <2>1, SmallestSubset
<1> DEFINE g == [t \in SUBSET s |->
                   IF t = {} THEN 0 ELSE f[Pick(t)] + V(t \ {Pick(t)})]
<1>3. ASSUME NEW t \in SUBSET s, t # s
      PROVE  FoldOf(CHOOSE h : FoldOf(h, f, t), f, t)
  BY <1>2, <1>3
<1>4. ASSUME NEW w \in SUBSET s, w # s
      PROVE  V(w) = g[w]
  <2> DEFINE h == CHOOSE h : FoldOf(h, f, w)
             u == w \ {Pick(w)}
             k == CHOOSE k : FoldOf(k, f, u)
  <2>1. FoldOf(h, f, w) /\ V(w) = h[w]
    BY <1>3, <1>4
  <2>2. CASE w = {}
    BY <2>1, <2>2 DEF FoldOf
  <2>3. CASE w # {}
    <3>1. u \in SUBSET s /\ u # s /\ u \in SUBSET w
      BY <1>4
    <3>2. FoldOf(k, f, u) /\ V(u) = k[u]
      BY <1>3, <3>1
    <3> HIDE DEF h, k
    <3>3. h[u] = k[u]
      BY <2>1, <3>1, <3>2, FoldUnique
    <3>4. h[w] = f[Pick(w)] + h[u]
      BY <2>1, <2>3 DEF FoldOf
    <3>5. g[w] = f[Pick(w)] + V(u)
      BY <2>3, <1>4
    <3> QED
      BY <2>1, <3>2, <3>3, <3>4, <3>5
  <2> QED
    BY <2>2, <2>3
<1>5. ASSUME NEW t \in SUBSET s, t # {}
      PROVE  V(t \ {Pick(t)}) = g[t \ {Pick(t)}]
  <2>1. t \ {Pick(t)} \in SUBSET s /\ t \ {Pick(t)} # s
    BY <1>5, PickElement
  <2> HIDE DEF V, g
  <2> QED
    BY <1>4, <2>1
<1>6. FoldOf(g, f, s)
  <2> HIDE DEF V
  <2>1. \A t \in SUBSET s : g[t] = IF t = {} THEN 0 ELSE f[Pick(t)] + g[t \ {Pick(t)}]
    BY <1>5
  <2> QED
    BY <2>1 DEF FoldOf
<1> QED
  BY <1>2, <1>6

\* What the fold does.
LEMMA SumPick ==
  ASSUME NEW f, NEW S, IsFiniteSet(S)
  PROVE  SumFunctionOnSet(f, S) = IF S = {} THEN 0 ELSE f[Pick(S)] + SumFunctionOnSet(f, S \ {Pick(S)})
<1> DEFINE G(s) == CHOOSE g : FoldOf(g, f, s)
           u == S \ {Pick(S)}
<1>1. IsFiniteSet(u) /\ u \in SUBSET S
  BY FS_RemoveElement
<1>2. FoldOf(G(S), f, S) /\ FoldOf(G(u), f, u)
  BY <1>1, FoldExists
<1>3. SumFunctionOnSet(f, S) = G(S)[S] /\ SumFunctionOnSet(f, u) = G(u)[u]
  BY FoldEquation
<1> HIDE DEF G
<1>4. G(S)[u] = G(u)[u]
  BY <1>1, <1>2, FoldUnique
<1>5. G(S)[S] = IF S = {} THEN 0 ELSE f[Pick(S)] + G(S)[u]
  BY <1>2 DEF FoldOf
<1> QED
  BY <1>3, <1>4, <1>5

\* Any element may be taken out first.
LEMMA SumTake ==
  ASSUME NEW S, IsFiniteSet(S), NEW f, \A x \in S : f[x] \in Int
  PROVE  /\ SumFunctionOnSet(f, {}) = 0
         /\ SumFunctionOnSet(f, S) \in Int
         /\ \A x \in S : SumFunctionOnSet(f, S) = f[x] + SumFunctionOnSet(f, S \ {x})
<1> DEFINE Good(s) == /\ SumFunctionOnSet(f, s) \in Int
                      /\ \A x \in s : SumFunctionOnSet(f, s) = f[x] + SumFunctionOnSet(f, s \ {x})
           T == {s \in SUBSET S : ~Good(s)}
<1>0. SumFunctionOnSet(f, {}) = 0
  BY SumPick, FS_EmptySet
<1>1. ASSUME T # {} PROVE FALSE
  <2>1. PICK s \in T : \A y \in T : y \subseteq s => y = s
    <3>1. T \subseteq SUBSET S
      OBVIOUS
    <3> HIDE DEF T
    <3> QED
      BY <1>1, <3>1, SmallestSubset
  <2>2. \A y \in SUBSET s : y # s => Good(y)
    BY <2>1
  <2>3. s # {}
    <3>1. Good({})
      BY <1>0
    <3> HIDE DEF Good
    <3> QED
      BY <2>1, <3>1
  <2> DEFINE p == Pick(s)
  <2>4. p \in s /\ IsFiniteSet(s) /\ s \in SUBSET S
    BY <2>1, <2>3, PickElement, FS_Subset
  <2>5. SumFunctionOnSet(f, s) = f[p] + SumFunctionOnSet(f, s \ {p})
    BY <2>3, <2>4, SumPick
  <2>6. SumFunctionOnSet(f, s) \in Int
    <3>1. Good(s \ {p}) /\ f[p] \in Int
      BY <2>2, <2>4
    <3> QED
      BY <2>5, <3>1
  <2>7. ASSUME NEW x \in s PROVE SumFunctionOnSet(f, s) = f[x] + SumFunctionOnSet(f, s \ {x})
    <3>1. CASE x = p
      BY <2>5, <3>1
    <3>2. CASE x # p
      <4> DEFINE both == (s \ {p}) \ {x}
      <4>1. both = (s \ {x}) \ {p} /\ x \in s \ {p} /\ p \in s \ {x}
        BY <2>4, <3>2
      <4>2. Good(s \ {p}) /\ Good(s \ {x}) /\ Good(both)
        BY <2>2, <2>4, <4>1
      <4>3. SumFunctionOnSet(f, s \ {p}) = f[x] + SumFunctionOnSet(f, both)
        BY <4>1, <4>2
      <4>4. SumFunctionOnSet(f, s \ {x}) = f[p] + SumFunctionOnSet(f, both)
        BY <4>1, <4>2
      <4>5. f[x] \in Int /\ f[p] \in Int /\ SumFunctionOnSet(f, both) \in Int
        BY <2>4, <4>2
      <4> HIDE DEF both, p
      <4> QED
        BY <2>5, <4>3, <4>4, <4>5
    <3> QED
      BY <3>1, <3>2
  <2> QED
    BY <2>1, <2>6, <2>7
<1>2. Good(S)
  BY <1>1
<1> QED
  BY <1>0, <1>2

\* Only the values on the set matter.
LEMMA SumCongruence ==
  ASSUME NEW S, IsFiniteSet(S), NEW f, NEW g,
         \A x \in S : f[x] = g[x]
  PROVE  SumFunctionOnSet(f, S) = SumFunctionOnSet(g, S)
<1> DEFINE T == {s \in SUBSET S : SumFunctionOnSet(f, s) # SumFunctionOnSet(g, s)}
<1>1. ASSUME T # {} PROVE FALSE
  <2>1. PICK s \in T : \A y \in T : y \subseteq s => y = s
    <3>1. T \subseteq SUBSET S
      OBVIOUS
    <3> HIDE DEF T
    <3> QED
      BY <1>1, <3>1, SmallestSubset
  <2>2. IsFiniteSet(s) /\ s \in SUBSET S
    BY <2>1, FS_Subset
  <2>3. s # {}
    <3>1. SumFunctionOnSet(f, {}) = 0 /\ SumFunctionOnSet(g, {}) = 0
      BY SumPick, FS_EmptySet
    <3> QED
      BY <2>1, <3>1
  <2> DEFINE p == Pick(s)
  <2>4. p \in s
    BY <2>3, PickElement
  <2>5. SumFunctionOnSet(f, s \ {p}) = SumFunctionOnSet(g, s \ {p})
    BY <2>1, <2>4
  <2> HIDE DEF T
  <2>6. SumFunctionOnSet(f, s) = f[p] + SumFunctionOnSet(f, s \ {p}) /\ SumFunctionOnSet(g, s) = g[p] + SumFunctionOnSet(g, s \ {p})
    BY <2>2, <2>3, SumPick
  <2>7. SumFunctionOnSet(f, s) = SumFunctionOnSet(g, s)
    BY <2>2, <2>4, <2>5, <2>6
  <2> QED
    BY <2>1, <2>7 DEF T
<1>2. SumFunctionOnSet(f, S) = SumFunctionOnSet(g, S)
  BY <1>1
<1> QED
  BY <1>2

\* The sum of two functions.
LEMMA SumOfBoth ==
  ASSUME NEW S, IsFiniteSet(S), NEW f, NEW g, NEW h,
         \A x \in S : f[x] \in Int /\ g[x] \in Int /\ h[x] = f[x] + g[x]
  PROVE  SumFunctionOnSet(h, S) = SumFunctionOnSet(f, S) + SumFunctionOnSet(g, S)
<1> DEFINE T == {s \in SUBSET S :
                   SumFunctionOnSet(h, s) # SumFunctionOnSet(f, s) + SumFunctionOnSet(g, s)}
<1>1. ASSUME T # {} PROVE FALSE
  <2>1. PICK s \in T : \A y \in T : y \subseteq s => y = s
    <3>1. T \subseteq SUBSET S
      OBVIOUS
    <3> HIDE DEF T
    <3> QED
      BY <1>1, <3>1, SmallestSubset
  <2>2. IsFiniteSet(s) /\ s \in SUBSET S
    BY <2>1, FS_Subset
  <2>3. \A x \in s : f[x] \in Int /\ g[x] \in Int /\ h[x] \in Int /\ h[x] = f[x] + g[x]
    BY <2>2
  <2>4. PICK p \in s : TRUE
    <3>1. /\ SumFunctionOnSet(f, {}) = 0 /\ SumFunctionOnSet(g, {}) = 0
          /\ SumFunctionOnSet(h, {}) = 0
      BY FS_EmptySet, SumTake
    <3>2. {} \notin T
      BY <3>1
    <3> HIDE DEF T
    <3> QED
      BY <2>1, <3>2
  <2> DEFINE u == s \ {p}
  <2>5. SumFunctionOnSet(h, u) = SumFunctionOnSet(f, u) + SumFunctionOnSet(g, u)
    BY <2>1, <2>4
  <2> HIDE DEF T
  <2>6. IsFiniteSet(u) /\ u \subseteq s
    BY <2>2, FS_Subset
  <2>7. /\ SumFunctionOnSet(f, u) \in Int /\ SumFunctionOnSet(g, u) \in Int
        /\ SumFunctionOnSet(f, s) = f[p] + SumFunctionOnSet(f, u)
        /\ SumFunctionOnSet(g, s) = g[p] + SumFunctionOnSet(g, u)
        /\ SumFunctionOnSet(h, s) = h[p] + SumFunctionOnSet(h, u)
    <3>1. \A x \in u : f[x] \in Int /\ g[x] \in Int
      BY <2>3, <2>6
    <3> HIDE DEF u
    <3>2. SumFunctionOnSet(f, u) \in Int /\ SumFunctionOnSet(g, u) \in Int
      BY <2>6, <3>1, SumTake
    <3> QED
      BY <2>2, <2>3, <2>4, <3>2, SumTake DEF u
  <2>8. f[p] \in Int /\ g[p] \in Int /\ h[p] = f[p] + g[p]
    BY <2>3, <2>4
  <2> HIDE DEF u
  <2>9. SumFunctionOnSet(h, s) = SumFunctionOnSet(f, s) + SumFunctionOnSet(g, s)
    BY <2>5, <2>7, <2>8
  <2> QED
    BY <2>1, <2>9 DEF T
<1>2. SumFunctionOnSet(h, S) = SumFunctionOnSet(f, S) + SumFunctionOnSet(g, S)
  BY <1>1
<1> QED
  BY <1>2

\* A sum of numbers is a number, none less than one of them.
LEMMA SumOfNat ==
  ASSUME NEW S, IsFiniteSet(S), NEW f, \A x \in S : f[x] \in Nat
  PROVE  /\ SumFunctionOnSet(f, S) \in Nat
         /\ \A x \in S : f[x] <= SumFunctionOnSet(f, S)
<1> DEFINE T == {s \in SUBSET S : SumFunctionOnSet(f, s) \notin Nat}
<1>1. ASSUME T # {} PROVE FALSE
  <2>1. PICK s \in T : \A y \in T : y \subseteq s => y = s
    <3>1. T \subseteq SUBSET S
      OBVIOUS
    <3> HIDE DEF T
    <3> QED
      BY <1>1, <3>1, SmallestSubset
  <2>2. IsFiniteSet(s) /\ s \in SUBSET S
    BY <2>1, FS_Subset
  <2>3. PICK p \in s : TRUE
    <3>1. SumFunctionOnSet(f, {}) = 0
      BY FS_EmptySet, SumTake
    <3>2. {} \notin T
      BY <3>1
    <3> HIDE DEF T
    <3> QED
      BY <2>1, <3>2
  <2>4. SumFunctionOnSet(f, s \ {p}) \in Nat
    BY <2>1, <2>3
  <2> HIDE DEF T
  <2>5. \A x \in s : f[x] \in Int
    BY <2>2
  <2>6. SumFunctionOnSet(f, s) = f[p] + SumFunctionOnSet(f, s \ {p})
    BY <2>2, <2>3, <2>5, SumTake
  <2>7. SumFunctionOnSet(f, s) \in Nat
    BY <2>2, <2>3, <2>4, <2>6
  <2> QED
    BY <2>1, <2>7 DEF T
<1>2. \A s \in SUBSET S : SumFunctionOnSet(f, s) \in Nat
  BY <1>1
<1> HIDE DEF T
<1>3. ASSUME NEW x \in S PROVE f[x] <= SumFunctionOnSet(f, S)
  <2>1. SumFunctionOnSet(f, S) = f[x] + SumFunctionOnSet(f, S \ {x})
    BY SumTake
  <2>2. SumFunctionOnSet(f, S \ {x}) \in Nat /\ f[x] \in Nat
    BY <1>2
  <2> QED
    BY <2>1, <2>2
<1> QED
  BY <1>2, <1>3

\* One more at one element is one more in the sum.
LEMMA SumOneMore ==
  ASSUME NEW S, IsFiniteSet(S), NEW f, NEW g, NEW p \in S, NEW n \in Int,
         \A x \in S : f[x] \in Int, g[p] = f[p] + n,
         \A x \in S \ {p} : g[x] = f[x]
  PROVE  SumFunctionOnSet(g, S) = SumFunctionOnSet(f, S) + n
<1> DEFINE u == S \ {p}
<1>1. IsFiniteSet(u) /\ \A x \in S : g[x] \in Int
  BY FS_RemoveElement
<1>2. SumFunctionOnSet(g, u) = SumFunctionOnSet(f, u)
  BY <1>1, SumCongruence
<1>3. SumFunctionOnSet(f, u) \in Int
  BY <1>1, SumTake
<1>4. SumFunctionOnSet(f, S) = f[p] + SumFunctionOnSet(f, u)
  BY SumTake
<1>5. SumFunctionOnSet(g, S) = g[p] + SumFunctionOnSet(g, u)
  BY <1>1, SumTake
<1> HIDE DEF u
<1> QED
  BY <1>2, <1>3, <1>4, <1>5

\* Nothing is the sum of nothings.
LEMMA SumOfZeros ==
  ASSUME NEW S, IsFiniteSet(S), NEW f, \A x \in S : f[x] = 0
  PROVE  SumFunctionOnSet(f, S) = 0
<1>1. \A x \in S : f[x] \in Int /\ f[x] = f[x] + f[x]
  OBVIOUS
<1>2. SumFunctionOnSet(f, S) = SumFunctionOnSet(f, S) + SumFunctionOnSet(f, S)
  BY <1>1, SumOfBoth
<1>3. SumFunctionOnSet(f, S) \in Int
  BY <1>1, SumTake
<1>4. \A n \in Int : n = n + n => n = 0
  OBVIOUS
<1> QED
  BY <1>2, <1>3, <1>4

\* A set of numbers has a least one.
LEMMA LeastNumber ==
  ASSUME NEW T, T \subseteq Nat, T # {}
  PROVE  \E n \in T : \A m \in T : n <= m
<1>1. PICK k \in T : TRUE
  OBVIOUS
<1> DEFINE S == 0 .. k
           B == {0 .. n : n \in {m \in T : m <= k}}
<1>2. IsFiniteSet(S)
  BY <1>1, FS_Interval
<1>3. B \subseteq SUBSET S /\ B # {}
  BY <1>1
<1>4. PICK x \in B : \A y \in B : y \subseteq x => y = x
  <2> HIDE DEF B, S
  <2> QED
    BY <1>2, <1>3, SmallestSubset
<1>5. PICK n \in T : n <= k /\ x = 0 .. n
  BY <1>4
<1>6. ASSUME NEW m \in T PROVE n <= m
  <2>1. CASE m > k
    BY <1>1, <1>5, <2>1
  <2>2. CASE m <= k /\ m < n
    <3>1. 0 .. m \in B /\ 0 .. m \subseteq x
      BY <1>5, <2>2
    <3>2. 0 .. m = 0 .. n
      BY <1>4, <1>5, <3>1
    <3>3. n \in 0 .. n /\ n \notin 0 .. m
      BY <2>2
    <3> QED
      BY <3>2, <3>3
  <2> QED
    BY <1>1, <1>5, <2>1, <2>2
<1> QED
  BY <1>6

\* As often as there are numbers from 1 to n, the same.
LEMMA SumOfConstant ==
  ASSUME NEW n \in Nat, NEW c \in Int, NEW f, \A i \in 1 .. n : f[i] = c
  PROVE  SumFunctionOnSet(f, 1 .. n) = n * c
<1> DEFINE T == {k \in 0 .. n : SumFunctionOnSet(f, 1 .. k) # k * c}
<1>1. ASSUME T # {} PROVE FALSE
  <2>1. PICK k \in T : \A m \in T : k <= m
    <3>1. T \subseteq Nat
      OBVIOUS
    <3> HIDE DEF T
    <3> QED
      BY <1>1, <3>1, LeastNumber
  <2>2. k \in Nat /\ k <= n
    OBVIOUS
  <2> DEFINE S == 1 .. k
  <2>3. IsFiniteSet(S) /\ \A i \in S : f[i] \in Int /\ f[i] = c
    BY <2>2, FS_Interval
  <2>4. CASE k = 0
    <3>1. S = {} /\ k * c = 0
      BY <2>4
    <3> HIDE DEF S
    <3>2. SumFunctionOnSet(f, {}) = 0
      BY <2>3, SumTake
    <3> QED
      BY <2>1, <3>1, <3>2 DEF S
  <2>5. CASE k # 0
    <3>1. k \in S /\ S \ {k} = 1 .. k - 1 /\ k - 1 \in 0 .. n /\ k - 1 < k
      BY <2>2, <2>5
    <3>2. SumFunctionOnSet(f, 1 .. k - 1) = (k - 1) * c
      <4>1. k - 1 \notin T
        BY <2>1, <3>1
      <4> QED
        BY <3>1, <4>1
    <3> HIDE DEF S
    <3>3. SumFunctionOnSet(f, S) = f[k] + SumFunctionOnSet(f, S \ {k})
      BY <2>3, <3>1, SumTake
    <3>4. SumFunctionOnSet(f, S) = c + (k - 1) * c
      BY <2>3, <3>1, <3>2, <3>3
    <3>5. c + (k - 1) * c = k * c
      BY <2>2
    <3> QED
      BY <2>1, <3>4, <3>5 DEF S
  <2> QED
    BY <2>4, <2>5
<1>2. n \notin T /\ n \in 0 .. n
  BY <1>1
<1> QED
  BY <1>2
=============================================================================
