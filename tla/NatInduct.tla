------------------------------ MODULE NatInduct ------------------------------
(***************************************************************************)
(* Induction over the naturals as facts about sets and functions, for the  *)
(* functions of the models that are defined by recursion.                  *)
(***************************************************************************)
EXTENDS Integers, FiniteSetsExt, FiniteSetTheorems, WellFoundedInduction, TLAPS

Below == {pair \in Nat \X Nat : pair[1] < pair[2]}

LEMMA BelowIsWellFounded == IsWellFoundedOn(Below, Nat)
  <1>1. Below = OpToRel(<, Nat)
    BY DEF Below, OpToRel
  <1>2. QED
    BY <1>1, NatLessThanWellFounded, Zenon

(* A set that holds 0 and every successor of its members holds all of Nat. *)
LEMMA SetInduction ==
    ASSUME NEW S, 0 \in S, \A n \in Nat : n \in S => n + 1 \in S
    PROVE  \A n \in Nat : n \in S
  <1>1. PICK T : T = Nat \ S
    OBVIOUS
  <1>2. SUFFICES ASSUME T # {} PROVE FALSE
    BY <1>1
  <1>3. \E n \in T : \A m \in T : <<m, n>> \notin Below
    BY <1>1, <1>2, BelowIsWellFounded, WFMin
  <1>4. PICK n \in T : \A m \in T : <<m, n>> \notin Below
    BY <1>3
  <1>5. n # 0 /\ n - 1 \in Nat /\ n - 1 < n /\ n = (n - 1) + 1
    BY <1>1
  <1>6. n - 1 \notin T
    BY <1>1, <1>4, <1>5 DEF Below
  <1>7. n \in S
    BY <1>1, <1>5, <1>6
  <1>8. QED
    BY <1>1, <1>7

Iterates(g, V, v, F) == g \in [Nat -> V] /\ g[0] = v /\ \A n \in Nat : g[n + 1] = F[<<n, g[n]>>]

(* A value and a step, which may depend on the index, define a sequence.   *)
LEMMA Iteration ==
    ASSUME NEW V, NEW v \in V, NEW F \in [Nat \X V -> V]
    PROVE  \E g : Iterates(g, V, v, F)
  <1> DEFINE Upto(n, h) == h[0] = v /\ \A i \in 0 .. (n - 1) : h[i + 1] = F[<<i, h[i]>>]
  <1>1. \A n \in Nat : \E h \in [0 .. n -> V] : Upto(n, h)
    <2> DEFINE S == {n \in Nat : \E h \in [0 .. n -> V] : Upto(n, h)}
    <2>1. 0 \in S
      <3>1. [i \in 0 .. 0 |-> v] \in [0 .. 0 -> V] /\ Upto(0, [i \in 0 .. 0 |-> v])
        OBVIOUS
      <3>2. QED
        BY <3>1
    <2>2. ASSUME NEW n \in Nat, n \in S PROVE n + 1 \in S
      <3>1. PICK h \in [0 .. n -> V] : Upto(n, h)
        BY <2>2
      <3> DEFINE k == [i \in 0 .. (n + 1) |-> IF i = n + 1 THEN F[<<n, h[n]>>] ELSE h[i]]
      <3>2. n \in 0 .. n /\ h[n] \in V /\ F[<<n, h[n]>>] \in V
        OBVIOUS
      <3>3. k \in [0 .. (n + 1) -> V]
        BY <3>2
      <3>4. k[0] = v
        BY <3>1
      <3>5. ASSUME NEW i \in 0 .. n PROVE k[i + 1] = F[<<i, k[i]>>]
        <4>1. CASE i = n
          <5>1. n \in 0 .. (n + 1) /\ n + 1 \in 0 .. (n + 1) /\ n # n + 1
            OBVIOUS
          <5>2. k[n] = h[n] /\ k[n + 1] = F[<<n, h[n]>>]
            BY <5>1
          <5>3. QED
            BY <4>1, <5>2
        <4>2. CASE i # n
          <5>1. i \in 0 .. (n - 1) /\ i + 1 \in 0 .. n /\ i + 1 # n + 1
            BY <4>2
          <5>2. QED
            BY <3>1, <5>1
        <4>3. QED
          BY <4>1, <4>2
      <3>6. (n + 1) - 1 = n
        OBVIOUS
      <3> HIDE DEF k
      <3>7. Upto(n + 1, k)
        BY <3>4, <3>5, <3>6
      <3>8. QED
        BY <3>3, <3>7
    <2> HIDE DEF S
    <2>3. \A n \in Nat : n \in S
      BY <2>1, <2>2, SetInduction
    <2>4. QED
      BY <2>3 DEF S
  <1>2. ASSUME NEW n \in Nat, NEW m \in Nat, n <= m, NEW h \in [0 .. n -> V], NEW k \in [0 .. m -> V],
               Upto(n, h), Upto(m, k)
        PROVE  \A i \in 0 .. n : h[i] = k[i]
    <2> DEFINE S == {i \in Nat : i <= n => h[i] = k[i]}
    <2>1. 0 \in S
      BY <1>2
    <2>2. ASSUME NEW i \in Nat, i \in S PROVE i + 1 \in S
      <3>1. SUFFICES ASSUME i + 1 <= n PROVE h[i + 1] = k[i + 1]
        OBVIOUS
      <3>2. i \in 0 .. (n - 1) /\ i \in 0 .. (m - 1) /\ h[i] = k[i]
        BY <1>2, <2>2, <3>1
      <3>3. QED
        BY <1>2, <3>2
    <2> HIDE DEF S
    <2>3. \A i \in Nat : i \in S
      BY <2>1, <2>2, SetInduction
    <2>4. QED
      BY <2>3 DEF S
  <1> DEFINE H(n) == CHOOSE h \in [0 .. n -> V] : Upto(n, h)
             g == [n \in Nat |-> H(n)[n]]
  <1>3. \A n \in Nat : H(n) \in [0 .. n -> V] /\ Upto(n, H(n))
    BY <1>1
  <1> HIDE DEF H, Upto
  <1>4. g \in [Nat -> V]
    BY <1>3
  <1>5. g[0] = v
    BY <1>3 DEF Upto
  <1>6. ASSUME NEW n \in Nat PROVE g[n + 1] = F[<<n, g[n]>>]
    <2>1. H(n)[n] = H(n + 1)[n]
      <3>1. n + 1 \in Nat /\ n <= n + 1 /\ n \in 0 .. n
        OBVIOUS
      <3>2. /\ H(n) \in [0 .. n -> V] /\ Upto(n, H(n))
            /\ H(n + 1) \in [0 .. (n + 1) -> V] /\ Upto(n + 1, H(n + 1))
        BY <1>3, <3>1
      <3>3. \A i \in 0 .. n : H(n)[i] = H(n + 1)[i]
        BY <1>2, <3>1, <3>2
      <3>4. QED
        BY <3>1, <3>3
    <2>2. n \in 0 .. ((n + 1) - 1) /\ n + 1 \in Nat
      OBVIOUS
    <2>3. H(n + 1)[n + 1] = F[<<n, H(n + 1)[n]>>]
      BY <1>3, <2>2 DEF Upto
    <2>4. QED
      BY <2>1, <2>2, <2>3
  <1>7. Iterates(g, V, v, F)
    BY <1>4, <1>5, <1>6 DEF Iterates
  <1>8. QED
    BY <1>7

-----------------------------------------------------------------------------
(* Sums over finite sets, as MapThenSumSet adds them up.                   *)

First(s) == CHOOSE x \in s : TRUE
SumStep(g, f, s) == IF s = {} THEN 0 ELSE f[First(s)] + g[s \ {First(s)}]
AddsUp(g, f, S) == g = [s \in SUBSET S |-> SumStep(g, f, s)]
Sum(f, S) == MapThenSumSet(LAMBDA x : f[x], S)
SumsOf(g, f, S) == g[S] = Sum(f, S) /\ \A s \in SUBSET S : g[s] = SumStep(g, f, s)

(* The recursion of MapThenSumSet, on subsets.                             *)
LEMMA SumIsChosen ==
    ASSUME NEW S, NEW f
    PROVE  Sum(f, S) = (CHOOSE g : AddsUp(g, f, S))[S]
  BY DEF Sum, MapThenSumSet, MapThenFoldSet, AddsUp, SumStep, First

(* Taking out the first element leaves one less.                           *)
LEMMA FirstTaken ==
    ASSUME NEW S, IsFiniteSet(S), NEW s \in SUBSET S, s # {}
    PROVE  /\ First(s) \in s /\ s \ {First(s)} \in SUBSET S
           /\ Cardinality(s) \in Nat \ {0} /\ Cardinality(s \ {First(s)}) = Cardinality(s) - 1
  <1>1. First(s) \in s
    BY DEF First
  <1>2. IsFiniteSet(s)
    BY FS_Subset
  <1>3. Cardinality(s) \in Nat /\ Cardinality(s) # 0
    BY <1>2, FS_CardinalityType, FS_EmptySet
  <1>4. Cardinality(s \ {First(s)}) = Cardinality(s) - 1
    BY <1>1, <1>2, FS_RemoveElement
  <1>5. QED
    BY <1>1, <1>3, <1>4

(* Something that is counted is there.                                    *)
LEMMA NonEmpty ==
    ASSUME NEW s, NEW n \in Nat, Cardinality(s) = n + 1
    PROVE  s # {}
  <1>1. Cardinality({}) = 0
    BY FS_EmptySet
  <1>2. SUFFICES ASSUME s = {} PROVE FALSE
    OBVIOUS
  <1>3. QED
    BY <1>1, <1>2

(* The recursion has a solution: the n-th iterate is right on sets of n.   *)
LEMMA SumExists ==
    ASSUME NEW S, IsFiniteSet(S), NEW f \in [S -> Int]
    PROVE  \E g : AddsUp(g, f, S)
  <1> DEFINE V == [SUBSET S -> Int]
             v == [s \in SUBSET S |-> 0]
             F == [p \in Nat \X V |-> [s \in SUBSET S |-> SumStep(p[2], f, s)]]
  <1>1. v \in V
    OBVIOUS
  <1>2. F \in [Nat \X V -> V]
    <2>1. ASSUME NEW p \in Nat \X V, NEW s \in SUBSET S PROVE SumStep(p[2], f, s) \in Int
      <3>1. CASE s = {}
        BY <3>1 DEF SumsOf, SumStep
      <3>2. CASE s # {}
        <4>1. First(s) \in S /\ s \ {First(s)} \in SUBSET S
          BY <3>2, FirstTaken
        <4>2. f[First(s)] \in Int /\ p[2][s \ {First(s)}] \in Int
          BY <4>1
        <4>3. QED
          BY <3>2, <4>2 DEF SumsOf, SumStep
      <3>3. QED
        BY <3>1, <3>2
    <2>2. QED
      BY <2>1
  <1> HIDE DEF V, F
  <1>3. PICK k : Iterates(k, V, v, F)
    BY <1>1, <1>2, Iteration
  <1> HIDE DEF v
  <1>4. \A n \in Nat : k[n] \in V /\ k[n + 1] = [s \in SUBSET S |-> SumStep(k[n], f, s)]
    BY <1>3 DEF Iterates, F
  <1> DEFINE g == [s \in SUBSET S |-> k[Cardinality(s)][s]]
  <1>5. ASSUME NEW s \in SUBSET S PROVE g[s] = SumStep(g, f, s)
    <2>1. CASE s = {}
      BY <1>1, <1>3, <2>1, FS_EmptySet DEF Iterates, SumStep, v
    <2>2. CASE s # {}
      <3> DEFINE n == Cardinality(s) - 1
                 r == s \ {First(s)}
      <3>0. /\ First(s) \in s /\ s \ {First(s)} \in SUBSET S
            /\ Cardinality(s) \in Nat \ {0} /\ Cardinality(s \ {First(s)}) = Cardinality(s) - 1
        BY <2>2, FirstTaken, Zenon
      <3>1. n \in Nat /\ n + 1 = Cardinality(s) /\ r \in SUBSET S /\ Cardinality(r) = n
        BY <3>0
      <3>2. g[s] = k[n + 1][s] /\ g[r] = k[n][r]
        BY <3>1
      <3> HIDE DEF n, g
      <3>3. k[n + 1][s] = SumStep(k[n], f, s)
        BY <1>4, <3>1
      <3>4. QED
        BY <2>2, <3>2, <3>3 DEF SumsOf, SumStep
    <2>3. QED
      BY <2>1, <2>2
  <1>6. AddsUp(g, f, S)
    BY <1>5 DEF AddsUp
  <1>7. QED
    BY <1>6

(* The sums of all subsets.                                                *)
LEMMA SumsOfSubsets ==
    ASSUME NEW S, IsFiniteSet(S), NEW f \in [S -> Int]
    PROVE  \E g \in [SUBSET S -> Int] : SumsOf(g, f, S)
  <1>1. PICK g : g = CHOOSE h : AddsUp(h, f, S)
    OBVIOUS
  <1>2. AddsUp(g, f, S)
    BY <1>1, SumExists
  <1>3. g = [s \in SUBSET S |-> SumStep(g, f, s)]
    BY <1>2 DEF AddsUp
  <1>4. \A s \in SUBSET S : g[s] = SumStep(g, f, s)
    BY <1>3
  <1> DEFINE T == {n \in Nat : \A s \in SUBSET S : Cardinality(s) = n => g[s] \in Int}
  <1>5. 0 \in T
    <2>1. \A s \in SUBSET S : Cardinality(s) = 0 => s = {}
      BY FirstTaken
    <2>2. \A s \in SUBSET S : Cardinality(s) = 0 => g[s] = 0
      BY <1>4, <2>1 DEF SumsOf, SumStep
    <2>3. QED
      BY <2>2
  <1>6. ASSUME NEW n \in Nat, n \in T PROVE n + 1 \in T
    <2>1. ASSUME NEW s \in SUBSET S, Cardinality(s) = n + 1 PROVE g[s] \in Int
      <3>1. s # {}
        BY <2>1, NonEmpty, Zenon
      <3>2. First(s) \in S /\ s \ {First(s)} \in SUBSET S /\ Cardinality(s \ {First(s)}) = n
        BY <2>1, <3>1, FirstTaken
      <3>3. f[First(s)] \in Int /\ g[s \ {First(s)}] \in Int
        BY <1>6, <3>2
      <3>4. g[s] = f[First(s)] + g[s \ {First(s)}]
        BY <1>4, <3>1 DEF SumsOf, SumStep
      <3>5. QED
        BY <3>3, <3>4
    <2>2. QED
      BY <2>1
  <1> HIDE DEF T
  <1>7. \A n \in Nat : n \in T
    BY <1>5, <1>6, SetInduction
  <1>8. ASSUME NEW s \in SUBSET S PROVE g[s] \in Int
    <2>1. Cardinality(s) \in Nat
      BY FS_Subset, FS_CardinalityType
    <2>2. QED
      BY <1>7, <2>1 DEF T
  <1>9. g \in [SUBSET S -> Int]
    BY <1>3, <1>8
  <1>10. g[S] = Sum(f, S)
    BY <1>1, SumIsChosen
  <1>11. QED
    BY <1>4, <1>9, <1>10 DEF SumsOf

(* Changing one summand changes the sum by as much.                        *)
LEMMA SumChange ==
    ASSUME NEW S, IsFiniteSet(S), NEW f \in [S -> Int], NEW h \in [S -> Int], NEW i \in S,
           \A j \in S \ {i} : h[j] = f[j]
    PROVE  Sum(h, S) = Sum(f, S) + h[i] - f[i] /\ Sum(f, S) \in Int
  <1>1. PICK w : w = h[i]
    OBVIOUS
  <1>2. w \in Int /\ h[i] = w /\ \A j \in S : j # i => h[j] = f[j]
    BY <1>1
  <1>3. PICK g \in [SUBSET S -> Int] : SumsOf(g, f, S)
    BY SumsOfSubsets
  <1>4. PICK k \in [SUBSET S -> Int] : SumsOf(k, h, S)
    BY SumsOfSubsets
  <1> DEFINE Shift(s) == IF i \in s THEN w - f[i] ELSE 0
             T == {n \in Nat : \A s \in SUBSET S : Cardinality(s) = n => k[s] = g[s] + Shift(s)}
  <1>5. 0 \in T
    <2>1. \A s \in SUBSET S : Cardinality(s) = 0 => s = {}
      BY FirstTaken
    <2>2. \A s \in SUBSET S : Cardinality(s) = 0 => s = {} /\ g[s] = 0 /\ k[s] = 0
      BY <1>3, <1>4, <2>1 DEF SumsOf, SumStep
    <2>3. QED
      BY <2>2
  <1>6. ASSUME NEW n \in Nat, n \in T PROVE n + 1 \in T
    <2>1. ASSUME NEW s \in SUBSET S, Cardinality(s) = n + 1 PROVE k[s] = g[s] + Shift(s)
      <3>1. s # {}
        BY <2>1, NonEmpty, Zenon
      <3>2. PICK x : x = First(s)
        OBVIOUS
      <3>3. x \in s /\ x \in S /\ s \ {x} \in SUBSET S /\ Cardinality(s \ {x}) = n
        BY <2>1, <3>1, <3>2, FirstTaken
      <3>4. k[s \ {x}] = g[s \ {x}] + Shift(s \ {x})
        BY <1>6, <3>3
      <3>5. k[s] = h[x] + k[s \ {x}] /\ g[s] = f[x] + g[s \ {x}]
        BY <1>3, <1>4, <3>1, <3>2 DEF SumsOf, SumStep
      <3>6. g[s \ {x}] \in Int /\ f[x] \in Int /\ f[i] \in Int
        BY <3>3
      <3>7. h[x] + Shift(s \ {x}) = f[x] + Shift(s)
        BY <1>2, <3>3, <3>6
      <3>8. h[x] \in Int /\ Shift(s) \in Int /\ Shift(s \ {x}) \in Int
        BY <1>2, <3>3, <3>6
      <3> HIDE DEF Shift
      <3>9. QED
        BY <3>4, <3>5, <3>6, <3>7, <3>8
    <2>2. QED
      BY <2>1
  <1> HIDE DEF T
  <1>7. \A n \in Nat : n \in T
    BY <1>5, <1>6, SetInduction
  <1>8. Cardinality(S) \in Nat
    BY FS_CardinalityType
  <1>9. k[S] = g[S] + Shift(S)
    BY <1>7, <1>8 DEF T
  <1>10. g[S] \in Int /\ f[i] \in Int
    OBVIOUS
  <1>11. QED
    BY <1>1, <1>2, <1>3, <1>4, <1>9, <1>10 DEF SumsOf

(* A sum of naturals is one, and no summand exceeds it.                    *)
LEMMA SumNat ==
    ASSUME NEW S, IsFiniteSet(S), NEW f \in [S -> Nat]
    PROVE  Sum(f, S) \in Nat /\ \A i \in S : f[i] <= Sum(f, S)
  <1>1. ASSUME NEW h \in [S -> Nat] PROVE Sum(h, S) \in Nat
    <2>0. h \in [S -> Int]
      OBVIOUS
    <2>1. PICK g \in [SUBSET S -> Int] : SumsOf(g, h, S)
      BY <2>0, SumsOfSubsets
    <2> DEFINE T == {n \in Nat : \A s \in SUBSET S : Cardinality(s) = n => g[s] \in Nat}
    <2>2. 0 \in T
      <3>1. \A s \in SUBSET S : Cardinality(s) = 0 => s = {}
        BY FirstTaken
      <3>2. \A s \in SUBSET S : Cardinality(s) = 0 => g[s] = 0
        BY <2>1, <3>1 DEF SumsOf, SumStep
      <3>3. QED
        BY <3>2
    <2>3. ASSUME NEW n \in Nat, n \in T PROVE n + 1 \in T
      <3>1. ASSUME NEW s \in SUBSET S, Cardinality(s) = n + 1 PROVE g[s] \in Nat
        <4>1. s # {}
          BY <3>1, NonEmpty, Zenon
        <4>2. First(s) \in S /\ s \ {First(s)} \in SUBSET S /\ Cardinality(s \ {First(s)}) = n
          BY <3>1, <4>1, FirstTaken
        <4>3. h[First(s)] \in Nat /\ g[s \ {First(s)}] \in Nat
          BY <2>3, <4>2
        <4>4. QED
          BY <2>1, <4>1, <4>3 DEF SumsOf, SumStep
      <3>2. QED
        BY <3>1
    <2> HIDE DEF T
    <2>4. \A n \in Nat : n \in T
      BY <2>2, <2>3, SetInduction
    <2>5. Cardinality(S) \in Nat
      BY FS_CardinalityType
    <2>6. QED
      BY <2>1, <2>4, <2>5 DEF T, SumsOf
  <1>2. ASSUME NEW i \in S PROVE f[i] <= Sum(f, S)
    <2>1. [f EXCEPT ![i] = 0] \in [S -> Nat]
      OBVIOUS
    <2>2. Sum([f EXCEPT ![i] = 0], S) \in Nat /\ Sum(f, S) \in Nat /\ f[i] \in Nat
      BY <1>1, <2>1
    <2>3. PICK h : h = [f EXCEPT ![i] = 0]
      OBVIOUS
    <2>4. f \in [S -> Int] /\ h \in [S -> Int] /\ h[i] = 0 /\ \A j \in S \ {i} : h[j] = f[j]
      BY <2>3
    <2>5. Sum(h, S) = Sum(f, S) + h[i] - f[i]
      BY <2>4, SumChange
    <2>6. QED
      BY <2>2, <2>3, <2>4, <2>5
  <1>3. QED
    BY <1>1, <1>2

LEMMA SumZero ==
    ASSUME NEW S, IsFiniteSet(S)
    PROVE  Sum([i \in S |-> 0], S) = 0
  <1>1. PICK f : f = [i \in S |-> 0]
    OBVIOUS
  <1>2. f \in [S -> Int] /\ \A i \in S : f[i] = 0
    BY <1>1
  <1>3. PICK g \in [SUBSET S -> Int] : SumsOf(g, f, S)
    BY <1>2, SumsOfSubsets
  <1> DEFINE T == {n \in Nat : \A s \in SUBSET S : Cardinality(s) = n => g[s] = 0}
  <1>4. 0 \in T
    <2>1. \A s \in SUBSET S : Cardinality(s) = 0 => s = {}
      BY FirstTaken
    <2>2. \A s \in SUBSET S : Cardinality(s) = 0 => g[s] = 0
      BY <1>3, <2>1 DEF SumsOf, SumStep
    <2>3. QED
      BY <2>2
  <1>5. ASSUME NEW n \in Nat, n \in T PROVE n + 1 \in T
    <2>1. ASSUME NEW s \in SUBSET S, Cardinality(s) = n + 1 PROVE g[s] = 0
      <3>1. s # {}
        BY <2>1, NonEmpty, Zenon
      <3>2. First(s) \in S /\ s \ {First(s)} \in SUBSET S /\ Cardinality(s \ {First(s)}) = n
        BY <2>1, <3>1, FirstTaken
      <3>3. f[First(s)] = 0 /\ g[s \ {First(s)}] = 0
        BY <1>2, <1>5, <3>2
      <3>4. g[s] = f[First(s)] + g[s \ {First(s)}]
        BY <1>3, <3>1 DEF SumsOf, SumStep
      <3>5. QED
        BY <3>3, <3>4
    <2>2. QED
      BY <2>1
  <1> HIDE DEF T
  <1>6. \A n \in Nat : n \in T
    BY <1>4, <1>5, SetInduction
  <1>7. Cardinality(S) \in Nat
    BY FS_CardinalityType
  <1>8. QED
    BY <1>1, <1>3, <1>6, <1>7 DEF T, SumsOf
=============================================================================
