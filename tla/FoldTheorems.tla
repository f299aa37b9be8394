---------------------------- MODULE FoldTheorems ----------------------------
(***************************************************************************)
(* Recursion over finite data: that a definition by recursion over the     *)
(* subsets of a finite set, as the folds of the community modules are      *)
(* defined, or by counting up, has a solution, and that what it computes   *)
(* stays in a set when every step does.  And what sums over a finite set   *)
(* are.                                                                    *)
(*                                                                         *)
(* All of it rests on this: a set of counterexamples would have a smallest *)
(* member, because the strict subsets of a finite set and the numbers are  *)
(* well-founded.                                                           *)
(***************************************************************************)
EXTENDS Integers, FiniteSets, FiniteSetsExt, SequencesExt, FiniteSetTheorems, TLAPS

\* Every nonempty set of subsets of a finite set has a least one.
LEMMA SmallestSubset ==
    ASSUME NEW S, IsFiniteSet(S), NEW T, T \subseteq SUBSET S, T # {}
    PROVE  \E x \in T : \A y \in T : y \subseteq x => y = x
<1>1. IsWellFoundedOn(StrictSubsetOrdering(S), SUBSET S)
  BY FS_StrictSubsetOrderingWellFounded, FS_FiniteSubsetsOfFinite
<1>2. PICK x \in T : \A y \in T : ~ (<<y, x>> \in StrictSubsetOrdering(S))
  BY <1>1, WFMin
<1>3. \A y \in T : y \subseteq x => y = x
  BY <1>2 DEF StrictSubsetOrdering
<1> QED BY <1>3

\* Every nonempty set of numbers has a least one.
LEMMA SmallestNumber ==
    ASSUME NEW T, T \subseteq Nat, T # {}
    PROVE  \E x \in T : \A y \in T : x <= y
<1>1. PICK x \in T : \A y \in T : ~ (<<y, x>> \in OpToRel(<, Nat))
  BY NatLessThanWellFounded, WFMin
<1>2. ASSUME NEW y \in T, ~(x <= y) PROVE FALSE
  <2>1. <<y, x>> \in Nat \X Nat /\ y < x
    BY <1>2
  <2>2. <<y, x>> \in OpToRel(<, Nat)
    BY <2>1 DEF OpToRel
  <2> QED BY <1>1, <2>2
<1> QED BY <1>2

\* Min picks it.
LEMMA LeastNumber ==
    ASSUME NEW T, T \subseteq Nat, T # {}
    PROVE  Min(T) \in T
<1>1. \E x \in T : \A y \in T : x <= y
  BY SmallestNumber
<1> QED BY <1>1 DEF Min

\* g is defined by recursion over the subsets of S, each time without the element
\* that c picks.
Steps(S, W, base, G, c) ==
    /\ IsFiniteSet(S) /\ base \in W /\ G \in [SUBSET S -> [W -> W]]
    /\ \A s \in SUBSET S : s # {} => c[s] \in s

Recursive(g, S, base, G, c) ==
    \A s \in SUBSET S : g[s] = IF s = {} THEN base ELSE G[s][g[s \ {c[s]}]]

\* There is such a function when S is finite and what it computes stays in W.
LEMMA Recursion ==
    ASSUME NEW S, NEW W, NEW base, NEW G, NEW c, Steps(S, W, base, G, c)
    PROVE  \E g \in [SUBSET S -> W] : Recursive(g, S, base, G, c)
<1> USE DEF Steps, Recursive
<1> DEFINE Next(g, s) == IF s = {} THEN base ELSE G[s][g[s \ {c[s]}]]
           Correct(g, k) == \A s \in SUBSET S : Cardinality(s) <= k => g[s] = Next(g, s)
           Bad == {k \in Nat : \A g \in [SUBSET S -> W] : ~Correct(g, k)}
<1>0. \A s \in SUBSET S : IsFiniteSet(s) /\ Cardinality(s) \in Nat /\ (Cardinality(s) = 0 <=> s = {})
  BY FS_Subset, FS_CardinalityType, FS_EmptySet
<1>1. ASSUME Bad # {} PROVE FALSE
  <2>1. PICK k \in Bad : \A j \in Bad : k <= j
    BY <1>1, SmallestNumber, Bad \subseteq Nat
  <2>2. CASE k = 0
    <3> DEFINE g == [s \in SUBSET S |-> base]
    <3>1. g \in [SUBSET S -> W]
      OBVIOUS
    <3>2. Correct(g, 0)
      BY <1>0
    <3> QED BY <2>1, <2>2, <3>1, <3>2
  <2>3. CASE k # 0
    <3>1. k - 1 \in Nat /\ k - 1 \notin Bad
      <4>1. k \in Nat
        OBVIOUS
      <4>2. k - 1 \in Nat /\ ~(k <= k - 1)
        BY <4>1, <2>3
      <4> QED BY <4>2, <2>1
    <3>2. PICK g \in [SUBSET S -> W] : Correct(g, k - 1)
      BY <3>1
    <3> DEFINE h == [s \in SUBSET S |-> IF Cardinality(s) <= k - 1 THEN g[s] ELSE Next(g, s)]
    <3>3. \A s \in SUBSET S : Next(g, s) \in W
      OBVIOUS
    <3>4. h \in [SUBSET S -> W]
      BY <3>3
    <3>5. ASSUME NEW s \in SUBSET S, Cardinality(s) <= k
          PROVE  h[s] = Next(h, s)
      <4>1. CASE s = {}
        <5>1. Cardinality(s) <= k - 1
          BY <4>1, <1>0, <3>1
        <5> QED BY <5>1, <3>2, <4>1
      <4>2. CASE s # {}
        <5> DEFINE rest == s \ {c[s]}
        <5>1. rest \in SUBSET S /\ Cardinality(rest) = Cardinality(s) - 1
          BY <4>2, <1>0, FS_RemoveElement
        <5>2. Cardinality(rest) <= k - 1
          <6>1. k \in Nat /\ Cardinality(s) \in Nat
            BY <1>0
          <6> QED BY <6>1, <5>1, <3>5
        <5>3. h[rest] = g[rest]
          BY <5>1, <5>2
        <5>4. h[s] = Next(g, s)
          BY <3>2
        <5> QED BY <5>3, <5>4, <4>2
      <4> QED BY <4>1, <4>2
    <3>6. Correct(h, k)
      BY <3>5
    <3> QED BY <3>4, <3>6, <2>1
  <2> QED BY <2>2, <2>3
<1>2. Cardinality(S) \in Nat /\ \A s \in SUBSET S : Cardinality(s) <= Cardinality(S)
  BY FS_Subset, FS_CardinalityType
<1>3. PICK g \in [SUBSET S -> W] : Correct(g, Cardinality(S))
  <2>1. Cardinality(S) \notin Bad
    BY <1>1
  <2> HIDE DEF Correct
  <2> QED BY <2>1, <1>2
<1> QED BY <1>2, <1>3

\* What is computed along a finite set stays in W when every step does.
LEMMA StaysIn ==
    ASSUME NEW S, IsFiniteSet(S), NEW W, NEW h, h[{}] \in W,
           \A s \in SUBSET S : s # {} => \E x \in s : h[s \ {x}] \in W => h[s] \in W
    PROVE  h[S] \in W
<1> DEFINE Bad == {s \in SUBSET S : h[s] \notin W}
<1>1. ASSUME Bad # {} PROVE FALSE
  <2>1. PICK s \in Bad : \A t \in Bad : t \subseteq s => t = s
    <3>1. Bad \subseteq SUBSET S
      OBVIOUS
    <3> HIDE DEF Bad
    <3> QED BY <1>1, <3>1, SmallestSubset
  <2>2. s # {}
    BY <2>1
  <2>3. PICK x \in s : h[s \ {x}] \in W => h[s] \in W
    BY <2>2
  <2>4. h[s \ {x}] \in W
    <3> DEFINE r == s \ {x}
    <3>1. r \in SUBSET S /\ r \subseteq s /\ r # s
      OBVIOUS
    <3> QED BY <3>1, <2>1
  <2> QED BY <2>3, <2>4
<1> QED BY <1>1

\* g is what comes of base when G is applied again and again, up to n times.
Iterates(g, n, base, G) ==
    \A i \in 0 .. n : g[i] = IF i = 0 THEN base ELSE G[g[i - 1]]

\* Such a sequence of iterates exists, for every length and every function.
LEMMA Iteration ==
    ASSUME NEW n \in Nat, NEW W, NEW base \in W, NEW G \in [W -> W]
    PROVE  \E g \in [0 .. n -> W] : Iterates(g, n, base, G)
<1> DEFINE Bad == {k \in Nat : \A g \in [0 .. k -> W] : ~Iterates(g, k, base, G)}
<1>1. ASSUME Bad # {} PROVE FALSE
  <2>1. PICK k \in Bad : \A j \in Bad : k <= j
    BY <1>1, SmallestNumber, Bad \subseteq Nat
  <2>2. CASE k = 0
    <3> DEFINE g == [i \in 0 .. 0 |-> base]
    <3>1. g \in [0 .. 0 -> W] /\ Iterates(g, 0, base, G)
      BY DEF Iterates
    <3> QED BY <2>1, <2>2, <3>1
  <2>3. CASE k # 0
    <3>1. k - 1 \in Nat /\ k - 1 \notin Bad
      <4>1. k \in Nat
        OBVIOUS
      <4>2. k - 1 \in Nat /\ ~(k <= k - 1)
        BY <4>1, <2>3
      <4> QED BY <4>2, <2>1
    <3>2. PICK g \in [0 .. k - 1 -> W] : Iterates(g, k - 1, base, G)
      BY <3>1
    <3> DEFINE h == [i \in 0 .. k |-> IF i = k THEN G[g[k - 1]] ELSE g[i]]
    <3>3. k \in Nat /\ \A i \in 0 .. k : i # k => i \in 0 .. k - 1
      OBVIOUS
    <3>4. h \in [0 .. k -> W]
      <4>1. k - 1 \in 0 .. k - 1
        BY <3>1
      <4>2. g[k - 1] \in W /\ G[g[k - 1]] \in W
        BY <4>1
      <4> QED BY <3>3, <4>2
    <3>5. ASSUME NEW i \in 0 .. k
          PROVE  h[i] = IF i = 0 THEN base ELSE G[h[i - 1]]
      <4>1. CASE i = k
        <5>1. i # 0 /\ i - 1 \in 0 .. k /\ i - 1 # k
          BY <4>1, <3>3, <2>3
        <5>2. h[i] = G[g[k - 1]] /\ h[i - 1] = g[k - 1]
          BY <4>1, <5>1
        <5> QED BY <5>1, <5>2
      <4>2. CASE i # k
        <5>1. i \in 0 .. k - 1 /\ h[i] = g[i]
          BY <4>2, <3>3
        <5>2. g[i] = IF i = 0 THEN base ELSE G[g[i - 1]]
          BY <5>1, <3>2 DEF Iterates
        <5>3. ASSUME i # 0 PROVE h[i - 1] = g[i - 1]
          <6>1. i - 1 \in 0 .. k /\ i - 1 # k
            BY <5>1, <5>3, <3>3
          <6> QED BY <6>1
        <5> QED BY <5>1, <5>2, <5>3
      <4> QED BY <4>1, <4>2
    <3>6. Iterates(h, k, base, G)
      BY <3>5 DEF Iterates
    <3> QED BY <3>4, <3>6, <2>1
  <2> QED BY <2>2, <2>3
<1>2. n \notin Bad
  BY <1>1
<1> QED BY <1>2

\* What is computed along the numbers stays in W when every step does.
LEMMA StaysAlong ==
    ASSUME NEW n \in Nat, NEW W, NEW h, h[0] \in W,
           \A i \in 1 .. n : h[i - 1] \in W => h[i] \in W
    PROVE  \A i \in 0 .. n : h[i] \in W
<1> DEFINE Bad == {i \in 0 .. n : h[i] \notin W}
<1>1. ASSUME Bad # {} PROVE FALSE
  <2>0. Bad \subseteq Nat
    OBVIOUS
  <2>1. PICK i \in Bad : \A j \in Bad : i <= j
    <3> HIDE DEF Bad
    <3> QED BY <1>1, <2>0, SmallestNumber
  <2>2. i \in 0 .. n /\ i # 0
    BY <2>1
  <2>3. i \in 1 .. n /\ i - 1 \in 0 .. n /\ ~(i <= i - 1)
    BY <2>2
  <2>4. i - 1 \notin Bad
    BY <2>1, <2>3
  <2>5. h[i - 1] \in W
    BY <2>4, <2>3
  <2> QED BY <2>5, <2>3, <2>1
<1> QED BY <1>1

\* The greatest number of a nonempty set of the first n numbers.
LEMMA GreatestIndex ==
    ASSUME NEW n \in Nat, NEW s, s \subseteq 1 .. n, s # {}
    PROVE  Max(s) \in s /\ \A y \in s : y <= Max(s)
<1> DEFINE T == {n - x : x \in s}
<1>0. \A x \in s : x \in Int /\ x <= n
  OBVIOUS
<1>1. T \subseteq Nat /\ T # {}
  <2>1. \A x \in s : n - x \in Nat
    BY <1>0
  <2> QED BY <2>1
<1> HIDE DEF T
<1>2. PICK d \in T : \A e \in T : d <= e
  BY <1>1, SmallestNumber
<1> USE DEF T
<1>3. PICK x \in s : d = n - x
  OBVIOUS
<1>4. \A y \in s : y <= x
  <2> TAKE y \in s
  <2>1. d <= n - y /\ x \in Int /\ y \in Int
    BY <1>2
  <2> QED BY <2>1, <1>3
<1>5. \E m \in s : \A y \in s : m >= y
  <2>1. \A y \in s : x >= y
    <3> TAKE y \in s
    <3> QED BY <1>0, <1>4
  <2> QED BY <2>1
<1>6. Max(s) \in s /\ \A y \in s : Max(s) >= y
  BY <1>5 DEF Max
<1>7. \A y \in s : y <= Max(s)
  <2> TAKE y \in s
  <2>1. y \in Int /\ Max(s) \in Int /\ Max(s) >= y
    BY <1>0, <1>6
  <2> QED BY <2>1
<1> QED BY <1>6, <1>7

-----------------------------------------------------------------------------
(* Sums over a finite set *)

\* The sum of f over S, as the operator that MapThenSumSet is defined by adds it up:
\* element by element, each time the one that CHOOSE picks.
Total(f, S) == MapThenSumSet(LAMBDA m : f[m], S)
Pick(s) == CHOOSE x \in s : TRUE
Summed(f, g, s) == IF s = {} THEN 0 ELSE f[Pick(s)] + g[s \ {Pick(s)}]

\* What Total computes: the sum of a set is the element that is picked plus the sum
\* of the others.
LEMMA TotalDef ==
    ASSUME NEW S, IsFiniteSet(S), NEW f, \A x \in S : f[x] \in Int
    PROVE  \E g \in [SUBSET S -> Int] :
              /\ \A s \in SUBSET S : g[s] = Summed(f, g, s)
              /\ Total(f, S) = g[S]
<1> DEFINE Sums(g) == g = [s \in SUBSET S |-> Summed(f, g, s)]
           c == [s \in SUBSET S |-> Pick(s)]
           G == [s \in SUBSET S |-> [n \in Int |-> IF s = {} THEN 0 ELSE f[Pick(s)] + n]]
<1>0. \A s \in SUBSET S : s # {} => Pick(s) \in s
  BY DEF Pick
<1>1. G \in [SUBSET S -> [Int -> Int]]
  BY <1>0
<1>2. PICK g \in [SUBSET S -> Int] : Recursive(g, S, 0, G, c)
  <2>1. Steps(S, Int, 0, G, c)
    <3> HIDE DEF G
    <3> QED BY <1>0, <1>1 DEF Steps
  <2> HIDE DEF G, c
  <2> QED BY <2>1, Recursion
<1>3. \A s \in SUBSET S : g[s] = Summed(f, g, s)
  <2>1. \A s \in SUBSET S : g[s] = IF s = {} THEN 0 ELSE G[s][g[s \ {c[s]}]]
    BY <1>2 DEF Recursive
  <2>2. \A s \in SUBSET S : g[s \ {c[s]}] \in Int
    OBVIOUS
  <2> QED BY <2>1, <2>2 DEF Summed
<1>4. Sums(g)
  BY <1>3
<1>5. PICK h : h = (CHOOSE e : Sums(e)) /\ Sums(h)
  BY <1>4
<1>6. Total(f, S) = h[S]
  BY <1>5 DEF Total, MapThenSumSet, MapThenFoldSet, Summed, Pick
<1>7. \A s \in SUBSET S : h[s] = Summed(f, h, s)
  BY <1>5
<1>8. h \in [SUBSET S -> Int]
  <2>1. ASSUME NEW s \in SUBSET S PROVE h[s] \in Int
    <3>1. IsFiniteSet(s)
      BY FS_Subset
    <3>2. h[{}] \in Int
      <4>1. {} \in SUBSET S
        OBVIOUS
      <4>2. h[{}] = 0
        BY <4>1, <1>7 DEF Summed
      <4> QED BY <4>2
    <3>3. ASSUME NEW t \in SUBSET s, t # {} PROVE \E x \in t : h[t \ {x}] \in Int => h[t] \in Int
      <4>1. Pick(t) \in t /\ Pick(t) \in S
        BY <3>3, <1>0
      <4>2. h[t] = f[Pick(t)] + h[t \ {Pick(t)}]
        BY <3>3, <1>7 DEF Summed
      <4>3. f[Pick(t)] \in Int
        BY <4>1
      <4>4. h[t \ {Pick(t)}] \in Int => h[t] \in Int
        BY <4>2, <4>3
      <4> QED BY <4>1, <4>4
    <3> QED BY <3>1, <3>2, <3>3, StaysIn
  <2>2. h = [s \in SUBSET S |-> h[s]]
    BY <1>5
  <2> QED BY <2>1, <2>2
<1> QED BY <1>6, <1>7, <1>8

\* Sums of two functions that differ by one at m.
LEMMA TotalIncrement ==
    ASSUME NEW S, IsFiniteSet(S), NEW f, \A x \in S : f[x] \in Int, NEW g, \A x \in S : g[x] \in Int, NEW m,
           \A x \in S : g[x] = IF x = m THEN f[x] + 1 ELSE f[x]
    PROVE  Total(g, S) = IF m \in S THEN Total(f, S) + 1 ELSE Total(f, S)
<1>1. PICK a \in [SUBSET S -> Int] :
         (\A s \in SUBSET S : a[s] = Summed(f, a, s)) /\ Total(f, S) = a[S]
  BY TotalDef
<1>2. PICK b \in [SUBSET S -> Int] :
         (\A s \in SUBSET S : b[s] = Summed(g, b, s)) /\ Total(g, S) = b[S]
  BY TotalDef
<1> DEFINE Good(s) == b[s] = IF m \in s THEN a[s] + 1 ELSE a[s]
           Bad == {s \in SUBSET S : ~Good(s)}
<1> SUFFICES ASSUME Bad # {} PROVE FALSE
  BY <1>1, <1>2
<1>3. PICK s \in Bad : \A t \in Bad : t \subseteq s => t = s
  <2>1. Bad \subseteq SUBSET S
    OBVIOUS
  <2> HIDE DEF Bad
  <2> QED BY <2>1, SmallestSubset
<1>4. s # {}
  BY <1>1, <1>2, <1>3 DEF Summed
<1>5. Pick(s) \in s /\ Pick(s) \in S
  BY <1>4 DEF Pick
<1>6. s \ {Pick(s)} \in SUBSET S /\ Good(s \ {Pick(s)})
  <2> DEFINE r == s \ {Pick(s)}
  <2>1. r \in SUBSET S /\ r \subseteq s /\ r # s
    BY <1>5
  <2> QED BY <2>1, <1>3
<1>7. b[s] = g[Pick(s)] + b[s \ {Pick(s)}] /\ a[s] = f[Pick(s)] + a[s \ {Pick(s)}]
  BY <1>1, <1>2, <1>4 DEF Summed
<1>8. a[s \ {Pick(s)}] \in Int /\ f[Pick(s)] \in Int
  BY <1>5, <1>6
<1> QED BY <1>3, <1>5, <1>6, <1>7, <1>8

\* A sum of terms is at most the sums of what bounds the terms.
LEMMA TotalBounded ==
    ASSUME NEW S, IsFiniteSet(S), NEW f, \A x \in S : f[x] \in Int, NEW g, \A x \in S : g[x] \in Int, NEW h, \A x \in S : h[x] \in Int,
           \A x \in S : f[x] <= g[x] + h[x]
    PROVE  Total(f, S) <= Total(g, S) + Total(h, S)
<1>1. PICK a \in [SUBSET S -> Int] :
         (\A s \in SUBSET S : a[s] = Summed(f, a, s)) /\ Total(f, S) = a[S]
  BY TotalDef
<1>2. PICK b \in [SUBSET S -> Int] :
         (\A s \in SUBSET S : b[s] = Summed(g, b, s)) /\ Total(g, S) = b[S]
  BY TotalDef
<1>3. PICK c \in [SUBSET S -> Int] :
         (\A s \in SUBSET S : c[s] = Summed(h, c, s)) /\ Total(h, S) = c[S]
  BY TotalDef
<1> DEFINE Good(s) == a[s] <= b[s] + c[s]
           Bad == {s \in SUBSET S : ~Good(s)}
<1> SUFFICES ASSUME Bad # {} PROVE FALSE
  BY <1>1, <1>2, <1>3
<1>4. PICK s \in Bad : \A t \in Bad : t \subseteq s => t = s
  <2>1. Bad \subseteq SUBSET S
    OBVIOUS
  <2> HIDE DEF Bad
  <2> QED BY <2>1, SmallestSubset
<1>5. s # {}
  <2>1. ASSUME s = {} PROVE a[s] = 0 /\ b[s] = 0 /\ c[s] = 0
    BY <2>1, <1>1, <1>2, <1>3 DEF Summed
  <2> QED BY <2>1, <1>4
<1>6. Pick(s) \in s /\ Pick(s) \in S
  BY <1>5 DEF Pick
<1>7. s \ {Pick(s)} \in SUBSET S /\ Good(s \ {Pick(s)})
  <2> DEFINE r == s \ {Pick(s)}
  <2>1. r \in SUBSET S /\ r \subseteq s /\ r # s
    BY <1>6
  <2> QED BY <2>1, <1>4
<1>8. /\ a[s] = f[Pick(s)] + a[s \ {Pick(s)}]
      /\ b[s] = g[Pick(s)] + b[s \ {Pick(s)}]
      /\ c[s] = h[Pick(s)] + c[s \ {Pick(s)}]
  BY <1>1, <1>2, <1>3, <1>5 DEF Summed
<1>9. /\ {a[s \ {Pick(s)}], b[s \ {Pick(s)}], c[s \ {Pick(s)}]} \subseteq Int
      /\ {f[Pick(s)], g[Pick(s)], h[Pick(s)]} \subseteq Int
  BY <1>6, <1>7
<1> QED BY <1>4, <1>6, <1>7, <1>8, <1>9

\* A sum of integers is one.
LEMMA TotalType ==
    ASSUME NEW S, IsFiniteSet(S), NEW f, \A x \in S : f[x] \in Int
    PROVE  Total(f, S) \in Int
<1>1. PICK a \in [SUBSET S -> Int] : Total(f, S) = a[S]
  BY TotalDef
<1> QED BY <1>1

\* A sum of zeros is zero.
LEMMA TotalZero ==
    ASSUME NEW S, IsFiniteSet(S)
    PROVE  \A f : (\A x \in S : f[x] = 0) => Total(f, S) = 0
<1> SUFFICES ASSUME NEW f, \A x \in S : f[x] = 0
             PROVE  Total(f, S) = 0
  OBVIOUS
<1>0. \A x \in S : f[x] \in Int
  OBVIOUS
<1>1. PICK a \in [SUBSET S -> Int] :
         (\A s \in SUBSET S : a[s] = Summed(f, a, s)) /\ Total(f, S) = a[S]
  BY <1>0, TotalDef
<1> DEFINE Bad == {s \in SUBSET S : a[s] # 0}
<1> SUFFICES ASSUME Bad # {} PROVE FALSE
  BY <1>1
<1>2. PICK s \in Bad : \A t \in Bad : t \subseteq s => t = s
  <2>1. Bad \subseteq SUBSET S
    OBVIOUS
  <2> HIDE DEF Bad
  <2> QED BY <2>1, SmallestSubset
<1>3. s # {}
  BY <1>1, <1>2 DEF Summed
<1>4. Pick(s) \in s
  BY <1>3 DEF Pick
<1>5. a[s \ {Pick(s)}] = 0
  <2> DEFINE r == s \ {Pick(s)}
  <2>1. r \in SUBSET S /\ r \subseteq s /\ r # s
    BY <1>4
  <2> QED BY <2>1, <1>2
<1> QED BY <1>1, <1>2, <1>3, <1>4, <1>5 DEF Summed
-----------------------------------------------------------------------------
(* Lists *)

\* seq folded from the left with the function F.
Fold(F, base, seq) == FoldLeft(LAMBDA v, e : F[<<v, e>>], base, seq)

\* h is the values a fold goes through.
Through(h, F, base, seq) ==
    /\ h[0] = base
    /\ \A i \in 1 .. Len(seq) : h[i] = F[<<h[i - 1], seq[i]>>]

\* F takes a value of W and an element of E to a value of W.
Folds(F, W, E) == F \in [W \X E -> W]

\* A fold goes through its values one element at a time.
LEMMA FoldThrough ==
    ASSUME NEW W, NEW E, NEW F, Folds(F, W, E), NEW base \in W, NEW seq \in Seq(E)
    PROVE  \E h \in [0 .. Len(seq) -> W] :
              Through(h, F, base, seq) /\ Fold(F, base, seq) = h[Len(seq)]
<1> DEFINE S == DOMAIN seq
           Table(e) == e = [s \in SUBSET S |->
                               IF s = {} THEN base ELSE F[<<e[s \ {Max(s)}], seq[Max(s)]>>]]
           c == [s \in SUBSET S |-> Max(s)]
           G == [s \in SUBSET S |-> [v \in W |-> IF s = {} THEN base ELSE F[<<v, seq[Max(s)]>>]]]
<1>1. IsFiniteSet(S) /\ S = 1 .. Len(seq) /\ Len(seq) \in Nat
  BY FS_Interval
<1>2. \A s \in SUBSET S : s # {} => Max(s) \in s
  BY <1>1, GreatestIndex
<1>3. \A s \in SUBSET S : s # {} => seq[Max(s)] \in E
  BY <1>2
<1>4. G \in [SUBSET S -> [W -> W]]
  BY <1>3 DEF Folds
<1>5. PICK g \in [SUBSET S -> W] : Recursive(g, S, base, G, c)
  <2>1. Steps(S, W, base, G, c)
    <3> HIDE DEF G
    <3> QED BY <1>1, <1>2, <1>4 DEF Steps
  <2> HIDE DEF S, G, c
  <2> QED BY <2>1, Recursion
<1>6. Table(g)
  <2>1. \A s \in SUBSET S : g[s] = IF s = {} THEN base ELSE F[<<g[s \ {Max(s)}], seq[Max(s)]>>]
    BY <1>5 DEF Recursive
  <2> QED BY <2>1
<1>7. PICK h : h = (CHOOSE e : Table(e)) /\ Table(h)
  <2> HIDE DEF Table
  <2> QED BY <1>6
<1>8. Fold(F, base, seq) = h[S]
  BY <1>7 DEF Fold, FoldLeft, MapThenFoldSet
<1> DEFINE k == [i \in 0 .. Len(seq) |-> h[1 .. i]]
<1>9. Through(k, F, base, seq)
  <2>1. k[0] = base
    <3>1. 1 .. 0 = {} /\ {} \in SUBSET S /\ 0 \in 0 .. Len(seq)
      BY <1>1
    <3> QED BY <3>1, <1>7
  <2>2. ASSUME NEW i \in 1 .. Len(seq) PROVE k[i] = F[<<k[i - 1], seq[i]>>]
    <3>1. 1 .. i \subseteq S /\ 1 .. i # {} /\ i \in 0 .. Len(seq) /\ i - 1 \in 0 .. Len(seq)
      <4>1. Len(seq) \in Nat /\ i \in 1 .. Len(seq)
        BY <1>1
      <4>2. 1 .. i \subseteq 1 .. Len(seq) /\ i \in 1 .. i
        BY <4>1
      <4> QED BY <4>1, <4>2, <1>1
    <3>2. Max(1 .. i) = i
      <4>1. i \in Nat /\ 1 .. i \subseteq 1 .. i /\ i \in 1 .. i
        OBVIOUS
      <4>2. Max(1 .. i) \in 1 .. i /\ i <= Max(1 .. i)
        BY <4>1, GreatestIndex
      <4> QED BY <4>2
    <3>3. (1 .. i) \ {i} = 1 .. i - 1
      OBVIOUS
    <3>4. h[1 .. i] = F[<<h[1 .. i - 1], seq[i]>>]
      BY <3>1, <3>2, <3>3, <1>7
    <3> QED BY <3>1, <3>4
  <2> QED BY <2>1, <2>2 DEF Through
<1>10. \A i \in 0 .. Len(seq) : k[i] \in W
  <2>1. k[0] \in W
    BY <1>9 DEF Through
  <2>2. ASSUME NEW i \in 1 .. Len(seq), k[i - 1] \in W PROVE k[i] \in W
    <3> HIDE DEF k
    <3>1. k[i] = F[<<k[i - 1], seq[i]>>]
      BY <1>9 DEF Through
    <3>2. seq[i] \in E
      BY <1>1
    <3> QED BY <3>1, <3>2, <2>2 DEF Folds
  <2>3. Len(seq) \in Nat /\ \A i \in 1 .. Len(seq) : k[i - 1] \in W => k[i] \in W
    <3> HIDE DEF k
    <3> QED BY <1>1, <2>2
  <2> HIDE DEF k
  <2> QED BY <2>1, <2>3, StaysAlong
<1>11. k[Len(seq)] = h[S]
  BY <1>1
<1> QED BY <1>8, <1>9, <1>10, <1>11

\* h goes from its value at 0 to its value at n along the first n elements of seq.
Goes(h, F, seq, n) == \A i \in 1 .. n : h[i] = F[<<h[i - 1], seq[i]>>]

Begins(seq, rest, n) == \A i \in 1 .. n : seq[i] = rest[i]

\* The values it goes through are determined by the function, base and list.
LEMMA ThroughUnique ==
    ASSUME NEW F, NEW n \in Nat, NEW h, NEW k, h[0] = k[0], NEW seq, NEW rest,
           Begins(seq, rest, n), Goes(h, F, seq, n), Goes(k, F, rest, n)
    PROVE  h[n] = k[n]
<1> DEFINE same == [i \in 0 .. n |-> IF h[i] = k[i] THEN 1 ELSE 0]
<1>1. same[0] \in {1}
  OBVIOUS
<1>2. ASSUME NEW i \in 1 .. n, same[i - 1] \in {1} PROVE same[i] \in {1}
  <2>1. i \in 0 .. n /\ i - 1 \in 0 .. n
    OBVIOUS
  <2>2. h[i - 1] = k[i - 1]
    BY <2>1, <1>2
  <2> QED BY <2>1, <2>2 DEF Goes, Begins
<1>3. \A i \in 0 .. n : same[i] \in {1}
  <2> DEFINE W == {1}
  <2>1. same[0] \in W /\ \A i \in 1 .. n : same[i - 1] \in W => same[i] \in W
    BY <1>1, <1>2
  <2> HIDE DEF same, W
  <2>2. \A i \in 0 .. n : same[i] \in W
    BY <2>1, StaysAlong
  <2> USE DEF W
  <2> QED BY <2>2
<1>4. n \in 0 .. n /\ same[n] = 1
  <2> HIDE DEF same
  <2> QED BY <1>3
<1> QED BY <1>4

\* A fold over two lists is one over the first, then one over the second.
LEMMA FoldConcat ==
    ASSUME NEW W, NEW E, NEW F, Folds(F, W, E), NEW base \in W,
           NEW a \in Seq(E), NEW b \in Seq(E)
    PROVE  Fold(F, base, a \o b) = Fold(F, Fold(F, base, a), b)
<1>0. PICK c : c = a \o b
  OBVIOUS
<1>1. c \in Seq(E) /\ Len(c) = Len(a) + Len(b) /\ Len(a) \in Nat /\ Len(b) \in Nat
      /\ (\A i \in 1 .. Len(a) : c[i] = a[i])
      /\ (\A i \in 1 .. Len(b) : c[Len(a) + i] = b[i])
  BY <1>0
<1>2. PICK f \in [0 .. Len(a) -> W] : Through(f, F, base, a) /\ Fold(F, base, a) = f[Len(a)]
  BY FoldThrough
<1>3. f[Len(a)] \in W
  <2>1. Len(a) \in 0 .. Len(a)
    BY <1>1
  <2> QED BY <2>1
<1>4. PICK g \in [0 .. Len(b) -> W] :
          Through(g, F, f[Len(a)], b) /\ Fold(F, f[Len(a)], b) = g[Len(b)]
  <2>1. PICK v : v = f[Len(a)]
    OBVIOUS
  <2>2. v \in W
    BY <1>3, <2>1
  <2>3. \E g \in [0 .. Len(b) -> W] : Through(g, F, v, b) /\ Fold(F, v, b) = g[Len(b)]
    BY <2>2, FoldThrough
  <2> QED BY <2>1, <2>3
<1>5. PICK h \in [0 .. Len(c) -> W] :
          Through(h, F, base, c) /\ Fold(F, base, c) = h[Len(c)]
  <2>1. c \in Seq(E)
    BY <1>1
  <2> QED BY <2>1, FoldThrough
<1> DEFINE n == Len(a)
           m == Len(b)
           k == [i \in 0 .. m |-> h[n + i]]
<1>6. h[n] = f[n]
  <2>1. h[0] = f[0]
    BY <1>2, <1>5 DEF Through
  <2>2. Goes(h, F, c, n)
    <3>1. \A i \in 1 .. n : i \in 1 .. Len(c)
      BY <1>1
    <3> QED BY <3>1, <1>5 DEF Through, Goes
  <2>3. Goes(f, F, a, n)
    BY <1>2 DEF Through, Goes
  <2>4. n \in Nat /\ Begins(c, a, n)
    BY <1>1 DEF Begins
  <2> HIDE DEF n
  <2> QED BY <2>1, <2>2, <2>3, <2>4, ThroughUnique
<1>7. k[m] = g[m]
  <2>1. k[0] = g[0]
    <3>1. 0 \in 0 .. m /\ n + 0 = n
      BY <1>1
    <3>2. g[0] = f[n]
      BY <1>4 DEF Through
    <3> QED BY <3>1, <3>2, <1>6
  <2>2. ASSUME NEW i \in 1 .. m PROVE k[i] = F[<<k[i - 1], b[i]>>]
    <3>1. n + i \in 1 .. Len(c) /\ i \in 0 .. m /\ i - 1 \in 0 .. m /\ (n + i) - 1 = n + (i - 1)
      BY <1>1
    <3>2. h[n + i] = F[<<h[(n + i) - 1], c[n + i]>>]
      BY <3>1, <1>5 DEF Through
    <3> QED BY <3>1, <3>2, <1>1
  <2>3. Goes(k, F, b, m) /\ Goes(g, F, b, m) /\ Begins(b, b, m)
    BY <2>2, <1>4 DEF Through, Goes, Begins
  <2>4. m \in Nat
    BY <1>1
  <2> HIDE DEF m, k
  <2> QED BY <2>1, <2>3, <2>4, ThroughUnique
<1>8. k[m] = h[Len(c)]
  <2>1. m \in 0 .. m
    BY <1>1
  <2> QED BY <2>1, <1>1
<1> QED BY <1>0, <1>2, <1>4, <1>5, <1>7, <1>8

\* A fold over one element more applies the function once more,
LEMMA FoldAppend ==
    ASSUME NEW W, NEW E, NEW F, Folds(F, W, E), NEW base \in W,
           NEW a \in Seq(E), NEW e \in E
    PROVE  /\ Fold(F, base, a) \in W
           /\ Fold(F, base, Append(a, e)) = F[<<Fold(F, base, a), e>>]
<1>1. PICK c : c = Append(a, e)
  OBVIOUS
<1>2. c \in Seq(E) /\ Len(c) = Len(a) + 1 /\ Len(a) \in Nat /\ c[Len(a) + 1] = e
      /\ (\A i \in 1 .. Len(a) : c[i] = a[i])
  BY <1>1
<1>3. PICK f \in [0 .. Len(a) -> W] : Through(f, F, base, a) /\ Fold(F, base, a) = f[Len(a)]
  BY FoldThrough
<1>4. PICK h \in [0 .. Len(c) -> W] : Through(h, F, base, c) /\ Fold(F, base, c) = h[Len(c)]
  BY <1>2, FoldThrough
<1> DEFINE n == Len(a)
<1>5. h[n] = f[n]
  <2>1. h[0] = f[0]
    BY <1>3, <1>4 DEF Through
  <2>2. Goes(h, F, c, n)
    <3>1. \A i \in 1 .. n : i \in 1 .. Len(c)
      BY <1>2
    <3> QED BY <3>1, <1>4 DEF Through, Goes
  <2>3. Goes(f, F, a, n)
    BY <1>3 DEF Through, Goes
  <2>4. n \in Nat /\ Begins(c, a, n)
    BY <1>2 DEF Begins
  <2> HIDE DEF n
  <2> QED BY <2>1, <2>2, <2>3, <2>4, ThroughUnique
<1>6. n + 1 \in 1 .. Len(c) /\ (n + 1) - 1 = n /\ n \in 0 .. n
  BY <1>2
<1>7. h[n + 1] = F[<<h[n], c[n + 1]>>]
  BY <1>6, <1>4 DEF Through
<1> QED BY <1>1, <1>2, <1>3, <1>4, <1>5, <1>6, <1>7

\* and one over no element leaves the base.
LEMMA FoldNone ==
    ASSUME NEW W, NEW E, NEW F, Folds(F, W, E), NEW base \in W
    PROVE  Fold(F, base, <<>>) = base
<1>1. PICK c : c = <<>>
  OBVIOUS
<1>2. c \in Seq(E)
  BY <1>1
<1>3. PICK h \in [0 .. Len(c) -> W] : Through(h, F, base, c) /\ Fold(F, base, c) = h[Len(c)]
  BY <1>2, FoldThrough
<1>4. Len(c) = 0
  BY <1>1
<1> QED BY <1>1, <1>3, <1>4 DEF Through

\* What a table over the subsets of S, as FoldLeft chooses one, holds stays in W when
\* every step does.
LEMMA TableStays ==
    ASSUME NEW S, IsFiniteSet(S), NEW W, NEW h, h[{}] \in W,
           \A s \in SUBSET S : s # {} => \E x \in s : h[s \ {x}] \in W => h[s] \in W
    PROVE  \A s \in SUBSET S : h[s] \in W
<1> TAKE s \in SUBSET S
<1>1. IsFiniteSet(s) /\ \A r \in SUBSET s : r \in SUBSET S
  BY FS_Subset
<1> QED BY <1>1, StaysIn
=============================================================================
