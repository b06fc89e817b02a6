--------------------------- MODULE Decisions_proofs --------------------------
(***************************************************************************)
(* The way of a decision, for any callers, limits, orders, requests, keys, *)
(* trades and candles: what the process believes of the venue is what the  *)
(* venue said, callers that share the limits exceed them by what is in     *)
(* flight, what is recorded happened once and whole, a snapshot is         *)
(* complete, and long and short are weighed alike.                         *)
(***************************************************************************)
EXTENDS MCDecisions, FiniteSetTheorems, SequenceTheorems, WellFoundedInduction, TLAPS

(* Induction over an interval, as a statement about the set of what was    *)
(* reached.                                                                *)

LEMMA LeastNumber ==
  ASSUME NEW T \in SUBSET Nat, T # {}
  PROVE  \E n \in T : \A k \in T : n <= k
<1> DEFINE less == {p \in Nat \X Nat : p[1] < p[2]}
<1>1. IsWellFoundedOn(less, Nat)
  BY NatLessThanWellFounded DEF OpToRel
<1> HIDE DEF less
<1>2. PICK n \in T : \A k \in T : ~(<<k, n>> \in less)
  BY <1>1, WFMin
<1>3. ASSUME NEW k \in T PROVE n <= k
  <2>1. <<k, n>> \in Nat \X Nat /\ ~(<<k, n>> \in less)
    BY <1>2
  <2>2. ~(<<k, n>>[1] < <<k, n>>[2])
    BY <2>1 DEF less
  <2> QED BY <2>2
<1> QED BY <1>3

LEMMA ReachesAll ==
  ASSUME NEW n \in Nat, NEW T, 0 \in T,
         \A k \in 1..n : k - 1 \in T => k \in T
  PROVE  n \in T /\ \A k \in 0..n : k \in T
<1> DEFINE Rest == {k \in 0..n : k \notin T}
<1> SUFFICES ASSUME Rest # {} PROVE FALSE
  <2>1. n \in 0..n
    OBVIOUS
  <2> QED BY <2>1
<1>1. Rest \in SUBSET Nat
  OBVIOUS
<1>2. PICK k \in Rest : \A m \in Rest : k <= m
  <2> HIDE DEF Rest
  <2> QED BY <1>1, LeastNumber
<1>3. k \in 1..n /\ k - 1 \in 0..n
  BY <1>2
<1>4. k - 1 \in T
  BY <1>2, <1>3
<1> QED BY <1>2, <1>3, <1>4

-----------------------------------------------------------------------------
(* Sums over finite sets, as the folds compute them.                       *)

Some(s) == CHOOSE x \in s : TRUE

\* g is the sum of the values v over the subsets of S of at most n elements.
Adds(g, v, S, n) ==
  \A s \in SUBSET S : Cardinality(s) <= n =>
    /\ g[s] \in Nat
    /\ g[s] = IF s = {} THEN 0 ELSE v[Some(s)] + g[s \ {Some(s)}]

LEMMA SubsetFacts ==
  ASSUME NEW S, IsFiniteSet(S), NEW s \in SUBSET S
  PROVE  /\ IsFiniteSet(s) /\ Cardinality(s) \in Nat /\ Cardinality(s) <= Cardinality(S)
         /\ Cardinality(s) = 0 <=> s = {}
         /\ s # {} => Some(s) \in s
         /\ \A x \in s : s \ {x} \in SUBSET S /\ Cardinality(s \ {x}) = Cardinality(s) - 1
<1>1. IsFiniteSet(s) /\ Cardinality(s) <= Cardinality(S)
  BY FS_Subset
<1>2. Cardinality(s) \in Nat /\ (Cardinality(s) = 0 <=> s = {})
  BY <1>1, FS_CardinalityType, FS_EmptySet
<1>3. \A x \in s : Cardinality(s \ {x}) = Cardinality(s) - 1
  BY <1>1, FS_RemoveElement
<1> QED BY <1>1, <1>2, <1>3 DEF Some

LEMMA AddsExists ==
  ASSUME NEW S, IsFiniteSet(S), NEW v, \A x \in S : v[x] \in Nat
  PROVE  \E g : /\ g = [s \in SUBSET S |-> IF s = {} THEN 0 ELSE v[Some(s)] + g[s \ {Some(s)}]]
                /\ Adds(g, v, S, Cardinality(S))
<1> DEFINE N == Cardinality(S)
           T == {n \in 0..N : \E g : Adds(g, v, S, n)}
<1>1. N \in Nat
  BY FS_CardinalityType
<1>2. 0 \in T
  <2>1. Adds([s \in SUBSET S |-> 0], v, S, 0)
    BY SubsetFacts DEF Adds
  <2> QED BY <1>1, <2>1
<1>3. ASSUME NEW n \in 1..N, n - 1 \in T PROVE n \in T
  <2>1. PICK g : Adds(g, v, S, n - 1)
    BY <1>3
  <2> DEFINE h == [s \in SUBSET S |-> IF s = {} THEN 0 ELSE v[Some(s)] + g[s \ {Some(s)}]]
  <2>2. ASSUME NEW s \in SUBSET S, Cardinality(s) <= n - 1
        PROVE  h[s] = g[s]
    BY <2>1, <2>2 DEF Adds
  <2>3. ASSUME NEW s \in SUBSET S, Cardinality(s) <= n
        PROVE  /\ h[s] \in Nat
               /\ h[s] = IF s = {} THEN 0 ELSE v[Some(s)] + h[s \ {Some(s)}]
    <3>1. CASE s = {}
      BY <3>1
    <3>2. CASE s # {}
      <4> DEFINE r == s \ {Some(s)}
      <4>1. r \in SUBSET S /\ Cardinality(r) <= n - 1 /\ v[Some(s)] \in Nat
        BY <1>1, <2>3, <3>2, SubsetFacts
      <4>2. h[r] = g[r] /\ g[r] \in Nat
        BY <2>1, <2>2, <4>1 DEF Adds
      <4>3. h[s] = v[Some(s)] + g[r]
        BY <3>2
      <4> HIDE DEF h, r
      <4>4. h[s] = v[Some(s)] + h[r] /\ h[s] \in Nat
        BY <4>1, <4>2, <4>3
      <4> QED BY <3>2, <4>4 DEF r
    <3> QED BY <3>1, <3>2
  <2> HIDE DEF h
  <2>4. Adds(h, v, S, n)
    BY <2>3 DEF Adds
  <2> QED BY <2>4
<1>4. N \in T
  <2> HIDE DEF N, T
  <2> QED BY <1>1, <1>2, <1>3, ReachesAll
<1>5. PICK g : Adds(g, v, S, N)
  BY <1>4
<1> DEFINE h == [s \in SUBSET S |-> g[s]]
<1>6. ASSUME NEW s \in SUBSET S
      PROVE  h[s] \in Nat /\ h[s] = IF s = {} THEN 0 ELSE v[Some(s)] + h[s \ {Some(s)}]
  <2>1. Cardinality(s) <= N
    BY SubsetFacts
  <2>2. s # {} => s \ {Some(s)} \in SUBSET S
    BY SubsetFacts
  <2> QED BY <1>5, <2>1, <2>2 DEF Adds
<1>7. h = [s \in SUBSET S |-> h[s]]
  OBVIOUS
<1> HIDE DEF h
<1>8. h = [s \in SUBSET S |-> IF s = {} THEN 0 ELSE v[Some(s)] + h[s \ {Some(s)}]]
  BY <1>6, <1>7
<1>9. Adds(h, v, S, N)
  BY <1>6 DEF Adds
<1> QED BY <1>8, <1>9

\* The sum does not depend on which element is taken first.
LEMMA AnyFirst ==
  ASSUME NEW S, IsFiniteSet(S), NEW v, \A x \in S : v[x] \in Nat,
         NEW g, Adds(g, v, S, Cardinality(S)), NEW s \in SUBSET S, NEW y \in s
  PROVE  g[s] = v[y] + g[s \ {y}]
<1> DEFINE N == Cardinality(S)
           AnyOrder(t) == \A x \in t : g[t] = v[x] + g[t \ {x}]
           T == {n \in 0..N : \A t \in SUBSET S : Cardinality(t) <= n => AnyOrder(t)}
<1>1. N \in Nat
  BY FS_CardinalityType
<1>2. 0 \in T
  BY <1>1, SubsetFacts
<1>3. ASSUME NEW n \in 1..N, n - 1 \in T PROVE n \in T
  <2>1. ASSUME NEW t \in SUBSET S, Cardinality(t) <= n, NEW x \in t
        PROVE  g[t] = v[x] + g[t \ {x}]
    <3> DEFINE c == Some(t)
    <3>1. c \in t /\ Cardinality(t) \in Nat /\ Cardinality(t) <= N
      BY SubsetFacts
    <3>2. g[t] = v[c] + g[t \ {c}]
      BY <3>1 DEF Adds
    <3>3. CASE x = c
      BY <3>2, <3>3
    <3>4. CASE x # c
      <4> HIDE DEF c
      <4>1. /\ t \ {c} \in SUBSET S /\ Cardinality(t \ {c}) <= n - 1 /\ x \in t \ {c}
            /\ t \ {x} \in SUBSET S /\ Cardinality(t \ {x}) <= n - 1 /\ c \in t \ {x}
        BY <1>1, <2>1, <3>1, <3>4, SubsetFacts
      <4>2. AnyOrder(t \ {c}) /\ AnyOrder(t \ {x})
        BY <1>3, <4>1
      <4>3. /\ g[t \ {c}] = v[x] + g[(t \ {c}) \ {x}]
            /\ g[t \ {x}] = v[c] + g[(t \ {x}) \ {c}]
        BY <4>1, <4>2
      <4>4. PICK r \in SUBSET S : r = (t \ {c}) \ {x} /\ r = (t \ {x}) \ {c}
        <5>1. (t \ {c}) \ {x} = (t \ {x}) \ {c} /\ (t \ {c}) \ {x} \in SUBSET S
          OBVIOUS
        <5> QED BY <5>1
      <4>5. g[r] \in Nat
        <5>1. Cardinality(r) <= N
          BY SubsetFacts
        <5> QED BY <5>1 DEF Adds
      <4>6. v[x] \in Nat /\ v[c] \in Nat
        BY <3>1
      <4>7. g[t] = v[c] + (v[x] + g[r]) /\ g[t \ {x}] = v[c] + g[r]
        BY <3>2, <4>3, <4>4
      <4> QED BY <4>5, <4>6, <4>7
    <3> QED BY <3>3, <3>4
  <2> QED BY <2>1
<1>4. N \in T
  <2> HIDE DEF N, T
  <2> QED BY <1>1, <1>2, <1>3, ReachesAll
<1>5. Cardinality(s) <= N
  BY SubsetFacts
<1> QED BY <1>4, <1>5

\* There is only one such sum.
LEMMA AddsUnique ==
  ASSUME NEW S, IsFiniteSet(S), NEW R \in SUBSET S, NEW v, NEW w,
         \A x \in R : v[x] \in Nat /\ w[x] = v[x],
         NEW g, Adds(g, v, S, Cardinality(S)), NEW h, Adds(h, w, R, Cardinality(R))
  PROVE  g[R] = h[R]
<1> DEFINE N == Cardinality(R)
           T == {n \in 0..N : \A t \in SUBSET R : Cardinality(t) <= n => g[t] = h[t]}
<1>1. N \in Nat /\ IsFiniteSet(R) /\ N <= Cardinality(S) /\ Cardinality(S) \in Nat
  BY FS_CardinalityType, FS_Subset
<1>2. ASSUME NEW t \in SUBSET R
      PROVE  /\ Cardinality(t) \in Nat /\ Cardinality(t) <= N
             /\ g[t] = IF t = {} THEN 0 ELSE v[Some(t)] + g[t \ {Some(t)}]
             /\ h[t] = IF t = {} THEN 0 ELSE w[Some(t)] + h[t \ {Some(t)}]
             /\ t # {} => Some(t) \in t /\ Cardinality(t \ {Some(t)}) = Cardinality(t) - 1
  <2>1. Cardinality(t) \in Nat /\ Cardinality(t) <= N /\ t \in SUBSET S
        /\ (t # {} => Some(t) \in t /\ Cardinality(t \ {Some(t)}) = Cardinality(t) - 1)
    BY <1>1, SubsetFacts
  <2>2. Cardinality(t) <= Cardinality(S)
    BY <1>1, <2>1
  <2> QED BY <2>1, <2>2 DEF Adds
<1>3. 0 \in T
  BY <1>1, <1>2, SubsetFacts
<1>4. ASSUME NEW n \in 1..N, n - 1 \in T PROVE n \in T
  <2>1. ASSUME NEW t \in SUBSET R, Cardinality(t) <= n PROVE g[t] = h[t]
    <3>1. CASE t = {}
      BY <1>2, <3>1
    <3>2. CASE t # {}
      <4>1. t \ {Some(t)} \in SUBSET R /\ Cardinality(t \ {Some(t)}) <= n - 1 /\ Some(t) \in R
        BY <1>1, <1>2, <2>1, <3>2
      <4>2. g[t \ {Some(t)}] = h[t \ {Some(t)}] /\ w[Some(t)] = v[Some(t)]
        BY <1>4, <4>1
      <4> QED BY <1>2, <3>2, <4>2
    <3> QED BY <3>1, <3>2
  <2> QED BY <2>1
<1>5. N \in T
  <2> HIDE DEF N, T
  <2> QED BY <1>1, <1>3, <1>4, ReachesAll
<1> QED BY <1>1, <1>5

Sum(v, S) ==
  LET g[s \in SUBSET S] == IF s = {} THEN 0 ELSE v[Some(s)] + g[s \ {Some(s)}]
  IN  g[S]

\* A function that follows the recursion is the sum.
LEMMA AddsFrom ==
  ASSUME NEW S, IsFiniteSet(S), NEW v, \A x \in S : v[x] \in Nat, NEW h,
         \A s \in SUBSET S : /\ s = {} => h[s] = 0
                             /\ s # {} => h[s] = v[Some(s)] + h[s \ {Some(s)}]
  PROVE  Adds(h, v, S, Cardinality(S))
<1> DEFINE N == Cardinality(S)
           T == {n \in 0..N : \A s \in SUBSET S : Cardinality(s) <= n => h[s] \in Nat}
<1>1. N \in Nat
  BY FS_CardinalityType
<1>2. 0 \in T
  <2>1. ASSUME NEW s \in SUBSET S, Cardinality(s) <= 0 PROVE h[s] \in Nat
    <3>1. s = {}
      BY <2>1, SubsetFacts
    <3>2. h[s] = 0
      BY <3>1, Zenon
    <3> QED BY <3>2
  <2> QED BY <1>1, <2>1
<1>3. ASSUME NEW n \in 1..N, n - 1 \in T PROVE n \in T
  <2>1. ASSUME NEW s \in SUBSET S, Cardinality(s) <= n PROVE h[s] \in Nat
    <3>1. CASE s = {}
      <4>1. h[s] = 0
        BY <3>1, Zenon
      <4> QED BY <4>1
    <3>2. CASE s # {}
      <4>1. s \ {Some(s)} \in SUBSET S /\ Cardinality(s \ {Some(s)}) <= n - 1 /\ Some(s) \in S
        BY <1>1, <2>1, <3>2, SubsetFacts
      <4>2. h[s \ {Some(s)}] \in Nat /\ v[Some(s)] \in Nat
        BY <1>3, <4>1
      <4> QED BY <3>2, <4>2
    <3> QED BY <3>1, <3>2
  <2> QED BY <2>1
<1>4. N \in T
  <2> HIDE DEF N, T
  <2> QED BY <1>1, <1>2, <1>3, ReachesAll
<1> QED BY <1>4 DEF Adds

LEMMA SumIs ==
  ASSUME NEW S, IsFiniteSet(S), NEW v, \A x \in S : v[x] \in Nat
  PROVE  \E g : Adds(g, v, S, Cardinality(S)) /\ Sum(v, S) = g[S]
<1> DEFINE G(g) == g = [s \in SUBSET S |-> IF s = {} THEN 0 ELSE v[Some(s)] + g[s \ {Some(s)}]]
           h == CHOOSE g : G(g)
<1>1. Sum(v, S) = h[S]
  BY DEF Sum
<1>2. PICK g : /\ g = [s \in SUBSET S |-> IF s = {} THEN 0 ELSE v[Some(s)] + g[s \ {Some(s)}]]
               /\ Adds(g, v, S, Cardinality(S))
  BY AddsExists
<1>3. G(g)
  BY <1>2
<1>4. G(h)
  <2> HIDE DEF G
  <2> QED BY <1>3
<1>5. \A s \in SUBSET S : /\ s = {} => h[s] = 0
                          /\ s # {} => h[s] = v[Some(s)] + h[s \ {Some(s)}]
  BY <1>4
<1> HIDE DEF h
<1>6. Adds(h, v, S, Cardinality(S))
  BY <1>5, AddsFrom
<1> QED BY <1>1, <1>6

LEMMA SumEmpty == ASSUME NEW v PROVE Sum(v, {}) = 0
<1>1. IsFiniteSet({}) /\ Cardinality({}) = 0
  BY FS_EmptySet
<1>2. PICK g : Adds(g, v, {}, Cardinality({})) /\ Sum(v, {}) = g[{}]
  BY <1>1, SumIs
<1> QED BY <1>1, <1>2 DEF Adds

\* Values that agree on a set have the same sum over it.
LEMMA SumAgree ==
  ASSUME NEW S, IsFiniteSet(S), NEW v, NEW w, \A x \in S : v[x] \in Nat /\ w[x] = v[x]
  PROVE  Sum(w, S) = Sum(v, S)
<1>1. PICK g : Adds(g, v, S, Cardinality(S)) /\ Sum(v, S) = g[S]
  BY SumIs
<1>2. PICK h : Adds(h, w, S, Cardinality(S)) /\ Sum(w, S) = h[S]
  BY SumIs
<1>3. S \in SUBSET S
  OBVIOUS
<1>4. g[S] = h[S]
  BY <1>1, <1>2, <1>3, AddsUnique
<1> QED BY <1>1, <1>2, <1>4

LEMMA SumRemove ==
  ASSUME NEW S, IsFiniteSet(S), NEW v, \A x \in S : v[x] \in Nat, NEW y \in S
  PROVE  /\ Sum(v, S) = v[y] + Sum(v, S \ {y})
         /\ Sum(v, S) \in Nat /\ Sum(v, S \ {y}) \in Nat
<1>1. PICK g : Adds(g, v, S, Cardinality(S)) /\ Sum(v, S) = g[S]
  BY SumIs
<1>2. S \in SUBSET S /\ S \ {y} \in SUBSET S /\ IsFiniteSet(S \ {y})
  BY SubsetFacts
<1>3. PICK h : Adds(h, v, S \ {y}, Cardinality(S \ {y})) /\ Sum(v, S \ {y}) = h[S \ {y}]
  BY <1>2, SumIs
<1>4. g[S] = v[y] + g[S \ {y}]
  BY <1>1, <1>2, AnyFirst
<1>5. \A x \in S \ {y} : v[x] \in Nat /\ v[x] = v[x]
  OBVIOUS
<1>6. g[S \ {y}] = h[S \ {y}]
  BY <1>1, <1>2, <1>3, <1>5, AddsUnique
<1>7. g[S \ {y}] \in Nat
  <2>1. Cardinality(S \ {y}) <= Cardinality(S)
    BY <1>2, SubsetFacts
  <2> QED BY <1>1, <1>2, <2>1 DEF Adds
<1> QED BY <1>1, <1>3, <1>4, <1>6, <1>7

LEMMA SumTyped ==
  ASSUME NEW S, IsFiniteSet(S), NEW v, \A x \in S : v[x] \in Nat
  PROVE  Sum(v, S) \in Nat
<1>1. CASE S = {}
  BY <1>1, SumEmpty
<1>2. ASSUME NEW y \in S PROVE Sum(v, S) \in Nat
  BY SumRemove
<1> QED BY <1>1, <1>2

\* One value of a sum changes.
LEMMA SumChange ==
  ASSUME NEW S, IsFiniteSet(S), NEW v, NEW w, \A x \in S : v[x] \in Nat /\ w[x] \in Nat,
         NEW y \in S, \A x \in S \ {y} : w[x] = v[x]
  PROVE  /\ Sum(w, S) + v[y] = Sum(v, S) + w[y]
         /\ Sum(v, S) \in Nat /\ Sum(w, S) \in Nat
<1>1. IsFiniteSet(S \ {y})
  BY SubsetFacts
<1>2. Sum(w, S \ {y}) = Sum(v, S \ {y})
  BY <1>1, SumAgree
<1>3. /\ Sum(v, S) = v[y] + Sum(v, S \ {y}) /\ Sum(v, S) \in Nat
      /\ Sum(v, S \ {y}) \in Nat
  BY SumRemove
<1>4. Sum(w, S) = w[y] + Sum(w, S \ {y}) /\ Sum(w, S) \in Nat
  BY SumRemove
<1> QED BY <1>2, <1>3, <1>4

\* As many times the bound of a value bounds a sum.
LEMMA SumBounded ==
  ASSUME NEW S, IsFiniteSet(S), NEW b \in Nat, NEW v, \A x \in S : v[x] \in 0..b
  PROVE  Sum(v, S) <= Cardinality(S) * b
<1> DEFINE N == Cardinality(S)
           T == {n \in 0..N : \A s \in SUBSET S : Cardinality(s) <= n => Sum(v, s) <= Cardinality(s) * b}
<1>1. N \in Nat
  BY FS_CardinalityType
<1>2. 0 \in T
  <2>1. ASSUME NEW s \in SUBSET S, Cardinality(s) <= 0 PROVE Sum(v, s) <= Cardinality(s) * b
    <3>1. s = {} /\ Cardinality(s) = 0
      BY <2>1, SubsetFacts
    <3> QED BY <3>1, SumEmpty
  <2> QED BY <1>1, <2>1
<1>3. ASSUME NEW n \in 1..N, n - 1 \in T PROVE n \in T
  <2>1. ASSUME NEW s \in SUBSET S, Cardinality(s) <= n PROVE Sum(v, s) <= Cardinality(s) * b
    <3>1. CASE s = {}
      BY <3>1, SumEmpty, FS_EmptySet
    <3>2. ASSUME NEW y \in s PROVE Sum(v, s) <= Cardinality(s) * b
      <4>1. /\ s \ {y} \in SUBSET S /\ Cardinality(s \ {y}) = Cardinality(s) - 1
            /\ Cardinality(s) \in Nat /\ IsFiniteSet(s)
        BY SubsetFacts
      <4>2. Sum(v, s \ {y}) <= (Cardinality(s) - 1) * b
        BY <1>1, <1>3, <2>1, <4>1
      <4>3. Sum(v, s) = v[y] + Sum(v, s \ {y}) /\ Sum(v, s \ {y}) \in Nat
        BY <4>1, SumRemove
      <4>4. v[y] \in 0..b
        OBVIOUS
      <4>5. (Cardinality(s) - 1) * b = Cardinality(s) * b - b
        BY <4>1
      <4> QED BY <4>1, <4>2, <4>3, <4>4, <4>5
    <3> QED BY <3>1, <3>2
  <2> QED BY <2>1
<1>4. N \in T
  <2> HIDE DEF N, T
  <2> QED BY <1>1, <1>2, <1>3, ReachesAll
<1> QED BY <1>1, <1>4

\* Values that are zero do not count.
LEMMA SumOfSome ==
  ASSUME NEW S, IsFiniteSet(S), NEW b \in Nat, NEW v, NEW P \in SUBSET S,
         \A x \in S : v[x] \in 0..b /\ (x \notin P => v[x] = 0)
  PROVE  Sum(v, S) <= Cardinality(P) * b
<1> DEFINE N == Cardinality(S)
           T == {n \in 0..N : \A s \in SUBSET S : P \subseteq s /\ Cardinality(s) <= n =>
                                                Sum(v, s) = Sum(v, P)}
<1>1. N \in Nat
  BY FS_CardinalityType
<1>2. 0 \in T
  <2>1. ASSUME NEW s \in SUBSET S, P \subseteq s, Cardinality(s) <= 0 PROVE s = P
    <3>1. s = {}
      BY <2>1, SubsetFacts
    <3> QED BY <2>1, <3>1
  <2> QED BY <1>1, <2>1
<1>3. ASSUME NEW n \in 1..N, n - 1 \in T PROVE n \in T
  <2>1. ASSUME NEW s \in SUBSET S, P \subseteq s, Cardinality(s) <= n PROVE Sum(v, s) = Sum(v, P)
    <3>1. CASE s = P
      BY <3>1
    <3>2. ASSUME NEW y \in s, y \notin P PROVE Sum(v, s) = Sum(v, P)
      <4>1. /\ s \ {y} \in SUBSET S /\ Cardinality(s \ {y}) = Cardinality(s) - 1
            /\ Cardinality(s) \in Nat /\ IsFiniteSet(s) /\ P \subseteq s \ {y}
        BY <2>1, <3>2, SubsetFacts
      <4>2. Sum(v, s \ {y}) = Sum(v, P)
        BY <1>1, <1>3, <2>1, <4>1
      <4>3. Sum(v, s) = v[y] + Sum(v, s \ {y}) /\ Sum(v, s \ {y}) \in Nat
        BY <4>1, SumRemove
      <4>4. v[y] = 0
        BY <3>2
      <4> QED BY <4>2, <4>3, <4>4
    <3> QED BY <2>1, <3>1, <3>2
  <2> QED BY <2>1
<1>4. N \in T
  <2> HIDE DEF N, T
  <2> QED BY <1>1, <1>2, <1>3, ReachesAll
<1>5. Sum(v, S) = Sum(v, P)
  BY <1>1, <1>4
<1>6. IsFiniteSet(P) /\ \A x \in P : v[x] \in 0..b
  BY FS_Subset
<1>7. Sum(v, P) <= Cardinality(P) * b
  BY <1>6, SumBounded
<1> QED BY <1>5, <1>7

-----------------------------------------------------------------------------
(* The venue's orders.                                                     *)

Status  == {"CREATED", "SUBMITTED", "OPEN", "PARTIALLY_FILLED", "UNKNOWN"} \cup Final
AtVenue == [Attempt -> VenueState \cup {"absent"}]

\* What is placed of an order whose states at the venue are w, and what stands in the way of
\* a further one.
PlacedIn(w)    == {n \in Attempt : w[n] # "absent"}
TakenIn(ad, w) == IF ad = "okx" THEN PlacedIn(w)
                  ELSE {n \in Attempt : w[n] \in {"live", "partially_filled"}}

\* An order with the status l, the exchange id of attempt k, attempt a under way and those of
\* f in flight: what flies has not arrived, and nothing has been sent of a later attempt.
OrderSound(ad, l, k, a, f, w) ==
  /\ \A m, n \in TakenIn(ad, w) : m = n
  /\ k # 0 => k \in PlacedIn(w)
  /\ l = "FILLED" => k # 0 /\ w[k] = "filled"
  /\ l = "CANCELLED" => \E n \in Attempt : w[n] = "canceled"
  /\ l = "CREATED" => a = 0 /\ f = {} /\ PlacedIn(w) = {}
  /\ \A n \in f : w[n] = "absent"
  /\ a > 0 => \A n \in Attempt : n > a => n \notin f /\ w[n] = "absent"

VenueTyped ==
  /\ adapter \in Adapter
  /\ local \in [VenueOrder -> Status] /\ known \in [VenueOrder -> 0..MaxAttempts]
  /\ attempt \in [VenueOrder -> 0..MaxAttempts] /\ flying \in [VenueOrder -> SUBSET Attempt]
  /\ venue \in [VenueOrder -> AtVenue]

VenueInv ==
  /\ VenueTyped
  /\ \A o \in VenueOrder :
       OrderSound(adapter, local[o], known[o], attempt[o], flying[o], venue[o])

-----------------------------------------------------------------------------
(* The keys.                                                               *)

Validation == [pc : {"idle", "waiting", "asking", "closing"}, keys : AnyKeys \cup {NoKeys},
               stage : 1..Len(Stage), attempt : 0..Attempts]

\* The status names the keys of the file.
Shows ==
  /\ conn.keys = file
  /\ DOMAIN conn = {"keys", "configured", "authenticated", "health", "account"}

Alone(v) == \A i, j \in DOMAIN waiting : waiting[i] = v /\ waiting[j] = v => i = j

\* Who is not idle waits once, the clients that are open are the head's, and as long as it
\* asks about other keys than the file's no verdict of such keys was shown.
ConnectionInv ==
  /\ file \in AnyKeys \cup {NoKeys}
  /\ waiting \in Seq(Validator)
  /\ check \in [Validator -> Validation]
  /\ open \subseteq Validator
  /\ late \in {0, 1}
  /\ \A v \in Validator : /\ Alone(v)
                          /\ check[v].pc # "idle" <=> \E i \in DOMAIN waiting : waiting[i] = v
                          /\ check[v].pc = "asking" /\ check[v].keys # file => late = 0
  /\ Shows
  /\ AsksOneAtATime
  /\ VerdictIsOfTheKeys

-----------------------------------------------------------------------------
(* The gates.                                                              *)

SignalType  == [market : Exposed, side : {"BUY", "SELL"}, lots : Lots, reduce_only : BOOLEAN]
ReadType    == [stage : {"read"}, signal : SignalType, held : Nat, cost : Nat]
PricedType  == [stage : {"priced"}, signal : SignalType, held : Nat, cost : Nat, price : Price,
                orders : Nat]
ApprovedType == [stage : {"approved"}, signal : SignalType, price : Price, signed : Nat]
OrderType   == [side : {"BUY", "SELL"}, lots : Lots, price : Price]

CallType    == {Waiting} \cup ReadType \cup PricedType \cup ApprovedType

GateTyped ==
  /\ held \in [Exposed -> Nat] /\ cost \in [Exposed -> Nat]
  /\ made \in Nat /\ DOMAIN open_orders \subseteq 1..made
  /\ settling \subseteq DOMAIN open_orders
  /\ \A i \in DOMAIN open_orders : open_orders[i] \in OrderType
  /\ caller \in [Caller -> CallType]

\* A call whose order the limit on open orders no longer stops.
Counts(x) == \/ x.stage = "priced" /\ x.orders < max_open_orders
             \/ x.stage = "approved"
Counted   == {c \in Caller : Counts(caller[c])}

BuysSpot(x) == x.signal.market = "spot" /\ x.signal.side = "BUY"

Notional(x) == x.signal.lots * x.price

\* The notional of a spot order that a call may still make.
Claim(x) ==
  IF x.stage = "read" /\ BuysSpot(x) /\ x.cost < max_symbol_exposure
  THEN IF max_symbol_exposure - x.cost < max_order_notional THEN max_symbol_exposure - x.cost
       ELSE max_order_notional
  ELSE IF \/ /\ x.stage = "priced" /\ BuysSpot(x)
             /\ Notional(x) <= max_order_notional /\ x.cost + Notional(x) <= max_symbol_exposure
          \/ x.stage = "approved" /\ BuysSpot(x)
  THEN Notional(x) ELSE 0

Claims == [c \in Caller |-> Claim(caller[c])]
Values == [i \in DOMAIN open_orders |-> open_orders[i].lots * open_orders[i].price]
Buys   == {i \in DOMAIN open_orders : open_orders[i].side = "BUY"}

\* What is not yet refused is as small as one order may be.
SmallOrders ==
  /\ \A i \in Buys : Values[i] <= max_order_notional
  /\ \A c \in Caller : Claims[c] <= max_order_notional

\* Every fill that settles is in the hands of the event loop or of a caller that is not busy.
SettlersCounted == Cardinality(settling) <= 1 + Cardinality(Free)

\* The orders of the list with those that nothing stops.
OpenCounted ==
  Cardinality(list_open) + Cardinality(Counted)
    <= max_open_orders + Cardinality(Caller) - 1

\* What is bought, on order, and may still be ordered on what was read.
ExposureCounted ==
  cost["spot"] + Sum(Values, Buys) + Sum(Claims, Caller)
    <= max_symbol_exposure
         + (max_open_orders + 1 + 2 * (Cardinality(Caller) - 1)) * max_order_notional

LimitsInv == GateTyped /\ SmallOrders /\ SettlersCounted /\ OpenCounted /\ ExposureCounted

-----------------------------------------------------------------------------
(* The venue's orders, step by step.                                       *)

LEMMA VenueInitial == VenueInit => VenueInv
<1> SUFFICES ASSUME VenueInit PROVE VenueInv
  OBVIOUS
<1>1. Absent \in [Attempt -> VenueState \cup {"absent"}] /\ \A n \in Attempt : Absent[n] = "absent"
  BY DEF Absent
<1>2. ASSUME NEW o \in VenueOrder
      PROVE  OrderSound(adapter, local[o], known[o], attempt[o], flying[o], venue[o])
  BY <1>1 DEF VenueInit, OrderSound, PlacedIn, TakenIn
<1>3. VenueTyped
  <2>1. 0 \in 0..MaxAttempts /\ "CREATED" \in Status /\ Absent \in AtVenue
    BY <1>1, VenueAssumption DEF Status, AtVenue
  <2> QED BY <2>1 DEF VenueInit, VenueTyped
<1> QED BY <1>2, <1>3 DEF VenueInv

\* Every attempt carries the same id: a copy that arrives after the first opens nothing that
\* stands beside it.
LEMMA RowArrives ==
  ASSUME NEW ad \in Adapter, NEW l, NEW k, NEW a \in 0..MaxAttempts, NEW f \in SUBSET Attempt, NEW w \in AtVenue,
         OrderSound(ad, l, k, a, f, w), NEW n \in f, TakenIn(ad, w) = {},
         NEW s \in {"live", "filled"}
  PROVE  OrderSound(ad, l, k, a, f \ {n}, [w EXCEPT ![n] = s])
<1>1. PICK x \in AtVenue : x = [w EXCEPT ![n] = s]
  BY DEF AtVenue, VenueState
<1>2. n \in Attempt /\ x[n] = s /\ \A m \in Attempt \ {n} : x[m] = w[m]
  BY <1>1 DEF AtVenue
<1>3. w[n] = "absent" /\ a \in Int /\ n \in Int
  BY <1>2 DEF OrderSound, Attempt
<1>4. \A p, q \in TakenIn(ad, x) : p = q
  <2>1. \A p \in TakenIn(ad, x) : p = n
    BY <1>2 DEF TakenIn, PlacedIn
  <2> QED BY <2>1
<1>5. k # 0 => k \in PlacedIn(x) /\ k # n
  BY <1>2, <1>3 DEF OrderSound, PlacedIn
<1>6. l = "FILLED" => k # 0 /\ x[k] = "filled"
  BY <1>2, <1>5 DEF OrderSound, PlacedIn
<1>7. l = "CANCELLED" => \E m \in Attempt : x[m] = "canceled"
  BY <1>2, <1>3 DEF OrderSound
<1>8. l # "CREATED"
  BY DEF OrderSound
<1>9. a > 0 => \A m \in Attempt : m > a => m \notin f \ {n} /\ x[m] = "absent"
  BY <1>2, <1>3 DEF OrderSound
<1>10. \A m \in f \ {n} : x[m] = "absent"
  BY <1>2 DEF OrderSound
<1> QED BY <1>1, <1>4, <1>5, <1>6, <1>7, <1>8, <1>9, <1>10 DEF OrderSound

LEMMA RowTrades ==
  ASSUME NEW ad \in Adapter, NEW l, NEW k, NEW a \in 0..MaxAttempts, NEW f \in SUBSET Attempt, NEW w \in AtVenue,
         OrderSound(ad, l, k, a, f, w), NEW n \in Attempt, w[n] \in {"live", "partially_filled"},
         NEW s \in VenueState \ {"live"}
  PROVE  OrderSound(ad, l, k, a, f, [w EXCEPT ![n] = s])
<1>1. PICK x \in AtVenue : x = [w EXCEPT ![n] = s]
  BY DEF AtVenue
<1>2. x[n] = s /\ s # "absent" /\ \A m \in Attempt \ {n} : x[m] = w[m]
  BY <1>1 DEF AtVenue, VenueState
<1>3. TakenIn(ad, x) \subseteq TakenIn(ad, w) /\ PlacedIn(x) = PlacedIn(w)
  BY <1>2 DEF TakenIn, PlacedIn
<1>4. l = "FILLED" => k # 0 /\ x[k] = "filled"
  BY <1>2 DEF OrderSound, PlacedIn
<1>5. l = "CANCELLED" => \E m \in Attempt : x[m] = "canceled"
  BY <1>2 DEF OrderSound
<1>6. \A m \in Attempt : w[m] = "absent" => x[m] = "absent"
  BY <1>2
<1> QED BY <1>1, <1>3, <1>4, <1>5, <1>6 DEF OrderSound

\* One order moves.
LEMMA OneMoves ==
  ASSUME VenueInv, NEW o \in VenueOrder, VenueTyped', UNCHANGED adapter,
         \A p \in VenueOrder \ {o} :
           /\ local'[p] = local[p] /\ known'[p] = known[p] /\ attempt'[p] = attempt[p]
           /\ flying'[p] = flying[p] /\ venue'[p] = venue[p],
         OrderSound(adapter, local'[o], known'[o], attempt'[o], flying'[o], venue'[o])
  PROVE  VenueInv'
<1>1. ASSUME NEW p \in VenueOrder
      PROVE  OrderSound(adapter, local'[p], known'[p], attempt'[p], flying'[p], venue'[p])
  <2>1. CASE p = o
    BY <2>1
  <2>2. CASE p # o
    <3>1. OrderSound(adapter, local[p], known[p], attempt[p], flying[p], venue[p])
      BY DEF VenueInv
    <3> QED BY <2>2, <3>1
  <2> QED BY <2>1, <2>2
<1> QED BY <1>1 DEF VenueInv

LEMMA VenueSame ==
  ASSUME VenueInv, UNCHANGED <<adapter, local, known, attempt, flying, venue>>
  PROVE  VenueInv'
BY DEF VenueInv, VenueTyped

LEMMA VenueFacts ==
  ASSUME VenueInv, NEW o \in VenueOrder
  PROVE  /\ OrderSound(adapter, local[o], known[o], attempt[o], flying[o], venue[o])
         /\ adapter \in Adapter /\ local[o] \in Status /\ known[o] \in 0..MaxAttempts
         /\ attempt[o] \in 0..MaxAttempts /\ flying[o] \in SUBSET Attempt /\ venue[o] \in AtVenue
         /\ Placed(o) = PlacedIn(venue[o])
         /\ Working(o) = {n \in Attempt : venue[o][n] \in {"live", "partially_filled"}}
BY DEF VenueInv, VenueTyped, Placed, PlacedIn, Working

LEMMA ArriveKept ==
  ASSUME VenueInv, NEW o \in VenueOrder, Arrive(o)
  PROVE  VenueInv'
<1>1. PICK n \in flying[o] :
        /\ flying' = [flying EXCEPT ![o] = @ \ {n}]
        /\ IF IdIsFresh(o, n)
           THEN \E s \in {"live", "filled"} : venue' = [venue EXCEPT ![o][n] = s]
           ELSE UNCHANGED venue
  BY DEF Arrive
<1>2. UNCHANGED <<adapter, local, known, attempt>>
  BY DEF Arrive
<1>3. flying' \in [VenueOrder -> SUBSET Attempt] /\ flying'[o] = flying[o] \ {n}
      /\ \A p \in VenueOrder \ {o} : flying'[p] = flying[p]
  BY <1>1, VenueFacts DEF VenueInv, VenueTyped
<1>4. CASE IdIsFresh(o, n)
  <2>1. PICK s \in {"live", "filled"} : venue' = [venue EXCEPT ![o][n] = s]
    BY <1>1, <1>4
  <2>2. TakenIn(adapter, venue[o]) = {}
    BY <1>4, VenueFacts DEF IdIsFresh, _cl_ord_id, TakenIn
  <2>3. PICK x : x = [venue[o] EXCEPT ![n] = s]
    OBVIOUS
  <2>4. venue' = [venue EXCEPT ![o] = x]
    BY <2>1, <2>3
  <2>5. x \in AtVenue
    BY <2>3, VenueFacts DEF AtVenue, VenueState
  <2>6. venue' \in [VenueOrder -> AtVenue] /\ venue'[o] = x /\ \A p \in VenueOrder \ {o} : venue'[p] = venue[p]
    BY <2>4, <2>5 DEF VenueInv, VenueTyped
  <2>7. OrderSound(adapter, local[o], known[o], attempt[o], flying[o] \ {n}, x)
    BY <2>2, <2>3, VenueFacts, RowArrives
  <2>8. VenueTyped'
    BY <1>2, <1>3, <2>6 DEF VenueInv, VenueTyped
  <2> QED BY <1>2, <1>3, <2>6, <2>7, <2>8, OneMoves
<1>5. CASE ~IdIsFresh(o, n)
  <2>1. UNCHANGED venue
    BY <1>1, <1>5
  <2>2. VenueTyped'
    BY <1>2, <1>3, <2>1 DEF VenueInv, VenueTyped
  <2>3. OrderSound(adapter, local[o], known[o], attempt[o], flying[o] \ {n}, venue[o])
    BY VenueFacts DEF OrderSound
  <2> QED BY <1>2, <1>3, <2>1, <2>2, <2>3, OneMoves
<1> QED BY <1>4, <1>5

LEMMA LoseKept ==
  ASSUME VenueInv, NEW o \in VenueOrder, Lose(o)
  PROVE  VenueInv'
<1>1. PICK n \in flying[o] : flying' = [flying EXCEPT ![o] = @ \ {n}]
  BY DEF Lose
<1>2. UNCHANGED <<adapter, local, known, attempt, venue>>
  BY DEF Lose
<1>3. flying' \in [VenueOrder -> SUBSET Attempt] /\ flying'[o] = flying[o] \ {n}
      /\ \A p \in VenueOrder \ {o} : flying'[p] = flying[p]
  BY <1>1, VenueFacts DEF VenueInv, VenueTyped
<1>4. VenueTyped'
  BY <1>2, <1>3 DEF VenueInv, VenueTyped
<1>5. OrderSound(adapter, local[o], known[o], attempt[o], flying[o] \ {n}, venue[o])
  BY VenueFacts DEF OrderSound
<1> QED BY <1>2, <1>3, <1>4, <1>5, OneMoves

LEMMA TradeKept ==
  ASSUME VenueInv, NEW o \in VenueOrder, Trade(o)
  PROVE  VenueInv'
<1>1. PICK n \in Working(o), s \in VenueState \ {"live"} : venue' = [venue EXCEPT ![o][n] = s]
  BY DEF Trade
<1>2. UNCHANGED <<adapter, local, known, attempt, flying>>
  BY DEF Trade
<1>3. n \in Attempt /\ venue[o][n] \in {"live", "partially_filled"}
  BY VenueFacts
<1>4. PICK x : x = [venue[o] EXCEPT ![n] = s]
  OBVIOUS
<1>5. venue' = [venue EXCEPT ![o] = x]
  BY <1>1, <1>4
<1>6. x \in AtVenue
  BY <1>4, VenueFacts DEF AtVenue
<1>7. venue' \in [VenueOrder -> AtVenue] /\ venue'[o] = x /\ \A p \in VenueOrder \ {o} : venue'[p] = venue[p]
  BY <1>5, <1>6 DEF VenueInv, VenueTyped
<1>8. OrderSound(adapter, local[o], known[o], attempt[o], flying[o], x)
  BY <1>3, <1>4, VenueFacts, RowTrades
<1>9. VenueTyped'
  BY <1>2, <1>7 DEF VenueInv, VenueTyped
<1> QED BY <1>2, <1>7, <1>8, <1>9, OneMoves

LEMMA SubmitKept ==
  ASSUME VenueInv, NEW o \in VenueOrder, Submit(o)
  PROVE  VenueInv'
<1>1. /\ local[o] = "CREATED" /\ local' = [local EXCEPT ![o] = "SUBMITTED"]
      /\ attempt' = [attempt EXCEPT ![o] = 1] /\ flying' = [flying EXCEPT ![o] = {1}]
      /\ UNCHANGED <<adapter, known, venue>>
  BY DEF Submit
<1>2. 1 \in Attempt /\ 1 \in 0..MaxAttempts
  BY VenueAssumption DEF Attempt
<1>3. VenueTyped'
  BY <1>1, <1>2 DEF VenueInv, VenueTyped, Status
<1>4. /\ local'[o] = "SUBMITTED" /\ attempt'[o] = 1 /\ flying'[o] = {1}
      /\ \A p \in VenueOrder \ {o} :
           local'[p] = local[p] /\ attempt'[p] = attempt[p] /\ flying'[p] = flying[p]
  BY <1>1 DEF VenueInv, VenueTyped
<1>5. OrderSound(adapter, "SUBMITTED", known[o], 1, {1}, venue[o])
  <2>1. PlacedIn(venue[o]) = {}
    BY <1>1, VenueFacts DEF OrderSound
  <2>2. \A n \in Attempt : venue[o][n] = "absent"
    BY <2>1 DEF PlacedIn
  <2>3. \A n \in Attempt : n > 1 => n \notin {1}
    BY DEF Attempt
  <2> QED BY <1>2, <2>2, <2>3, VenueFacts DEF OrderSound
<1> QED BY <1>1, <1>3, <1>4, <1>5, OneMoves

\* The calls that store something of an order and leave the venue alone.
LEMMA StoredKept ==
  ASSUME VenueInv, NEW o \in VenueOrder, UNCHANGED <<adapter, flying, venue>>,
         NEW l2 \in Status \ {"CREATED"}, NEW k2 \in 0..MaxAttempts, NEW a2 \in {0, attempt[o]},
         local' = [local EXCEPT ![o] = l2], known' = [known EXCEPT ![o] = k2],
         attempt' = [attempt EXCEPT ![o] = a2],
         k2 # 0 => k2 \in Placed(o),
         l2 = "FILLED" => k2 # 0 /\ venue[o][k2] = "filled",
         l2 = "CANCELLED" => \E n \in Attempt : venue[o][n] = "canceled"
  PROVE  VenueInv'
<1>1. OrderSound(adapter, l2, k2, a2, flying[o], venue[o])
  <2>1. PICK l, k, a, f, w : /\ l = local[o] /\ k = known[o] /\ a = attempt[o]
                             /\ f = flying[o] /\ w = venue[o]
    OBVIOUS
  <2>2. /\ OrderSound(adapter, l, k, a, f, w) /\ adapter \in Adapter
        /\ f \in SUBSET Attempt /\ w \in AtVenue /\ a2 \in {0, a} /\ l2 # "CREATED"
        /\ k2 # 0 => k2 \in PlacedIn(w)
        /\ l2 = "FILLED" => k2 # 0 /\ w[k2] = "filled"
        /\ l2 = "CANCELLED" => \E n \in Attempt : w[n] = "canceled"
    BY <2>1, VenueFacts
  <2>3. OrderSound(adapter, l2, k2, a2, f, w)
    BY <2>2 DEF OrderSound
  <2> QED BY <2>1, <2>3
<1>2. a2 \in 0..MaxAttempts
  BY VenueFacts, VenueAssumption
<1>3. VenueTyped'
  BY <1>2 DEF VenueInv, VenueTyped
<1>4. /\ local'[o] = l2 /\ known'[o] = k2 /\ attempt'[o] = a2
      /\ \A p \in VenueOrder \ {o} :
           local'[p] = local[p] /\ known'[p] = known[p] /\ attempt'[p] = attempt[p]
  BY DEF VenueInv, VenueTyped
<1> QED BY <1>1, <1>3, <1>4, OneMoves

LEMMA ReturnedKept ==
  ASSUME VenueInv, NEW o \in VenueOrder,
         Acknowledged(o) \/ Erroneous(o) \/ (attempt[o] = MaxAttempts /\ Unanswered(o))
  PROVE  VenueInv'
<1>1. known = [known EXCEPT ![o] = known[o]]
  BY DEF VenueInv, VenueTyped
<1>2. known[o] # 0 => known[o] \in Placed(o)
  BY VenueFacts DEF OrderSound
<1>3. CASE Acknowledged(o)
  <2>1. attempt[o] \in Placed(o) /\ attempt[o] \in 0..MaxAttempts /\ "OPEN" \in Status \ {"CREATED"}
    BY <1>3, VenueFacts DEF Acknowledged, Status
  <2> QED BY <1>3, <2>1, StoredKept DEF Acknowledged, Returned
<1>4. CASE Erroneous(o)
  <2>1. "UNKNOWN" \in Status \ {"CREATED"} /\ known[o] \in 0..MaxAttempts
    BY VenueFacts DEF Status
  <2> QED BY <1>1, <1>2, <1>4, <2>1, StoredKept DEF Erroneous, Returned
<1>5. CASE attempt[o] = MaxAttempts /\ Unanswered(o)
  <2>1. "UNKNOWN" \in Status \ {"CREATED"} /\ known[o] \in 0..MaxAttempts
    BY VenueFacts DEF Status
  <2>2. ~(attempt[o] < MaxAttempts)
    BY <1>5, VenueAssumption
  <2>3. Returned(o, "UNKNOWN") /\ UNCHANGED <<adapter, known, flying, venue>>
    BY <1>5, <2>2 DEF Unanswered
  <2> QED BY <1>1, <1>2, <2>1, <2>3, StoredKept DEF Returned
<1> QED BY <1>3, <1>4, <1>5

\* The next attempt's request has not arrived yet.
LEMMA RepeatedKept ==
  ASSUME VenueInv, NEW o \in VenueOrder, attempt[o] # MaxAttempts, Unanswered(o)
  PROVE  VenueInv'
<1>1. PICK a \in Nat, n \in Nat : a = attempt[o] /\ n = a + 1
  BY VenueFacts
<1>2. /\ 0 < a /\ a < MaxAttempts /\ attempt' = [attempt EXCEPT ![o] = n]
      /\ flying' = [flying EXCEPT ![o] = @ \cup {n}]
      /\ UNCHANGED <<adapter, local, known, venue>>
  BY <1>1 DEF Unanswered
<1>3. n \in Attempt /\ n \in 0..MaxAttempts
  BY <1>1, <1>2, VenueAssumption DEF Attempt
<1>4. VenueTyped'
  BY <1>2, <1>3 DEF VenueInv, VenueTyped
<1>5. /\ attempt'[o] = n /\ flying'[o] = flying[o] \cup {n}
      /\ \A p \in VenueOrder \ {o} : attempt'[p] = attempt[p] /\ flying'[p] = flying[p]
  BY <1>2 DEF VenueInv, VenueTyped
<1>6. PICK f, w : f = flying[o] /\ w = venue[o]
  OBVIOUS
<1>7. OrderSound(adapter, local[o], known[o], a, f, w)
  BY <1>1, <1>6, VenueFacts
<1>8. w[n] = "absent" /\ n \notin f
  BY <1>1, <1>2, <1>3, <1>7 DEF OrderSound
<1>9. \A m \in Attempt : m > n => m # n /\ m > a
  BY <1>1 DEF Attempt
<1>10. local[o] # "CREATED"
  BY <1>2, <1>7 DEF OrderSound
<1>11. OrderSound(adapter, local[o], known[o], n, f \cup {n}, w)
  BY <1>2, <1>7, <1>8, <1>9, <1>10 DEF OrderSound
<1> QED BY <1>2, <1>4, <1>5, <1>6, <1>11, OneMoves

LEMMA RecoverKept ==
  ASSUME VenueInv, NEW o \in VenueOrder, Recover(o)
  PROVE  VenueInv'
<1>1. /\ UNCHANGED <<adapter, attempt, flying, venue>> /\ local[o] \notin Final \cup {"CREATED"}
      /\ attempt = [attempt EXCEPT ![o] = attempt[o]]
  BY DEF Recover, VenueInv, VenueTyped
<1>2. CASE get_order(o)
  <2>1. PICK n \in Found(o) :
          /\ local' = [local EXCEPT ![o] =
                         IF status_map[venue[o][n]] = "UNKNOWN" THEN @ ELSE status_map[venue[o][n]]]
          /\ known' = [known EXCEPT ![o] =
                         IF @ = 0 /\ venue[o][n] \in {"live", "partially_filled", "filled"} THEN n ELSE @]
    BY <1>2 DEF get_order
  <2>2. n \in Placed(o) /\ n \in Attempt /\ venue[o][n] \in VenueState /\ (known[o] # 0 => n = known[o])
        /\ (known[o] # 0 => known[o] \in Placed(o)) /\ 0 \notin Attempt /\ Attempt \subseteq 0..MaxAttempts
    <3>1. n \in PlacedIn(venue[o]) /\ (known[o] # 0 => n = known[o])
          /\ (known[o] # 0 => known[o] \in PlacedIn(venue[o]))
      BY VenueFacts DEF Found, OrderSound
    <3>2. 0 \notin Attempt /\ Attempt \subseteq 0..MaxAttempts
      BY VenueAssumption DEF Attempt
    <3> QED BY <3>1, <3>2, VenueFacts DEF PlacedIn, AtVenue
  <2>3. PICK st, l2, k2 :
          /\ st = venue[o][n]
          /\ l2 = IF status_map[st] = "UNKNOWN" THEN local[o] ELSE status_map[st]
          /\ k2 = IF known[o] = 0 /\ st \in {"live", "partially_filled", "filled"} THEN n ELSE known[o]
    OBVIOUS
  <2>4. local' = [local EXCEPT ![o] = l2] /\ known' = [known EXCEPT ![o] = k2]
    BY <2>1, <2>3
  <2>5. /\ status_map[st] \in {"OPEN", "PARTIALLY_FILLED", "FILLED", "CANCELLED", "UNKNOWN"}
        /\ status_map[st] = "FILLED" => st = "filled"
        /\ status_map[st] = "CANCELLED" => st = "canceled"
    BY <2>2, <2>3 DEF status_map, VenueState
  <2>6. l2 \in Status \ {"CREATED"}
    BY <1>1, <2>3, <2>5, VenueFacts DEF Status, Final
  <2>7. k2 \in 0..MaxAttempts /\ (k2 # 0 => k2 \in Placed(o))
    BY <2>2, <2>3, VenueFacts
  <2>8. l2 = "FILLED" => k2 # 0 /\ venue[o][k2] = "filled"
    <3> SUFFICES ASSUME l2 = "FILLED" PROVE k2 # 0 /\ venue[o][k2] = "filled"
      OBVIOUS
    <3>1. st = "filled"
      BY <1>1, <2>3, <2>5 DEF Final
    <3>2. k2 = n
      BY <2>2, <2>3, <3>1
    <3> QED BY <2>2, <2>3, <3>1, <3>2
  <2>9. l2 = "CANCELLED" => venue[o][n] = "canceled"
    BY <1>1, <2>3, <2>5 DEF Final
  <2> QED BY <1>1, <2>2, <2>4, <2>6, <2>7, <2>8, <2>9, StoredKept
<1>3. CASE NotFound(o)
  <2>1. local' = [local EXCEPT ![o] = "REJECTED"] /\ known' = known
    BY <1>3 DEF NotFound
  <2>2. known = [known EXCEPT ![o] = known[o]] /\ known[o] \in 0..MaxAttempts
    BY VenueFacts DEF VenueInv, VenueTyped
  <2>3. "REJECTED" \in Status \ {"CREATED"}
    BY DEF Status, Final
  <2>4. known[o] # 0 => known[o] \in Placed(o)
    BY VenueFacts DEF OrderSound
  <2> QED BY <1>1, <2>1, <2>2, <2>3, <2>4, StoredKept
<1> QED BY <1>2, <1>3 DEF Recover

LEMMA CrashKept ==
  ASSUME VenueInv, CrashAndRestart
  PROVE  VenueInv'
<1>1. attempt' = [o \in VenueOrder |-> 0] /\ UNCHANGED <<adapter, local, known, flying, venue>>
  BY DEF CrashAndRestart
<1>2. VenueTyped'
  BY <1>1, VenueAssumption DEF VenueInv, VenueTyped
<1>3. ASSUME NEW o \in VenueOrder
      PROVE  OrderSound(adapter, local[o], known[o], 0, flying[o], venue[o])
  BY VenueFacts DEF OrderSound
<1> QED BY <1>1, <1>2, <1>3 DEF VenueInv

LEMMA VenueStep ==
  ASSUME VenueInv, VenueNext
  PROVE  VenueInv'
<1>1. ASSUME NEW o \in VenueOrder, Unanswered(o) PROVE VenueInv'
  BY <1>1, ReturnedKept, RepeatedKept
<1> QED
  BY <1>1, SubmitKept, ArriveKept, LoseKept, TradeKept, RecoverKept, ReturnedKept, CrashKept DEF VenueNext

LEMMA OneOrder == VenueInv => OneOrderPerId /\ FinalIsTheVenues
<1> SUFFICES ASSUME VenueInv, NEW o \in VenueOrder
             PROVE  /\ Cardinality(IF adapter = "okx" THEN Placed(o) ELSE Working(o)) <= 1
                    /\ local[o] = "FILLED" => known[o] \in Placed(o) /\ venue[o][known[o]] = "filled"
                    /\ local[o] = "CANCELLED" => \E n \in Attempt : venue[o][n] = "canceled"
  BY DEF OneOrderPerId, FinalIsTheVenues
<1>1. PICK s : s = TakenIn(adapter, venue[o])
  OBVIOUS
<1>2. s = IF adapter = "okx" THEN Placed(o) ELSE Working(o)
  BY <1>1, VenueFacts DEF TakenIn
<1>3. \A m, n \in s : m = n
  BY <1>1, VenueFacts DEF OrderSound
<1>4. Cardinality({}) = 0
  BY FS_EmptySet
<1>5. ASSUME NEW n \in s PROVE Cardinality(s) <= 1
  <2>1. s = {n}
    BY <1>3
  <2>2. Cardinality({n}) = 1
    BY FS_Singleton, Zenon
  <2> QED BY <2>1, <2>2
<1>6. Cardinality(s) <= 1
  <2>1. CASE s = {}
    BY <1>4, <2>1
  <2>2. CASE s # {}
    BY <1>5, <2>2
  <2> QED BY <2>1, <2>2
<1>7. local[o] = "FILLED" => known[o] \in Placed(o) /\ venue[o][known[o]] = "filled"
  BY VenueFacts DEF OrderSound
<1>8. local[o] = "CANCELLED" => \E n \in Attempt : venue[o][n] = "canceled"
  BY VenueFacts DEF OrderSound
<1> QED BY <1>2, <1>6, <1>7, <1>8

-----------------------------------------------------------------------------
(* The keys, step by step.                                                 *)

\* The application starts with the keys of its file.
LEMMA StartSound ==
  ASSUME NEW k \in AnyKeys \cup {NoKeys}, file' = k, conn' = configure(k), open' = {}, late' = 0,
         waiting' = IF k = NoKeys THEN <<>> ELSE <<Startup>>,
         check' = [v \in Validator |-> IF v = Startup /\ k # NoKeys
                                        THEN [Idle EXCEPT !.pc = "waiting"] ELSE Idle]
  PROVE  ConnectionInv'
<1>1. Idle \in Validation /\ [Idle EXCEPT !.pc = "waiting"] \in Validation
      /\ Idle.pc = "idle" /\ [Idle EXCEPT !.pc = "waiting"].pc = "waiting"
  BY DEF Idle, Validation, Stage, Attempts
<1>2. Startup \in Validator
  BY ConnectionAssumption
<1>3. /\ check' \in [Validator -> Validation]
      /\ \A v \in Validator :
           check'[v].pc = IF v = Startup /\ k # NoKeys THEN "waiting" ELSE "idle"
  BY <1>1
<1>4. /\ waiting' \in Seq(Validator)
      /\ \A i, j \in DOMAIN waiting' : i = j
      /\ \A v \in Validator : check'[v].pc # "idle" <=> \E i \in DOMAIN waiting' : waiting'[i] = v
  <2>1. CASE k = NoKeys
    BY <1>3, <2>1
  <2>2. CASE k # NoKeys
    <3>1. waiting' = <<Startup>>
      BY <2>2
    <3>2. DOMAIN waiting' = {1} /\ waiting'[1] = Startup /\ waiting' \in Seq(Validator)
      BY <1>2, <3>1
    <3> QED BY <1>3, <2>2, <3>2
  <2> QED BY <2>1, <2>2
<1>5. Shows' /\ ~conn'.authenticated
  BY DEF configure, Shows
<1>6. AsksOneAtATime'
  BY <1>3 DEF AsksOneAtATime
<1>7. VerdictIsOfTheKeys'
  BY <1>5 DEF VerdictIsOfTheKeys, Shows
<1> QED BY <1>3, <1>4, <1>5, <1>6, <1>7 DEF ConnectionInv, Alone

\* The keys change under whatever validation goes on.
LEMMA StoreKept ==
  ASSUME ConnectionInv, NEW k \in AnyKeys \cup {NoKeys}, Store(k)
  PROVE  ConnectionInv'
<1>1. /\ file' = k /\ conn' = configure(k) /\ late' = 0
      /\ UNCHANGED <<waiting, check, open>>
  BY DEF Store
<1>2. Shows' /\ ~conn'.authenticated
  BY <1>1 DEF configure, Shows
<1>3. AsksOneAtATime'
  BY <1>1 DEF ConnectionInv, AsksOneAtATime, Holds
<1>4. VerdictIsOfTheKeys'
  BY <1>1, <1>2 DEF VerdictIsOfTheKeys, Shows
<1> QED BY <1>1, <1>2, <1>3, <1>4 DEF ConnectionInv, Alone

\* A validation goes on without leaving the queue.
LEMMA CheckKept ==
  ASSUME ConnectionInv, NEW v \in Validator, NEW c \in Validation,
         check' = [check EXCEPT ![v] = c], c.pc # "idle", check[v].pc # "idle",
         UNCHANGED <<file, waiting>>, open' \subseteq Validator,
         AsksOneAtATime', Shows', VerdictIsOfTheKeys', late' \in {0, 1},
         \A u \in Validator : check'[u].pc = "asking" /\ check'[u].keys # file => late' = 0
  PROVE  ConnectionInv'
<1>1. check'[v] = c /\ \A u \in Validator \ {v} : check'[u] = check[u]
  BY DEF ConnectionInv
<1>2. check' \in [Validator -> Validation]
  BY DEF ConnectionInv
<1>3. \A u \in Validator : check'[u].pc # "idle" <=> check[u].pc # "idle"
  BY <1>1
<1> QED BY <1>2, <1>3 DEF ConnectionInv, Alone

\* The head of the queue leaves it; nobody has a client open then.
LEMMA ReleasedKept ==
  ASSUME ConnectionInv, NEW v \in Validator, Holds(v), Released(v),
         open' = {}, UNCHANGED <<file, late>>, Shows',
         VerdictIsOfTheKeys', open \subseteq {v}
  PROVE  ConnectionInv'
<1>1. /\ waiting \in Seq(Validator) /\ waiting # <<>> /\ waiting[1] = v
      /\ waiting' = Tail(waiting) /\ check' = [check EXCEPT ![v] = Idle]
  BY DEF Holds, Released, ConnectionInv
<1>2. Idle \in Validation /\ Idle.pc = "idle"
  BY DEF Idle, Validation, Stage, Attempts
<1>3. /\ check' \in [Validator -> Validation] /\ check'[v] = Idle
      /\ \A u \in Validator \ {v} : check'[u] = check[u]
  BY <1>1, <1>2 DEF ConnectionInv
<1>4. /\ waiting' \in Seq(Validator)
      /\ DOMAIN waiting' = 1..(Len(waiting) - 1) /\ DOMAIN waiting = 1..Len(waiting)
      /\ Len(waiting) \in Nat \ {0}
      /\ \A i \in DOMAIN waiting' : i + 1 \in DOMAIN waiting /\ waiting'[i] = waiting[i + 1]
  BY <1>1
<1>5. \A i \in DOMAIN waiting : waiting[i] = v => i = 1
  <2>1. Alone(v) /\ 1 \in DOMAIN waiting
    BY <1>4 DEF ConnectionInv
  <2> QED BY <1>1, <2>1 DEF Alone
<1>6. ASSUME NEW u \in Validator PROVE Alone(u)'
  <2>1. Alone(u)
    BY DEF ConnectionInv
  <2>2. ASSUME NEW i \in DOMAIN waiting', NEW j \in DOMAIN waiting',
               waiting'[i] = u, waiting'[j] = u
        PROVE  i = j
    <3>1. i + 1 = j + 1
      BY <1>4, <2>1, <2>2 DEF Alone
    <3> QED BY <1>4, <3>1
  <2> QED BY <2>2 DEF Alone
<1>7. ASSUME NEW u \in Validator
      PROVE  check'[u].pc # "idle" <=> \E i \in DOMAIN waiting' : waiting'[i] = u
  <2>1. CASE u = v
    <3>1. \A i \in DOMAIN waiting' : waiting'[i] # v
      BY <1>4, <1>5
    <3> QED BY <1>2, <1>3, <2>1, <3>1
  <2>2. CASE u # v
    <3>1. check[u].pc # "idle" <=> \E i \in DOMAIN waiting : waiting[i] = u
      BY DEF ConnectionInv
    <3>2. ASSUME NEW i \in DOMAIN waiting, waiting[i] = u
          PROVE  \E j \in DOMAIN waiting' : waiting'[j] = u
      <4>1. i # 1
        BY <1>1, <2>2, <3>2
      <4>2. i - 1 \in DOMAIN waiting' /\ (i - 1) + 1 = i
        BY <1>4, <4>1
      <4> QED BY <1>4, <3>2, <4>2
    <3>3. ASSUME NEW j \in DOMAIN waiting', waiting'[j] = u
          PROVE  \E i \in DOMAIN waiting : waiting[i] = u
      BY <1>4, <3>3
    <3> QED BY <1>3, <2>2, <3>1, <3>2, <3>3
  <2> QED BY <2>1, <2>2
<1>8. \A u \in Validator : check'[u].pc \notin {"asking", "closing"}
  <2>1. \A u \in Validator : u # v => check[u].pc \notin {"asking", "closing"}
    BY DEF ConnectionInv, AsksOneAtATime
  <2> QED BY <1>2, <1>3, <2>1
<1>9. AsksOneAtATime'
  BY <1>8 DEF AsksOneAtATime
<1> QED BY <1>3, <1>4, <1>6, <1>7, <1>8, <1>9 DEF ConnectionInv

\* Whoever has the client open is the head, and so is the only one.
LEMMA OnlyHead ==
  ASSUME ConnectionInv, NEW v \in Validator, Holds(v)
  PROVE  open \subseteq {v} /\ \A u \in Validator \ {v} : check[u].pc \notin {"asking", "closing"}
BY DEF ConnectionInv, AsksOneAtATime, Holds

LEMMA AskersHold ==
  ASSUME ConnectionInv, NEW v \in Validator, check[v].pc \in {"asking", "closing"}
  PROVE  v \in open /\ Holds(v) /\ check[v].keys \in Keys
BY DEF ConnectionInv, AsksOneAtATime

LEMMA ValidateKept ==
  ASSUME ConnectionInv, NEW v \in Validator, validate_okx_credentials(v)
  PROVE  ConnectionInv'
<1> DEFINE c == [check[v] EXCEPT !.pc = "waiting"]
<1>1. /\ check[v] = Idle /\ waiting' = Append(waiting, v)
      /\ check' = [check EXCEPT ![v] = c]
      /\ UNCHANGED <<file, conn, open, late>>
  BY DEF validate_okx_credentials
<1>2. waiting \in Seq(Validator) /\ check \in [Validator -> Validation] /\ check[v] \in Validation
  BY DEF ConnectionInv
<1>3. c \in Validation /\ c.pc = "waiting"
  BY <1>2 DEF Validation
<1> HIDE DEF c
<1>4. /\ check' \in [Validator -> Validation] /\ check'[v].pc = "waiting"
      /\ \A u \in Validator \ {v} : check'[u] = check[u]
  BY <1>1, <1>2, <1>3
<1>5. /\ waiting' \in Seq(Validator)
      /\ DOMAIN waiting = 1..Len(waiting) /\ Len(waiting) \in Nat
      /\ DOMAIN waiting' = 1..(Len(waiting) + 1)
      /\ \A i \in DOMAIN waiting : waiting'[i] = waiting[i]
      /\ waiting'[Len(waiting) + 1] = v
  BY <1>1, <1>2
<1>6. \A i \in DOMAIN waiting : waiting[i] # v
  BY <1>1 DEF ConnectionInv, Idle
<1>7. \A u \in Validator : Alone(u)'
  <2>1. ASSUME NEW u \in Validator, NEW i \in DOMAIN waiting', NEW j \in DOMAIN waiting',
               waiting'[i] = u, waiting'[j] = u
        PROVE  i = j
    <3>1. CASE u = v
      <4>1. i = Len(waiting) + 1 /\ j = Len(waiting) + 1
        BY <1>5, <1>6, <2>1, <3>1
      <4> QED BY <4>1
    <3>2. CASE u # v
      <4>1. i \in DOMAIN waiting /\ j \in DOMAIN waiting
        BY <1>5, <2>1, <3>2
      <4>2. Alone(u)
        BY DEF ConnectionInv
      <4> QED BY <1>5, <2>1, <4>1, <4>2 DEF Alone
    <3> QED BY <3>1, <3>2
  <2> QED BY <2>1 DEF Alone
<1>8. ASSUME NEW u \in Validator
      PROVE  check'[u].pc # "idle" <=> \E i \in DOMAIN waiting' : waiting'[i] = u
  <2>1. CASE u = v
    <3>1. Len(waiting) + 1 \in DOMAIN waiting'
      BY <1>5
    <3> QED BY <1>4, <1>5, <2>1, <3>1
  <2>2. CASE u # v
    <3>1. check[u].pc # "idle" <=> \E i \in DOMAIN waiting : waiting[i] = u
      BY DEF ConnectionInv
    <3>2. ASSUME NEW i \in DOMAIN waiting, waiting[i] = u
          PROVE  \E j \in DOMAIN waiting' : waiting'[j] = u
      BY <1>5, <3>2
    <3>3. ASSUME NEW j \in DOMAIN waiting', waiting'[j] = u
          PROVE  \E i \in DOMAIN waiting : waiting[i] = u
      <4>1. j \in DOMAIN waiting
        BY <1>5, <2>2, <3>3
      <4> QED BY <1>5, <3>3, <4>1
    <3> QED BY <1>4, <2>2, <3>1, <3>2, <3>3
  <2> QED BY <2>1, <2>2
<1>9. AsksOneAtATime'
  <2>1. v \notin open
    BY <1>1 DEF ConnectionInv, AsksOneAtATime, Idle
  <2>2. ASSUME NEW u \in open PROVE Holds(u)' /\ check'[u].keys \in Keys
    <3>1. u \in Validator /\ u # v /\ Holds(u) /\ check[u].keys \in Keys
      BY <2>1 DEF ConnectionInv, AsksOneAtATime
    <3>2. waiting # <<>> /\ 1 \in DOMAIN waiting /\ waiting[1] = u
      BY <1>2, <1>5, <3>1 DEF Holds
    <3>3. waiting' # <<>> /\ Head(waiting') = u
      BY <1>5, <3>2
    <3> QED BY <1>4, <3>1, <3>3 DEF Holds
  <2>3. \A u \in Validator : check'[u].pc \in {"asking", "closing"} <=> u \in open
    BY <1>4, <2>1 DEF ConnectionInv, AsksOneAtATime
  <2> QED BY <1>1, <2>2, <2>3 DEF AsksOneAtATime
<1>10. VerdictIsOfTheKeys'
  BY <1>1 DEF ConnectionInv, VerdictIsOfTheKeys
<1>11. \A u \in Validator : check'[u].pc = "asking" /\ check'[u].keys # file => late' = 0
  BY <1>1, <1>4 DEF ConnectionInv
<1> QED BY <1>1, <1>4, <1>5, <1>7, <1>8, <1>9, <1>10, <1>11 DEF ConnectionInv, Shows

LEMMA ReuseKept ==
  ASSUME ConnectionInv, NEW v \in Validator, Reuse(v)
  PROVE  ConnectionInv'
<1>1. /\ check[v].pc = "waiting" /\ Holds(v) /\ Released(v)
      /\ UNCHANGED <<file, conn, open, late>>
  BY DEF Reuse
<1>2. open = {}
  BY <1>1, OnlyHead DEF ConnectionInv, AsksOneAtATime
<1> QED BY <1>1, <1>2, ReleasedKept DEF ConnectionInv, Shows, VerdictIsOfTheKeys

\* A verdict changes neither the keys that are shown nor those of the account, unless it is
\* positive.
LEMMA VerdictShown ==
  ASSUME NEW health \in {"NOT_CONFIGURED", "DEGRADED", "HEALTHY"}, NEW k,
         DOMAIN conn = {"keys", "configured", "authenticated", "health", "account"},
         conn' = validation(health, k)
  PROVE  /\ conn'.keys = conn.keys /\ conn'.authenticated = (health = "HEALTHY")
         /\ conn'.account = IF health = "HEALTHY" THEN k ELSE conn.account
         /\ DOMAIN conn' = DOMAIN conn
BY DEF validation

LEMMA DeclineKept ==
  ASSUME ConnectionInv, NEW v \in Validator, Decline(v)
  PROVE  ConnectionInv'
<1> DEFINE health == IF file = NoKeys THEN "NOT_CONFIGURED" ELSE "DEGRADED"
<1>1. /\ check[v].pc = "waiting" /\ Holds(v) /\ Released(v)
      /\ conn' = validation(health, file) /\ UNCHANGED <<file, open, late>>
  BY DEF Decline
<1>2. open = {}
  BY <1>1, OnlyHead DEF ConnectionInv, AsksOneAtATime
<1>3. Shows' /\ ~conn'.authenticated
  BY <1>1, VerdictShown DEF ConnectionInv, Shows
<1>4. VerdictIsOfTheKeys'
  BY <1>1, <1>3 DEF ConnectionInv, Shows, VerdictIsOfTheKeys
<1> QED BY <1>1, <1>2, <1>3, <1>4, ReleasedKept

LEMMA ConnectKept ==
  ASSUME ConnectionInv, NEW v \in Validator, Connect(v)
  PROVE  ConnectionInv'
<1> DEFINE c == [pc |-> "asking", keys |-> file, stage |-> 1, attempt |-> 1]
<1>1. /\ check[v].pc = "waiting" /\ Holds(v) /\ ~conn.authenticated /\ file \in Keys
      /\ check' = [check EXCEPT ![v] = c] /\ open' = open \cup {v}
      /\ UNCHANGED <<file, conn, waiting, late>>
  BY DEF Connect
<1>2. c \in Validation /\ c.pc = "asking" /\ c.keys = file
  BY <1>1 DEF Validation, AnyKeys, Stage, Attempts
<1> HIDE DEF c
<1>3. open = {} /\ \A u \in Validator \ {v} : check[u].pc \notin {"asking", "closing"}
  BY <1>1, OnlyHead DEF ConnectionInv, AsksOneAtATime
<1>4. check'[v] = c /\ \A u \in Validator \ {v} : check'[u] = check[u]
  BY <1>1 DEF ConnectionInv
<1>5. AsksOneAtATime'
  BY <1>1, <1>2, <1>3, <1>4 DEF AsksOneAtATime, Holds
<1>6. \A u \in Validator : check'[u].pc = "asking" => check'[u].keys = file
  BY <1>2, <1>3, <1>4
<1> QED
  BY <1>1, <1>2, <1>3, <1>5, <1>6, CheckKept DEF ConnectionInv, Shows, VerdictIsOfTheKeys

\* The holder of the lock goes on with its requests, or ends with a verdict.
LEMMA AskKept ==
  ASSUME ConnectionInv, NEW v \in Validator, NEW c \in Validation,
         check[v].pc = "asking", check' = [check EXCEPT ![v] = c], c.keys = check[v].keys,
         c.pc \in {"asking", "closing"}, UNCHANGED <<file, waiting, open>>,
         late' \in {0, 1}, c.pc = "asking" => late' = late, Shows', VerdictIsOfTheKeys'
  PROVE  ConnectionInv'
<1>1. check'[v] = c /\ \A u \in Validator \ {v} : check'[u] = check[u]
  BY DEF ConnectionInv
<1>2. AsksOneAtATime'
  <2>1. \A u \in Validator : check'[u].keys = check[u].keys
    BY <1>1
  <2>2. \A u \in Validator : check'[u].pc \in {"asking", "closing"} <=>
                             check[u].pc \in {"asking", "closing"}
    BY <1>1
  <2> QED BY <2>1, <2>2 DEF ConnectionInv, AsksOneAtATime, Holds
<1>3. \A u \in Validator \ {v} : check[u].pc # "asking"
  BY AskersHold, OnlyHead
<1>4. ASSUME NEW u \in Validator, check'[u].pc = "asking", check'[u].keys # file PROVE late' = 0
  BY <1>1, <1>3, <1>4 DEF ConnectionInv
<1> QED BY <1>2, <1>4, CheckKept DEF ConnectionInv

LEMMA EndedKept ==
  ASSUME ConnectionInv, NEW v \in Validator, check[v].pc = "asking",
         NEW health \in {"HEALTHY", "DEGRADED"}, Ended(v, health)
  PROVE  ConnectionInv'
<1> DEFINE c == [check[v] EXCEPT !.pc = "closing"]
<1>1. /\ conn' = validation(health, check[v].keys)
      /\ check' = [check EXCEPT ![v] = c]
      /\ late' = IF check[v].keys = file THEN late ELSE late + 1
      /\ UNCHANGED <<file, waiting, open>>
  BY DEF Ended
<1>2. c \in Validation /\ c.pc = "closing" /\ c.keys = check[v].keys
  BY DEF ConnectionInv, Validation
<1> HIDE DEF c
<1>3. /\ conn'.keys = conn.keys /\ conn'.authenticated = (health = "HEALTHY")
      /\ conn'.account = IF health = "HEALTHY" THEN check[v].keys ELSE conn.account
      /\ Shows'
  BY <1>1, VerdictShown DEF ConnectionInv, Shows
<1>4. late \in {0, 1} /\ (check[v].keys # file => late = 0) /\ VerdictIsOfTheKeys
  BY DEF ConnectionInv
<1>5. late' \in {0, 1} /\ (check[v].keys = file => late' = late) /\ (check[v].keys # file => late' = 1)
  BY <1>1, <1>4
<1>6. VerdictIsOfTheKeys'
  <2>1. conn'.keys = file /\ file' = file /\ late' <= 1
    BY <1>1, <1>3, <1>4, <1>5 DEF VerdictIsOfTheKeys
  <2>2. ASSUME conn'.authenticated, conn'.account # file PROVE late' = 1
    <3>1. conn'.account = check[v].keys
      BY <1>3, <2>2
    <3> QED BY <1>5, <2>2, <3>1
  <2> QED BY <2>1, <2>2 DEF VerdictIsOfTheKeys
<1> QED BY <1>1, <1>2, <1>3, <1>5, <1>6, AskKept DEF ConnectionInv

LEMMA AnsweredKept ==
  ASSUME ConnectionInv, NEW v \in Validator, Answered(v)
  PROVE  ConnectionInv'
<1>1. check[v].pc = "asking" /\ check[v] \in Validation /\ check \in [Validator -> Validation]
  BY DEF Answered, ConnectionInv
<1>2. CASE check[v].stage = Len(Stage) /\ Ended(v, "HEALTHY")
  BY <1>1, <1>2, EndedKept
<1>3. CASE /\ check[v].stage < Len(Stage)
           /\ check' = [check EXCEPT ![v].stage = @ + 1, ![v].attempt = 1]
           /\ UNCHANGED <<file, conn, waiting, open, accepted, late, edits>>
  <2> DEFINE n == check[v].stage + 1
             q == [check[v] EXCEPT !.stage = n]
             c == [q EXCEPT !.attempt = 1]
             g == [check EXCEPT ![v] = q]
  <2>1. n \in 1..Len(Stage)
    BY <1>1, <1>3 DEF Validation, Stage
  <2>2. check' = [check EXCEPT ![v].stage = n, ![v].attempt = 1]
    BY <1>3
  <2> HIDE DEF n
  <2>3. q \in Validation /\ q.pc = "asking" /\ q.keys = check[v].keys
    BY <1>1, <2>1 DEF Validation
  <2>4. g \in [Validator -> Validation] /\ g[v] = q
    <3> HIDE DEF q
    <3> QED BY <1>1, <2>3
  <2>5. check' = [g EXCEPT ![v].attempt = 1]
    BY <2>2
  <2>6. [g EXCEPT ![v].attempt = 1] = [g EXCEPT ![v] = c]
    <3> HIDE DEF g, q
    <3> QED BY <2>4
  <2>7. [g EXCEPT ![v] = c] = [check EXCEPT ![v] = c]
    <3> HIDE DEF q, c
    <3> QED OBVIOUS
  <2>8. c \in Validation /\ c.pc = "asking" /\ c.keys = check[v].keys
    <3> HIDE DEF q
    <3> QED BY <2>3 DEF Validation, Attempts
  <2> HIDE DEF c, g, q
  <2>9. check' = [check EXCEPT ![v] = c]
    BY <2>5, <2>6, <2>7
  <2>10. Shows' /\ VerdictIsOfTheKeys' /\ late' = late /\ late' \in {0, 1}
    BY <1>3 DEF ConnectionInv, Shows, VerdictIsOfTheKeys
  <2> QED BY <1>1, <1>3, <2>8, <2>9, <2>10, AskKept
<1> QED BY <1>2, <1>3 DEF Answered

LEMMA RepeatKept ==
  ASSUME ConnectionInv, NEW v \in Validator, Repeat(v)
  PROVE  ConnectionInv'
<1> DEFINE c == [check[v] EXCEPT !.attempt = @ + 1]
<1>1. /\ check[v].pc = "asking" /\ check[v].attempt < Attempts /\ check' = [check EXCEPT ![v] = c]
      /\ UNCHANGED <<file, conn, waiting, open, late>>
  BY DEF Repeat
<1>2. check[v] \in Validation
  BY DEF ConnectionInv
<1>3. c \in Validation /\ c.pc = "asking" /\ c.keys = check[v].keys
  BY <1>1, <1>2 DEF Validation, Attempts
<1> HIDE DEF c
<1>4. Shows' /\ VerdictIsOfTheKeys' /\ late' = late /\ late' \in {0, 1}
  BY <1>1 DEF ConnectionInv, Shows, VerdictIsOfTheKeys
<1> QED BY <1>1, <1>3, <1>4, AskKept

LEMMA CancelKept ==
  ASSUME ConnectionInv, Cancel
  PROVE  ConnectionInv'
<1> DEFINE c == [check[Startup] EXCEPT !.pc = "closing"]
<1>1. /\ check[Startup].pc = "asking" /\ check' = [check EXCEPT ![Startup] = c]
      /\ UNCHANGED <<file, conn, waiting, open, late>>
  BY DEF Cancel
<1>2. Startup \in Validator /\ check[Startup] \in Validation
  BY ConnectionAssumption DEF ConnectionInv
<1>3. c \in Validation /\ c.pc = "closing" /\ c.keys = check[Startup].keys
  BY <1>2 DEF Validation
<1> HIDE DEF c
<1>4. Shows' /\ VerdictIsOfTheKeys' /\ late' = late /\ late' \in {0, 1}
  BY <1>1 DEF ConnectionInv, Shows, VerdictIsOfTheKeys
<1> QED BY <1>1, <1>2, <1>3, <1>4, AskKept

LEMMA DisconnectKept ==
  ASSUME ConnectionInv, NEW v \in Validator, Disconnect(v)
  PROVE  ConnectionInv'
<1>1. /\ check[v].pc = "closing" /\ open' = open \ {v} /\ Released(v)
      /\ UNCHANGED <<file, conn, late>>
  BY DEF Disconnect
<1>2. Holds(v) /\ open \subseteq {v}
  BY <1>1, AskersHold, OnlyHead
<1>3. open' = {}
  BY <1>1, <1>2
<1> QED BY <1>1, <1>2, <1>3, ReleasedKept DEF ConnectionInv, Shows, VerdictIsOfTheKeys

\* The part of the keys stands still where none of its variables moves.
LEMMA ConnectionSame ==
  ASSUME ConnectionInv, UNCHANGED <<file, conn, waiting, check, open, late>>
  PROVE  ConnectionInv'
BY DEF ConnectionInv, Shows, Alone, AsksOneAtATime, Holds, VerdictIsOfTheKeys

LEMMA RestartKept ==
  ASSUME ConnectionInv, ConnectionRestarts
  PROVE  ConnectionInv'
<1>1. file \in AnyKeys \cup {NoKeys}
  BY DEF ConnectionInv
<1>2. file' = file
  BY DEF ConnectionRestarts
<1> QED BY <1>1, <1>2, StartSound DEF ConnectionRestarts

LEMMA EditKept ==
  ASSUME ConnectionInv, save_okx_credentials \/ delete_okx_credentials \/ Revoke
  PROVE  ConnectionInv'
<1>1. CASE save_okx_credentials
  BY <1>1, StoreKept DEF save_okx_credentials, AnyKeys
<1>2. CASE delete_okx_credentials
  BY <1>2, StoreKept DEF delete_okx_credentials
<1>3. CASE Revoke
  BY <1>3, ConnectionSame DEF Revoke
<1> QED BY <1>1, <1>2, <1>3

LEMMA ConnectionStep ==
  ASSUME ConnectionInv, ConnectionNext
  PROVE  ConnectionInv'
<1>1. ASSUME NEW v \in Validator, ValidatorStep(v) PROVE ConnectionInv'
  <2>1. CASE Failed(v)
    BY <2>1, EndedKept DEF Failed
  <2> QED
    BY <1>1, <2>1, ReuseKept, DeclineKept, ConnectKept, RepeatKept, AnsweredKept, DisconnectKept
    DEF ValidatorStep
<1> QED BY <1>1, EditKept, RestartKept, CancelKept, ValidateKept DEF ConnectionNext

LEMMA ConnectionStart ==
  ASSUME ConnectionInit
  PROVE  ConnectionInv
<1>1. Idle \in Validation /\ [Idle EXCEPT !.pc = "waiting"] \in Validation
      /\ Idle.pc = "idle" /\ [Idle EXCEPT !.pc = "waiting"].pc = "waiting"
  BY DEF Idle, Validation, Stage, Attempts
<1>2. Startup \in Validator /\ file \in AnyKeys \cup {NoKeys}
  BY ConnectionAssumption DEF ConnectionInit
<1>3. /\ check \in [Validator -> Validation]
      /\ \A v \in Validator :
           check[v].pc = IF v = Startup /\ file # NoKeys THEN "waiting" ELSE "idle"
  BY <1>1 DEF ConnectionInit, Started
<1>4. /\ waiting \in Seq(Validator)
      /\ \A i, j \in DOMAIN waiting : i = j
      /\ \A v \in Validator : check[v].pc # "idle" <=> \E i \in DOMAIN waiting : waiting[i] = v
  <2>1. CASE file = NoKeys
    <3>1. waiting = <<>>
      BY <2>1 DEF ConnectionInit, Started
    <3> QED BY <1>3, <2>1, <3>1
  <2>2. CASE file # NoKeys
    <3>1. waiting = <<Startup>>
      BY <2>2 DEF ConnectionInit, Started
    <3>2. DOMAIN waiting = {1} /\ waiting[1] = Startup /\ waiting \in Seq(Validator)
      BY <1>2, <3>1
    <3> QED BY <1>3, <2>2, <3>2
  <2> QED BY <2>1, <2>2
<1>5. Shows /\ ~conn.authenticated /\ open = {}
  BY DEF ConnectionInit, Started, configure, Shows
<1>6. AsksOneAtATime
  BY <1>3, <1>5 DEF AsksOneAtATime
<1>7. late = 0 /\ open = {}
  BY DEF ConnectionInit, Started
<1>8. VerdictIsOfTheKeys
  BY <1>5, <1>7 DEF VerdictIsOfTheKeys, Shows
<1>9. \A v \in Validator : Alone(v) /\ check[v].pc # "asking"
  BY <1>3, <1>4 DEF Alone
<1> QED BY <1>2, <1>3, <1>4, <1>5, <1>6, <1>7, <1>8, <1>9 DEF ConnectionInv

\* What the gates' fold adds up is the sum.
LEMMA FoldIs ==
  ASSUME NEW S \in SUBSET DOMAIN open_orders, IsFiniteSet(S), \A i \in S : Values[i] \in Nat
  PROVE  TotalOf(S) = Sum(Values, S)
<1> DEFINE w(i) == open_orders[i].lots * open_orders[i].price
           G(g) == g = [s \in SUBSET S |-> IF s = {} THEN 0
                                            ELSE w(CHOOSE x \in s : TRUE) + g[s \ {CHOOSE x \in s : TRUE}]]
           h == CHOOSE g : G(g)
<1>1. TotalOf(S) = h[S]
  BY DEF TotalOf, FoldFunctionOnSet, MapThenFoldSet
<1>2. PICK g : /\ g = [s \in SUBSET S |-> IF s = {} THEN 0 ELSE Values[Some(s)] + g[s \ {Some(s)}]]
               /\ Adds(g, Values, S, Cardinality(S))
  BY AddsExists
<1>3. \A s \in SUBSET S : s # {} => Some(s) \in S
  BY DEF Some
<1>4. \A i \in S : Values[i] = w(i)
  BY DEF Values
<1>5. G(g)
  BY <1>2, <1>3, <1>4 DEF Some
<1>6. G(h)
  <2> HIDE DEF G
  <2> QED BY <1>5
<1>7. \A s \in SUBSET S : /\ s = {} => h[s] = 0
                          /\ s # {} => h[s] = w(Some(s)) + h[s \ {Some(s)}]
  <2> HIDE DEF h, w
  <2> QED BY <1>6 DEF Some
<1> HIDE DEF h
<1>8. \A s \in SUBSET S : /\ s = {} => h[s] = 0
                          /\ s # {} => h[s] = Values[Some(s)] + h[s \ {Some(s)}]
  <2> HIDE DEF w
  <2> QED BY <1>3, <1>4, <1>7
<1>9. Adds(h, Values, S, Cardinality(S))
  BY <1>8, AddsFrom
<1>10. PICK k : Adds(k, Values, S, Cardinality(S)) /\ Sum(Values, S) = k[S]
  BY SumIs
<1>11. h[S] = k[S]
  BY <1>9, <1>10, AddsUnique
<1> QED BY <1>1, <1>10, <1>11

-----------------------------------------------------------------------------
(* The gates, step by step.                                                *)

LEMMA CallerFacts ==
  /\ IsFiniteSet(Caller) /\ Cardinality(Caller) \in Nat \ {0}
  /\ \A s \in SUBSET Caller : /\ IsFiniteSet(s) /\ Cardinality(s) \in Nat
                              /\ Cardinality(s) <= Cardinality(Caller)
  /\ max_order_notional \in Nat /\ max_symbol_exposure \in Nat /\ max_open_orders \in Nat
<1>1. IsFiniteSet(Caller) /\ Caller # {}
  BY GateAssumption
<1>2. Cardinality(Caller) \in Nat /\ Cardinality(Caller) # 0
  BY <1>1, FS_CardinalityType, FS_EmptySet
<1>3. \A s \in SUBSET Caller : /\ IsFiniteSet(s) /\ Cardinality(s) \in Nat
                               /\ Cardinality(s) <= Cardinality(Caller)
  BY <1>1, SubsetFacts
<1> QED BY <1>1, <1>2, <1>3, GateAssumption

LEMMA OrderFacts ==
  ASSUME GateTyped
  PROVE  /\ IsFiniteSet(DOMAIN open_orders) /\ Cardinality(DOMAIN open_orders) \in Nat
         /\ Buys \subseteq DOMAIN open_orders
         /\ IsFiniteSet(Buys) /\ Cardinality(Buys) \in Nat
         /\ Cardinality(Buys) <= Cardinality(DOMAIN open_orders)
         /\ Cardinality(Buys) <= Cardinality(list_open) + Cardinality(settling)
         /\ IsFiniteSet(list_open) /\ Cardinality(list_open) \in Nat
         /\ IsFiniteSet(settling) /\ Cardinality(settling) \in Nat
         /\ \A i \in DOMAIN open_orders : Values[i] \in Nat
         /\ Sum(Values, Buys) \in Nat /\ OpenBuys = Sum(Values, Buys)
<1>1. IsFiniteSet(DOMAIN open_orders)
  <2>1. IsFiniteSet(1..made) /\ DOMAIN open_orders \subseteq 1..made
    BY FS_Interval DEF GateTyped
  <2> QED BY <2>1, FS_Subset
<1>2. Buys \in SUBSET DOMAIN open_orders
  BY DEF Buys
<1>3. /\ Cardinality(DOMAIN open_orders) \in Nat /\ IsFiniteSet(Buys) /\ Cardinality(Buys) \in Nat
      /\ Cardinality(Buys) <= Cardinality(DOMAIN open_orders)
  BY <1>1, <1>2, SubsetFacts, FS_CardinalityType
<1>4. ASSUME NEW i \in DOMAIN open_orders PROVE Values[i] \in Nat
  <2>1. open_orders[i] \in OrderType
    BY DEF GateTyped
  <2>2. open_orders[i].lots \in Nat /\ open_orders[i].price \in Nat
    BY <2>1, GateAssumption DEF OrderType
  <2>3. open_orders[i].lots * open_orders[i].price \in Nat
    BY <2>2
  <2> QED BY <2>3 DEF Values
<1>5. Sum(Values, Buys) \in Nat
  BY <1>2, <1>3, <1>4, SumTyped
<1>6. TotalOf(Buys) = Sum(Values, Buys)
  BY <1>2, <1>3, <1>4, FoldIs
<1>7. OpenBuys = TotalOf(Buys)
  BY DEF OpenBuys, Buys
<1>8. /\ IsFiniteSet(list_open) /\ Cardinality(list_open) \in Nat
      /\ IsFiniteSet(settling) /\ Cardinality(settling) \in Nat
      /\ Cardinality(DOMAIN open_orders) <= Cardinality(list_open) + Cardinality(settling)
  <2>1. list_open \in SUBSET DOMAIN open_orders /\ settling \in SUBSET DOMAIN open_orders
        /\ DOMAIN open_orders = list_open \cup settling /\ list_open \cap settling = {}
    BY DEF GateTyped, list_open
  <2>2. IsFiniteSet(list_open) /\ IsFiniteSet(settling)
    BY <1>1, <2>1, FS_Subset
  <2>3. Cardinality(list_open \cup settling) = Cardinality(list_open) + Cardinality(settling) - 0
    BY <2>1, <2>2, FS_Union, FS_EmptySet
  <2>4. Cardinality(list_open) \in Nat /\ Cardinality(settling) \in Nat
    BY <2>2, FS_CardinalityType
  <2> QED BY <2>1, <2>2, <2>3, <2>4
<1> QED BY <1>1, <1>2, <1>3, <1>4, <1>5, <1>6, <1>7, <1>8

\* The stage of a call says what it knows.
LEMMA Stages ==
  ASSUME NEW x \in CallType
  PROVE  /\ x.stage = "idle" => x = Waiting
         /\ x.stage = "read" => x \in ReadType
         /\ x.stage = "priced" => x \in PricedType
         /\ x.stage = "approved" => x \in ApprovedType
         /\ x.stage \in {"idle", "read", "priced", "approved"}
BY DEF CallType, ReadType, PricedType, ApprovedType, Waiting

LEMMA ClaimTyped ==
  ASSUME NEW x \in CallType
  PROVE  Claim(x) \in Nat
<1>1. CASE x.stage = "idle"
  BY <1>1 DEF Claim
<1>2. CASE x.stage = "read"
  <2>1. x.cost \in Nat
    BY <1>2, Stages DEF ReadType
  <2> QED BY <1>2, <2>1, CallerFacts DEF Claim
<1>3. CASE x.stage \in {"priced", "approved"}
  <2>1. x.signal \in SignalType /\ x.price \in Price
    BY <1>3, Stages DEF PricedType, ApprovedType
  <2>2. x.signal.lots \in Nat /\ x.price \in Nat
    BY <2>1, GateAssumption DEF SignalType
  <2>3. Notional(x) \in Nat
    BY <2>2 DEF Notional
  <2> QED BY <1>3, <2>3 DEF Claim
<1> QED BY <1>1, <1>2, <1>3, Stages

LEMMA ClaimsTyped ==
  ASSUME GateTyped
  PROVE  /\ \A c \in Caller : Claims[c] = Claim(caller[c]) /\ Claims[c] \in Nat
         /\ Sum(Claims, Caller) \in Nat
<1>1. \A c \in Caller : Claims[c] = Claim(caller[c]) /\ Claims[c] \in Nat
  BY ClaimTyped DEF GateTyped, Claims
<1> QED BY <1>1, CallerFacts, SumTyped

\* One call goes on.
LEMMA CallMoves ==
  ASSUME GateTyped, NEW c \in Caller, NEW x \in CallType, caller' = [caller EXCEPT ![c] = x]
  PROVE  /\ caller' \in [Caller -> CallType]
         /\ \A d \in Caller : Claims'[d] \in Nat
         /\ Claims'[c] = Claim(x) /\ \A d \in Caller \ {c} : Claims'[d] = Claims[d]
         /\ Sum(Claims', Caller) + Claim(caller[c]) = Sum(Claims, Caller) + Claim(x)
         /\ Sum(Claims', Caller) \in Nat
         /\ Counted' = IF Counts(x) THEN Counted \cup {c} ELSE Counted \ {c}
<1>1. caller \in [Caller -> CallType]
  BY DEF GateTyped
<1>2. caller'[c] = x /\ (\A d \in Caller \ {c} : caller'[d] = caller[d]) /\ caller' \in [Caller -> CallType]
  BY <1>1
<1>3. \A d \in Caller : Claims'[d] = Claim(caller'[d])
  BY DEF Claims
<1>4. Claims'[c] = Claim(x) /\ \A d \in Caller \ {c} : Claims'[d] = Claims[d]
  BY <1>2, <1>3 DEF Claims
<1>5. \A d \in Caller : Claims'[d] \in Nat /\ Claims[d] \in Nat
  BY <1>2, <1>3, ClaimTyped, ClaimsTyped
<1>6. /\ Sum(Claims', Caller) + Claims[c] = Sum(Claims, Caller) + Claims'[c]
      /\ Sum(Claims', Caller) \in Nat
  <2> DEFINE w == Claims'
  <2>1. /\ \A d \in Caller : Claims[d] \in Nat /\ w[d] \in Nat
        /\ \A d \in Caller \ {c} : w[d] = Claims[d]
    BY <1>4, <1>5
  <2> HIDE DEF w
  <2>2. Sum(w, Caller) + Claims[c] = Sum(Claims, Caller) + w[c] /\ Sum(w, Caller) \in Nat
    BY <2>1, CallerFacts, SumChange
  <2> QED BY <2>2 DEF w
<1>7. Counted' = IF Counts(x) THEN Counted \cup {c} ELSE Counted \ {c}
  <2>1. Counted' = {d \in Caller : Counts(caller'[d])}
    BY DEF Counted, Counts
  <2>2. \A d \in Caller : Counts(caller'[d]) <=> IF d = c THEN Counts(x) ELSE Counts(caller[d])
    BY <1>2
  <2> QED BY <2>1, <2>2 DEF Counted
<1>8. Claims[c] = Claim(caller[c])
  BY DEF Claims
<1> QED BY <1>2, <1>4, <1>5, <1>6, <1>7, <1>8

\* A caller that is busy may end, and a busy one may go on.
LEMMA FreeKept ==
  ASSUME GateTyped, SettlersCounted, NEW c \in Caller, NEW x \in CallType,
         caller' = [caller EXCEPT ![c] = x], UNCHANGED settling,
         x.stage = "idle" \/ caller[c].stage # "idle"
  PROVE  SettlersCounted'
<1>1. caller'[c] = x /\ \A d \in Caller \ {c} : caller'[d] = caller[d]
  BY DEF GateTyped
<1>2. PICK f : f = {d \in Caller : caller'[d].stage = "idle"}
  OBVIOUS
<1>3. Free \subseteq f /\ f \subseteq Caller /\ Free' = f
  BY <1>1, <1>2 DEF Free
<1>4. Cardinality(Free) <= Cardinality(f) /\ Cardinality(Free) \in Nat /\ Cardinality(f) \in Nat
  BY <1>3, CallerFacts, FS_Subset
<1>5. Cardinality(settling) \in Nat
  BY OrderFacts
<1>6. Cardinality(settling) <= 1 + Cardinality(f)
  BY <1>4, <1>5 DEF SettlersCounted
<1> QED BY <1>3, <1>6 DEF SettlersCounted

LEMMA Growing ==
  ASSUME NEW a \in Nat, NEW b \in Nat, NEW l \in Nat, a <= b
  PROVE  a * l <= b * l
<1>1. PICK d \in Nat : b = a + d
  <2>1. b - a \in Nat /\ b = a + (b - a)
    OBVIOUS
  <2> QED BY <2>1
<1>2. b * l = a * l + d * l
  BY <1>1
<1>3. d * l \in Nat /\ a * l \in Nat
  BY <1>1
<1> QED BY <1>2, <1>3

\* A call that goes on claims no more, and is counted by a limit that it has passed.
LEMMA CallKept ==
  ASSUME LimitsInv, GateTyped', NEW c \in Caller, NEW x \in CallType,
         caller' = [caller EXCEPT ![c] = x], UNCHANGED <<open_orders, settling>>, cost'["spot"] = cost["spot"],
         Claim(x) <= Claim(caller[c]),
         Counts(x) => c \in Counted \/ Cardinality(list_open) < max_open_orders,
         SettlersCounted'
  PROVE  LimitsInv'
<1>1. GateTyped /\ SmallOrders /\ SettlersCounted /\ OpenCounted /\ ExposureCounted
  BY DEF LimitsInv
<1>2. Values' = Values /\ Buys' = Buys
  BY DEF Values, Buys
<1>3. /\ \A d \in Caller : Claims'[d] \in Nat
      /\ Claims'[c] = Claim(x) /\ \A d \in Caller \ {c} : Claims'[d] = Claims[d]
      /\ Sum(Claims', Caller) + Claim(caller[c]) = Sum(Claims, Caller) + Claim(x)
      /\ Sum(Claims', Caller) \in Nat
      /\ Counted' = IF Counts(x) THEN Counted \cup {c} ELSE Counted \ {c}
  BY <1>1, CallMoves
<1>4. Claim(x) \in Nat /\ Claim(caller[c]) \in Nat /\ Claims[c] = Claim(caller[c])
  BY <1>1, ClaimTyped, ClaimsTyped DEF GateTyped
<1>5. SmallOrders'
  BY <1>1, <1>2, <1>3, <1>4, CallerFacts DEF SmallOrders
<1>6. OpenCounted'
  <2>1. Counted \subseteq Caller /\ Counted' \subseteq Caller
    BY DEF Counted
  <2>2. Cardinality(Counted) \in Nat /\ Cardinality(Counted') \in Nat
        /\ Cardinality(Counted') <= Cardinality(Caller) /\ Cardinality(Caller) \in Nat
        /\ IsFiniteSet(Counted)
    BY <2>1, CallerFacts
  <2>3. Cardinality(list_open) \in Nat
    BY <1>1, OrderFacts
  <2>6. list_open' = list_open
    BY DEF list_open
  <2>4. CASE Cardinality(list_open) < max_open_orders
    BY <2>2, <2>3, <2>4, <2>6, CallerFacts DEF OpenCounted
  <2>5. CASE ~(Cardinality(list_open) < max_open_orders)
    <3>1. Counted' \subseteq Counted
      BY <1>3, <2>5
    <3>2. Cardinality(Counted') <= Cardinality(Counted)
      BY <2>2, <3>1, FS_Subset
    <3> QED BY <1>1, <2>2, <2>3, <2>6, <3>2, CallerFacts DEF OpenCounted
  <2> QED BY <2>4, <2>5
<1>7. ExposureCounted'
  <2> DEFINE room == max_symbol_exposure
                       + (max_open_orders + 1 + 2 * (Cardinality(Caller) - 1)) * max_order_notional
  <2>1. room \in Int
    BY CallerFacts
  <2>2. Sum(Claims, Caller) \in Nat /\ cost["spot"] \in Nat /\ Sum(Values, Buys) \in Nat
    BY <1>1, ClaimsTyped, OrderFacts DEF GateTyped, Exposed
  <2>3. Sum(Values', Buys') = Sum(Values, Buys)
    BY <1>2
  <2>4. cost["spot"] + Sum(Values, Buys) + Sum(Claims, Caller) <= room
    BY <1>1 DEF ExposureCounted
  <2> HIDE DEF room
  <2>5. cost'["spot"] + Sum(Values', Buys') + Sum(Claims', Caller) <= room
    BY <1>3, <1>4, <2>1, <2>2, <2>3, <2>4
  <2> QED BY <2>5 DEF room, ExposureCounted
<1> QED BY <1>5, <1>6, <1>7 DEF LimitsInv

LEMMA TypedSame ==
  ASSUME GateTyped, NEW c \in Caller, NEW x \in CallType,
         caller' = [caller EXCEPT ![c] = x], UNCHANGED <<held, cost, open_orders, settling, made>>
  PROVE  GateTyped'
BY DEF GateTyped

LEMMA WaitingFacts == Waiting \in CallType /\ Claim(Waiting) = 0 /\ ~Counts(Waiting)
BY DEF CallType, Waiting, Claim, Counts

\* What may still be ordered on a reading is at most what the reading leaves.
LEMMA ReadingClaims ==
  ASSUME NEW x \in ReadType
  PROVE  /\ Claim(x) <= max_order_notional
         /\ Claim(x) # 0 => x.cost + Claim(x) <= max_symbol_exposure
<1>1. x.stage = "read" /\ x.cost \in Nat
  BY DEF ReadType
<1> QED BY <1>1, CallerFacts DEF Claim

LEMMA SignalsTyped ==
  ASSUME NEW x \in Signals
  PROVE  x \in SignalType
<1>1. PICK m \in Exposed, s \in {"BUY", "SELL"}, n \in Lots :
        x = [market |-> m, side |-> s, lots |-> n, reduce_only |-> m = "perpetual" /\ s = "SELL"]
  BY DEF Signals
<1>2. PICK r \in BOOLEAN : r = (m = "perpetual" /\ s = "SELL")
  OBVIOUS
<1>3. x = [market |-> m, side |-> s, lots |-> n, reduce_only |-> r]
  BY <1>1, <1>2, Zenon
<1> QED BY <1>3 DEF SignalType

LEMMA ReadsPositionsKept ==
  ASSUME LimitsInv, NEW c \in Caller, ReadsPositions(c)
  PROVE  LimitsInv'
<1>1. GateTyped /\ SmallOrders /\ SettlersCounted /\ OpenCounted /\ ExposureCounted
  BY DEF LimitsInv
<1>2. PICK s \in Signals :
        caller' = [caller EXCEPT ![c] = [stage |-> "read", signal |-> s, held |-> held["spot"],
                                         cost |-> cost["spot"]]]
  BY DEF ReadsPositions
<1> DEFINE x == [stage |-> "read", signal |-> s, held |-> held["spot"], cost |-> cost["spot"]]
<1>3. /\ caller[c].stage = "idle" /\ UNCHANGED <<held, cost, open_orders, settling, made>>
      /\ caller' = [caller EXCEPT ![c] = x]
  BY <1>2 DEF ReadsPositions, At
<1>4. s \in SignalType
  BY SignalsTyped
<1>11. Cardinality(settling) <= Cardinality(Free)
  BY DEF ReadsPositions
<1>5. x \in ReadType /\ x.stage = "read" /\ x.cost = cost["spot"]
  BY <1>1, <1>4 DEF ReadType, GateTyped, Exposed
<1> HIDE DEF x
<1>6. x \in CallType /\ ~Counts(x)
  BY <1>5 DEF CallType, Counts
<1>7. GateTyped'
  BY <1>1, <1>3, <1>6, TypedSame
<1>8. caller[c] = Waiting
  <2>1. caller[c] \in CallType
    BY <1>1 DEF GateTyped
  <2> QED BY <1>3, <2>1, Stages
<1>12. SettlersCounted'
  <2>1. Cardinality(settling) \in Nat /\ Cardinality(Free) \in Nat
    BY <1>1, OrderFacts, CallerFacts DEF Free
  <2>2. PICK f : f = {d \in Caller : caller'[d].stage = "idle"}
    OBVIOUS
  <2>3. f = Free \ {c} /\ Free' = f /\ c \in Free
    BY <1>1, <1>3, <1>5, <2>2 DEF Free, GateTyped
  <2>4. IsFiniteSet(Free)
    BY CallerFacts DEF Free
  <2>5. Cardinality(f) = Cardinality(Free) - 1
    BY <2>3, <2>4, FS_RemoveElement
  <2>6. Cardinality(settling) <= 1 + Cardinality(f)
    BY <1>11, <2>1, <2>5
  <2> QED BY <1>3, <2>3, <2>6 DEF SettlersCounted
<1>9. CASE Claim(x) = 0
  <2>1. Claim(x) <= Claim(caller[c]) /\ cost'["spot"] = cost["spot"] /\ UNCHANGED <<open_orders, settling>>
    BY <1>3, <1>8, <1>9, WaitingFacts
  <2> QED BY <1>3, <1>6, <1>7, <1>12, <2>1, CallKept
<1>10. CASE Claim(x) # 0
  <2>1. /\ \A d \in Caller : Claims'[d] \in Nat
        /\ Claims'[c] = Claim(x) /\ \A d \in Caller \ {c} : Claims'[d] = Claims[d]
        /\ Counted' = Counted \ {c}
    BY <1>1, <1>3, <1>6, CallMoves
  <2>2. Claim(x) \in Nat /\ Claim(x) <= max_order_notional
        /\ cost["spot"] + Claim(x) <= max_symbol_exposure
    BY <1>5, <1>6, <1>10, ClaimTyped, ReadingClaims
  <2>3. Values' = Values /\ Buys' = Buys
    BY <1>3 DEF Values, Buys
  <2>4. SmallOrders'
    BY <1>1, <2>1, <2>2, <2>3 DEF SmallOrders
  <2>5. Counted' = Counted
    BY <1>8, <2>1, WaitingFacts DEF Counted
  <2>6. OpenCounted'
    BY <1>1, <1>3, <2>5 DEF OpenCounted, list_open
  <2>7. ExposureCounted'
    <3> DEFINE N == Cardinality(Caller)
               m == Cardinality(list_open)
               k == Cardinality(settling)
               f == Cardinality(Free)
               L == max_order_notional
               w == Claims'
               Others == (Caller \ {c}) \ Free
               rest == Sum(w, Caller \ {c})
               buys == Sum(Values, Buys)
    <3>1. N \in Nat \ {0} /\ m \in Nat /\ L \in Nat /\ max_open_orders \in Nat /\ k \in Nat /\ f \in Nat
          /\ Cardinality(Counted) \in Nat /\ cost["spot"] \in Nat /\ max_symbol_exposure \in Nat
      BY <1>1, CallerFacts, OrderFacts DEF Counted, Free, GateTyped, Exposed
    <3>2. IsFiniteSet(Caller \ {c}) /\ Cardinality(Others) = N - f /\ N - f \in Nat
      <4>1. c \in Free /\ Free \in SUBSET Caller
        BY <1>3 DEF Free
      <4>2. Others = Caller \ Free /\ IsFiniteSet(Free) /\ Caller \cap Free = Free
        BY <4>1, CallerFacts
      <4>3. Cardinality(Caller \ Free) = N - f
        BY <4>1, <4>2, CallerFacts, FS_Difference
      <4>4. Cardinality(Others) \in Nat
        BY CallerFacts
      <4> QED BY <4>2, <4>3, <4>4, CallerFacts
    <3>3. \A d \in Caller : w[d] \in 0..L
      BY <1>1, <2>1, <2>4, CallerFacts DEF SmallOrders
    <3>14. \A d \in Caller \ {c} : d \notin Others => w[d] = 0
      <4>1. ASSUME NEW d \in Caller \ {c}, d \in Free PROVE w[d] = 0
        <5>1. caller[d] \in CallType /\ caller[d].stage = "idle"
          BY <1>1, <4>1 DEF GateTyped, Free
        <5>2. caller[d] = Waiting
          BY <5>1, Stages
        <5>3. Claims[d] = 0
          BY <5>2, WaitingFacts DEF Claims
        <5> QED BY <2>1, <5>3
      <4> QED BY <4>1
    <3>4. rest <= (N - f) * L
      <4> DEFINE S == Caller \ {c}
      <4>1. Others \in SUBSET S /\ \A d \in S : w[d] \in 0..L /\ (d \notin Others => w[d] = 0)
        BY <3>3, <3>14
      <4> HIDE DEF w, Others, S
      <4>2. Sum(w, S) <= Cardinality(Others) * L
        BY <3>1, <3>2, <4>1, SumOfSome DEF S
      <4> QED BY <3>2, <4>2 DEF S
    <3>5. Sum(w, Caller) = w[c] + rest /\ rest \in Nat
      <4> HIDE DEF w
      <4> QED BY <3>3, CallerFacts, SumRemove
    <3>6. /\ buys <= Cardinality(Buys) * L /\ Cardinality(Buys) \in Nat /\ Cardinality(Buys) <= m + k
          /\ buys \in Nat
      <4>1. \A i \in Buys : Values[i] \in 0..L
        BY <1>1, OrderFacts, CallerFacts DEF SmallOrders
      <4> QED BY <1>1, <4>1, OrderFacts, SumBounded, CallerFacts
    <3>7. m <= max_open_orders + N - 1 /\ k <= f
      BY <1>1, <1>11, <3>1 DEF OpenCounted
    <3> DEFINE p == (max_open_orders + N - 1 + f) * L
               q == (N - f) * L
    <3>8. buys <= p
      <4> DEFINE b == Cardinality(Buys)
                 e == max_open_orders + N - 1 + f
      <4>1. b \in Nat /\ e \in Nat /\ b <= e
        BY <3>1, <3>6, <3>7
      <4> HIDE DEF b, e
      <4>2. b * L <= e * L /\ b * L \in Nat /\ e * L \in Nat
        BY <3>1, <4>1, Growing
      <4> HIDE DEF buys
      <4>3. buys <= b * L /\ buys \in Nat
        BY <3>6 DEF b
      <4>4. buys <= e * L
        BY <4>2, <4>3
      <4> QED BY <4>4 DEF e
    <3>10. w[c] = Claim(x) /\ Sum(Values', Buys') = buys /\ cost' = cost
      BY <1>3, <2>1, <2>3
    <3>11. p \in Nat /\ q \in Nat
      BY <3>1, <3>2
    <3>9. p + q = (max_open_orders + 1 + 2 * (N - 1)) * L
      <4> DEFINE a == max_open_orders + N - 1 + f
                 b == N - f
      <4>1. a \in Nat /\ b \in Nat /\ a + b = max_open_orders + 1 + 2 * (N - 1)
        BY <3>1, <3>2
      <4> HIDE DEF a, b
      <4>2. a * L + b * L = (a + b) * L
        BY <3>1, <4>1
      <4> QED BY <4>1, <4>2 DEF a, b
    <3>12. buys <= p /\ rest <= q
      BY <3>4, <3>8
    <3> HIDE DEF N, L, rest, buys, p, q, w, f, k, m
    <3>13. cost'["spot"] + Sum(Values', Buys') + Sum(w, Caller)
             <= max_symbol_exposure + (max_open_orders + 1 + 2 * (N - 1)) * L
      BY <2>2, <3>1, <3>5, <3>6, <3>9, <3>10, <3>11, <3>12
    <3> QED BY <3>13 DEF ExposureCounted, N, L, w
  <2> QED BY <1>7, <1>12, <2>4, <2>6, <2>7 DEF LimitsInv
<1> QED BY <1>9, <1>10

LEMMA ReadsMarketKept ==
  ASSUME LimitsInv, NEW c \in Caller, ReadsMarket(c)
  PROVE  LimitsInv'
<1>0. PICK mid \in Price :
        caller' = [caller EXCEPT ![c] = [stage |-> "priced", signal |-> @.signal, held |-> @.held,
                                         cost |-> @.cost, price |-> mid,
                                         orders |-> Cardinality(list_open)]]
  BY DEF ReadsMarket
<1> DEFINE y == caller[c]
           x == [stage |-> "priced", signal |-> y.signal, held |-> y.held, cost |-> y.cost,
                 price |-> mid, orders |-> Cardinality(list_open)]
<1>1. /\ y.stage = "read" /\ caller' = [caller EXCEPT ![c] = x]
      /\ UNCHANGED <<held, cost, open_orders, settling, made>>
  BY <1>0 DEF ReadsMarket, At
<1>2. GateTyped /\ y \in CallType
  BY DEF LimitsInv, GateTyped
<1>3. y \in ReadType /\ y.cost \in Nat /\ y.signal \in SignalType
  BY <1>1, <1>2, Stages DEF ReadType
<1>4. /\ x \in PricedType /\ x.stage = "priced" /\ x.signal = y.signal /\ x.cost = y.cost
      /\ x.orders = Cardinality(list_open)
  BY <1>2, <1>3, OrderFacts DEF ReadType, PricedType, GateTyped
<1> HIDE DEF x, y
<1>5. x \in CallType
  BY <1>4 DEF CallType
<1>6. Counts(x) => Cardinality(list_open) < max_open_orders
  BY <1>4 DEF Counts
<1>7. Claim(x) <= Claim(y)
  <2>1. Claim(x) \in Nat /\ Claim(y) \in Nat
    BY <1>2, <1>5, ClaimTyped
  <2>2. CASE Claim(x) = 0
    BY <2>1, <2>2
  <2>3. CASE Claim(x) # 0
    <3>1. /\ BuysSpot(x) /\ Claim(x) = Notional(x)
          /\ Notional(x) <= max_order_notional /\ x.cost + Notional(x) <= max_symbol_exposure
      BY <1>4, <2>3 DEF Claim
    <3>2. BuysSpot(y) /\ y.cost + Claim(x) <= max_symbol_exposure /\ Claim(x) <= max_order_notional
      BY <1>4, <3>1 DEF BuysSpot
    <3>3. y.cost < max_symbol_exposure
      BY <1>3, <2>1, <2>3, <3>2, CallerFacts
    <3> QED BY <1>1, <1>3, <2>1, <3>2, <3>3, CallerFacts DEF Claim
  <2> QED BY <2>2, <2>3
<1>8. GateTyped'
  BY <1>1, <1>2, <1>5, TypedSame
<1>9. cost'["spot"] = cost["spot"] /\ UNCHANGED <<open_orders, settling>> /\ Claim(x) <= Claim(caller[c])
  BY <1>1, <1>7 DEF y
<1>10. SettlersCounted'
  BY <1>1, <1>2, <1>5, FreeKept DEF LimitsInv, y
<1> QED BY <1>1, <1>5, <1>6, <1>8, <1>9, <1>10, CallKept

\* A call that ends claims nothing.
LEMMA EndKept ==
  ASSUME LimitsInv, NEW c \in Caller, caller' = [caller EXCEPT ![c] = Waiting],
         UNCHANGED <<open_orders, settling>>, cost'["spot"] = cost["spot"], GateTyped'
  PROVE  LimitsInv'
<1>1. caller[c] \in CallType
  BY DEF LimitsInv, GateTyped
<1>2. Claim(Waiting) <= Claim(caller[c])
  BY <1>1, ClaimTyped, WaitingFacts
<1>3. Waiting.stage = "idle"
  BY DEF Waiting
<1>4. SettlersCounted'
  BY <1>3, WaitingFacts, FreeKept DEF LimitsInv
<1> QED BY <1>2, <1>4, WaitingFacts, CallKept

LEMMA ChecksKept ==
  ASSUME LimitsInv, NEW c \in Caller, Checks(c)
  PROVE  LimitsInv'
<1> DEFINE y      == caller[c]
           signed == IF y.signal.market = "spot" THEN y.held ELSE held["perpetual"]
           x      == [stage |-> "approved", signal |-> y.signal, price |-> y.price, signed |-> signed]
<1>1. /\ y.stage = "priced" /\ UNCHANGED <<held, cost, open_orders, settling, made>>
      /\ caller' = [caller EXCEPT ![c] = IF risk_check(y.signal, y, signed) = "RISK_PASS"
                                         THEN x ELSE Waiting]
  BY DEF Checks, At
<1>2. GateTyped /\ y \in CallType
  BY DEF LimitsInv, GateTyped
<1>3. y \in PricedType /\ y.held \in Nat /\ held["perpetual"] \in Nat
  BY <1>1, <1>2, Stages DEF PricedType, GateTyped, Exposed
<1>4. cost'["spot"] = cost["spot"] /\ UNCHANGED <<open_orders, settling>>
  BY <1>1
<1>5. CASE risk_check(y.signal, y, signed) # "RISK_PASS"
  <2>1. caller' = [caller EXCEPT ![c] = Waiting]
    BY <1>1, <1>5
  <2>2. GateTyped'
    BY <1>1, <1>2, <2>1, TypedSame, WaitingFacts
  <2> QED BY <1>4, <2>1, <2>2, EndKept
<1>6. CASE risk_check(y.signal, y, signed) = "RISK_PASS"
  <2>1. caller' = [caller EXCEPT ![c] = x]
    BY <1>1, <1>6
  <2>2. /\ ~(Notional(y) > max_order_notional) /\ ~(y.orders >= max_open_orders)
        /\ ~(y.signal.side = "BUY" /\ symbol_notional(y.signal, y) + Notional(y) > max_symbol_exposure)
    BY <1>6 DEF risk_check, Notional
  <2>3. signed \in Nat
    BY <1>3
  <2> HIDE DEF signed
  <2>4. x \in ApprovedType /\ x.stage = "approved" /\ x.signal = y.signal /\ x.price = y.price
    BY <1>3, <2>3 DEF PricedType, ApprovedType
  <2> HIDE DEF x, y
  <2>5. x \in CallType
    BY <2>4 DEF CallType
  <2>6. GateTyped'
    BY <1>1, <1>2, <2>1, <2>5, TypedSame
  <2>7. y.orders \in Nat /\ y.cost \in Nat /\ y.signal.lots \in Nat /\ y.price \in Nat
    BY <1>3, GateAssumption DEF PricedType, SignalType
  <2>8. Notional(y) \in Nat
    BY <2>7 DEF Notional
  <2>9. y.orders < max_open_orders /\ Notional(y) <= max_order_notional
    BY <2>2, <2>7, <2>8, CallerFacts
  <2>10. c \in Counted
    BY <1>1, <2>9 DEF Counted, Counts, y
  <2>11. Claim(x) <= Claim(y)
    <3>1. CASE ~BuysSpot(y)
      <4>1. Claim(x) = 0 /\ Claim(y) = 0
        BY <1>1, <2>4, <3>1 DEF Claim, BuysSpot
      <4> QED BY <4>1
    <3>2. CASE BuysSpot(y)
      <4>1. y.cost + Notional(y) <= max_symbol_exposure
        BY <2>2, <2>7, <2>8, <3>2, CallerFacts DEF BuysSpot, symbol_notional
      <4>2. Claim(y) = Notional(y)
        BY <1>1, <2>9, <3>2, <4>1 DEF Claim
      <4>3. Claim(x) = Notional(x) /\ Notional(x) = Notional(y)
        BY <2>4, <3>2 DEF Claim, BuysSpot, Notional
      <4> QED BY <2>8, <4>2, <4>3
    <3> QED BY <3>1, <3>2
  <2>12. Claim(x) <= Claim(caller[c])
    BY <2>11 DEF y
  <2>13. SettlersCounted'
    BY <1>1, <1>2, <2>1, <2>5, FreeKept DEF LimitsInv, y
  <2> QED BY <1>4, <2>1, <2>5, <2>6, <2>10, <2>12, <2>13, CallKept
<1> QED BY <1>5, <1>6

LEMMA RefusedKept ==
  ASSUME LimitsInv, NEW c \in Caller, Refused(c)
  PROVE  LimitsInv'
<1>1. caller' = [caller EXCEPT ![c] = Waiting] /\ UNCHANGED <<held, cost, open_orders, settling, made>>
  BY DEF Refused
<1>2. GateTyped'
  BY <1>1, TypedSame, WaitingFacts DEF LimitsInv
<1> QED BY <1>1, <1>2, EndKept

\* A share of a number is no more than the number.
LEMMA ShareIsPart ==
  ASSUME NEW a \in Nat, NEW n \in Nat, NEW h \in Nat \ {0}, n <= h
  PROVE  (a * n) \div h \in Nat /\ (a * n) \div h <= a
<1> DEFINE p == a * n
           q == p \div h
<1>1. p \in Nat
  OBVIOUS
<1>2. p <= a * h
  <2>1. n * a <= h * a
    BY Growing
  <2>2. n * a = p /\ h * a = a * h
    OBVIOUS
  <2> QED BY <2>1, <2>2
<1> HIDE DEF p
<1>3. q \in Int /\ h * q <= p /\ p < h * (q + 1)
  BY <1>1
<1> HIDE DEF q
<1>4. q >= 0
  <2>1. CASE q < 0
    <3>1. PICK m \in Nat : m = 0 - (q + 1)
      BY <1>3, <2>1
    <3>2. h * (q + 1) = 0 - h * m /\ h * m \in Nat
      BY <1>3, <3>1
    <3> QED BY <1>1, <1>3, <3>2
  <2> QED BY <1>3, <2>1
<1>5. q <= a
  <2>1. CASE q > a
    <3>1. (a + 1) * h <= q * h
      BY <1>3, <1>4, <2>1, Growing
    <3>2. (a + 1) * h = a * h + h /\ q * h = h * q /\ a * h \in Nat /\ h * q \in Int
      BY <1>3
    <3> QED BY <1>1, <1>2, <1>3, <3>1, <3>2
  <2> QED BY <1>3, <2>1
<1> QED BY <1>3, <1>4, <1>5 DEF p, q

LEMMA PerpetualKept ==
  ASSUME LimitsInv, NEW c \in Caller, PerpetualExecuted(c)
  PROVE  LimitsInv'
<1> DEFINE y == caller[c]
           s == y.signal
           h == held["perpetual"]
           n == IF s.lots <= h THEN s.lots ELSE h
<1>1. GateTyped /\ y \in CallType /\ h \in Nat
  BY DEF LimitsInv, GateTyped, Exposed
<1>2. /\ y.stage = "approved" /\ made' = made + 1
      /\ caller' = [caller EXCEPT ![c] = Waiting] /\ UNCHANGED <<open_orders, settling>>
      /\ IF s.side = "BUY"
         THEN /\ held' = [held EXCEPT !["perpetual"] = @ + s.lots]
              /\ cost' = [cost EXCEPT !["perpetual"] = @ + s.lots * y.price]
         ELSE /\ held' = [held EXCEPT !["perpetual"] = @ - n]
              /\ cost' = [cost EXCEPT !["perpetual"] = IF n = h THEN 0 ELSE @ - (@ * n) \div h]
  BY DEF PerpetualExecuted, At
<1>3. y \in ApprovedType
  BY <1>1, <1>2, Stages
<1>4. s.lots \in Nat /\ y.price \in Nat
  BY <1>3, GateAssumption DEF ApprovedType, SignalType
<1> HIDE DEF y, s
<1>5. cost["perpetual"] \in Nat /\ n \in Nat /\ n <= h
  BY <1>1, <1>4 DEF GateTyped, Exposed
<1>6. PICK q \in Nat, k \in Nat : /\ held' = [held EXCEPT !["perpetual"] = q]
                                  /\ cost' = [cost EXCEPT !["perpetual"] = k]
  <2>1. CASE s.side = "BUY"
    <3>1. h + s.lots \in Nat /\ cost["perpetual"] + s.lots * y.price \in Nat
      BY <1>1, <1>4, <1>5
    <3> QED BY <1>2, <2>1, <3>1
  <2>2. CASE s.side # "BUY" /\ n = h
    <3>1. held' = [held EXCEPT !["perpetual"] = h - n] /\ cost' = [cost EXCEPT !["perpetual"] = 0]
      BY <1>2, <2>2
    <3>2. h - n \in Nat
      BY <1>1, <1>5
    <3> QED BY <3>1, <3>2
  <2>3. CASE s.side # "BUY" /\ n # h
    <3> DEFINE a == cost["perpetual"]
    <3>1. /\ held' = [held EXCEPT !["perpetual"] = h - n]
          /\ cost' = [cost EXCEPT !["perpetual"] = a - (a * n) \div h]
      BY <1>2, <2>3
    <3>2. a \in Nat /\ h \in Nat \ {0}
      BY <1>1, <1>5, <2>3
    <3> HIDE DEF a, h, n
    <3>3. (a * n) \div h \in Nat /\ (a * n) \div h <= a
      BY <1>5, <3>2, ShareIsPart
    <3>4. a - (a * n) \div h \in Nat /\ h - n \in Nat
      BY <1>5, <3>2, <3>3
    <3> QED BY <3>1, <3>4
  <2> QED BY <2>1, <2>2, <2>3
<1>7. cost'["spot"] = cost["spot"] /\ held' \in [Exposed -> Nat] /\ cost' \in [Exposed -> Nat]
  BY <1>1, <1>6 DEF GateTyped, Exposed
<1>8. GateTyped'
  <2>1. made' \in Nat /\ 1..made \subseteq 1..made'
    BY <1>1, <1>2 DEF GateTyped
  <2>2. caller' \in [Caller -> CallType]
    BY <1>1, <1>2, WaitingFacts DEF GateTyped
  <2> QED BY <1>1, <1>2, <1>7, <2>1, <2>2 DEF GateTyped
<1> QED BY <1>2, <1>7, <1>8, EndKept

\* A spot order is one of those that were counted, and its notional was claimed.
LEMMA SpotOrderedKept ==
  ASSUME LimitsInv, NEW c \in Caller, SpotOrdered(c)
  PROVE  LimitsInv'
<1> DEFINE y == caller[c]
           i == made + 1
           o == [side |-> y.signal.side, lots |-> y.signal.lots, price |-> y.price]
           D == DOMAIN open_orders
<1>1. GateTyped /\ SmallOrders /\ SettlersCounted /\ OpenCounted /\ ExposureCounted /\ y \in CallType
  BY DEF LimitsInv, GateTyped
<1>2. /\ y.stage = "approved" /\ y.signal.market = "spot" /\ made' = i
      /\ caller' = [caller EXCEPT ![c] = Waiting] /\ UNCHANGED <<held, cost, settling>>
      /\ open_orders' = [j \in D \cup {i} |-> IF j = i THEN o ELSE open_orders[j]]
  BY DEF SpotOrdered, At
<1>3. y \in ApprovedType
  BY <1>1, <1>2, Stages
<1>4. o \in OrderType
  BY <1>3 DEF ApprovedType, SignalType, OrderType
<1>5. /\ o.side = y.signal.side /\ o.lots * o.price = Notional(y)
      /\ Notional(y) \in Nat
  <2>1. y.signal.lots \in Nat /\ y.price \in Nat
    BY <1>3, GateAssumption DEF ApprovedType, SignalType
  <2> QED BY <2>1 DEF Notional
<1> HIDE DEF y, o
<1>6. made \in Nat /\ D \subseteq 1..made /\ i \in Nat /\ i \notin D /\ D \cup {i} \subseteq 1..i
  BY <1>1 DEF GateTyped
<1> HIDE DEF i
<1>7. DOMAIN open_orders' = D \cup {i} /\ open_orders'[i] = o
      /\ \A j \in D : open_orders'[j] = open_orders[j]
  BY <1>2, <1>6
<1>8. GateTyped'
  <2>1. caller' \in [Caller -> CallType]
    BY <1>1, <1>2, WaitingFacts DEF GateTyped
  <2> QED BY <1>1, <1>2, <1>4, <1>6, <1>7, <2>1 DEF GateTyped
<1>9. /\ \A d \in Caller : Claims'[d] \in Nat
      /\ Claims'[c] = 0 /\ \A d \in Caller \ {c} : Claims'[d] = Claims[d]
      /\ Sum(Claims', Caller) + Claim(y) = Sum(Claims, Caller) + 0
      /\ Sum(Claims', Caller) \in Nat
      /\ Counted' = Counted \ {c}
  BY <1>1, <1>2, CallMoves, WaitingFacts DEF y
<1>10. c \in Counted
  BY <1>2 DEF Counted, Counts, y
<1>11. Claim(y) = (IF y.signal.side = "BUY" THEN Notional(y) ELSE 0) /\ Claims[c] = Claim(y)
  BY <1>2 DEF Claim, BuysSpot, Claims, y
<1>12. Values' = [j \in D \cup {i} |-> IF j = i THEN Notional(y) ELSE Values[j]]
  BY <1>5, <1>6, <1>7 DEF Values
<1>13. Buys' = IF y.signal.side = "BUY" THEN Buys \cup {i} ELSE Buys
  BY <1>5, <1>6, <1>7 DEF Buys
<1>14. OpenCounted'
  <2>3. list_open' = list_open \cup {i} /\ i \notin list_open
    BY <1>1, <1>2, <1>6, <1>7 DEF list_open, GateTyped
  <2>1. Cardinality(list_open \cup {i}) = Cardinality(list_open) + 1 /\ Cardinality(list_open) \in Nat
    BY <1>1, <2>3, OrderFacts, FS_AddElement
  <2>2. Cardinality(Counted \ {c}) = Cardinality(Counted) - 1 /\ Cardinality(Counted) \in Nat
    <3>1. Counted \in SUBSET Caller
      BY DEF Counted
    <3> QED BY <1>10, <3>1, CallerFacts, FS_RemoveElement
  <2> QED BY <1>1, <1>9, <2>1, <2>2, <2>3, CallerFacts DEF OpenCounted
<1>15. SmallOrders'
  <2>1. \A d \in Caller : Claims'[d] <= max_order_notional
    BY <1>1, <1>9, CallerFacts DEF SmallOrders
  <2>2. ASSUME NEW j \in Buys' PROVE Values'[j] <= max_order_notional
    <3>1. CASE j = i
      <4>1. i \notin Buys
        BY <1>6 DEF Buys
      <4>2. y.signal.side = "BUY"
        BY <1>13, <3>1, <4>1
      <4>3. Values'[i] = Claims[c]
        BY <1>11, <1>12, <4>2
      <4> QED BY <1>1, <3>1, <4>3 DEF SmallOrders
    <3>2. CASE j # i
      <4>1. j \in Buys /\ j \in D
        BY <1>13, <3>2 DEF Buys
      <4> QED BY <1>1, <1>12, <3>2, <4>1 DEF SmallOrders
    <3> QED BY <3>1, <3>2
  <2> QED BY <2>1, <2>2 DEF SmallOrders
<1>16. Sum(Values', Buys') = Sum(Values, Buys) + Claim(y) /\ Sum(Values, Buys) \in Nat
  <2> DEFINE w == Values'
  <2>1. IsFiniteSet(Buys) /\ (\A j \in Buys : Values[j] \in Nat) /\ Sum(Values, Buys) \in Nat
    BY <1>1, OrderFacts
  <2>2. i \notin Buys /\ \A j \in Buys : w[j] = Values[j]
    BY <1>6, <1>12 DEF Buys
  <2> HIDE DEF w
  <2>3. Sum(w, Buys) = Sum(Values, Buys)
    BY <2>1, <2>2, SumAgree
  <2>4. CASE y.signal.side # "BUY"
    BY <1>11, <1>13, <2>1, <2>3, <2>4 DEF w
  <2>5. CASE y.signal.side = "BUY"
    <3> DEFINE B == Buys \cup {i}
    <3>1. IsFiniteSet(B) /\ i \in B /\ B \ {i} = Buys
      BY <2>1, <2>2, FS_AddElement
    <3>2. w[i] = Claim(y) /\ Claim(y) \in Nat
      BY <1>5, <1>11, <1>12, <2>5 DEF w
    <3>3. \A j \in B : w[j] \in Nat
      BY <2>1, <2>2, <3>2
    <3> HIDE DEF B
    <3>4. Sum(w, B) = w[i] + Sum(w, B \ {i})
      BY <3>1, <3>3, SumRemove
    <3>5. Sum(w, B \ {i}) = Sum(Values, Buys)
      BY <2>3, <3>1, Zenon
    <3>6. Sum(w, B) = Sum(Values, Buys) + Claim(y)
      BY <2>1, <3>2, <3>4, <3>5
    <3> QED BY <1>13, <2>1, <2>5, <3>6 DEF B, w
  <2> QED BY <2>4, <2>5
<1>17. ExposureCounted'
  <2> DEFINE room == max_symbol_exposure
                       + (max_open_orders + 1 + 2 * (Cardinality(Caller) - 1)) * max_order_notional
  <2>1. room \in Int
    BY CallerFacts
  <2>2. Sum(Claims, Caller) \in Nat /\ cost["spot"] \in Nat /\ Claim(y) \in Nat
    BY <1>1, ClaimsTyped, ClaimTyped DEF GateTyped, Exposed
  <2>3. cost["spot"] + Sum(Values, Buys) + Sum(Claims, Caller) <= room
    BY <1>1 DEF ExposureCounted
  <2> HIDE DEF room
  <2>4. cost'["spot"] + Sum(Values', Buys') + Sum(Claims', Caller) <= room
    BY <1>2, <1>9, <1>16, <2>1, <2>2, <2>3
  <2> QED BY <2>4 DEF room, ExposureCounted
<1>18. SettlersCounted'
  BY <1>1, <1>2, WaitingFacts, FreeKept DEF Waiting
<1> QED BY <1>8, <1>18, <1>14, <1>15, <1>17 DEF LimitsInv

\* A commit takes an order off the list.
LEMMA CommitsKept ==
  ASSUME LimitsInv, Commits
  PROVE  LimitsInv'
<1>1. GateTyped /\ SmallOrders /\ SettlersCounted /\ OpenCounted /\ ExposureCounted
  BY DEF LimitsInv
<1>2. PICK i \in list_open : settling' = settling \cup {i}
  BY DEF Commits
<1>3. /\ Cardinality(settling) <= Cardinality(Free)
      /\ UNCHANGED <<held, cost, open_orders, caller, made>>
  BY DEF Commits
<1>4. i \in DOMAIN open_orders /\ i \notin settling /\ list_open' = list_open \ {i}
  BY <1>2, <1>3 DEF list_open
<1>5. GateTyped'
  BY <1>1, <1>2, <1>3, <1>4 DEF GateTyped
<1>6. Values' = Values /\ Buys' = Buys /\ Claims' = Claims /\ Counted' = Counted /\ Free' = Free
  BY <1>3 DEF Values, Buys, Claims, Counted, Free
<1>7. SettlersCounted'
  <2>1. Cardinality(settling \cup {i}) = Cardinality(settling) + 1 /\ Cardinality(settling) \in Nat
    BY <1>1, <1>4, OrderFacts, FS_AddElement
  <2>2. Cardinality(Free) \in Nat
    BY CallerFacts DEF Free
  <2> QED BY <1>2, <1>3, <1>6, <2>1, <2>2 DEF SettlersCounted
<1>8. OpenCounted'
  <2>1. Cardinality(list_open \ {i}) = Cardinality(list_open) - 1 /\ Cardinality(list_open) \in Nat
    BY <1>1, OrderFacts, FS_RemoveElement
  <2>2. Cardinality(Counted) \in Nat
    BY CallerFacts DEF Counted
  <2> QED BY <1>1, <1>4, <1>6, <2>1, <2>2, CallerFacts DEF OpenCounted
<1>9. SmallOrders' /\ ExposureCounted'
  <2>1. Sum(Values', Buys') = Sum(Values, Buys) /\ Sum(Claims', Caller) = Sum(Claims, Caller)
    BY <1>6
  <2> QED BY <1>1, <1>3, <1>6, <2>1 DEF SmallOrders, ExposureCounted
<1> QED BY <1>5, <1>7, <1>8, <1>9 DEF LimitsInv

\* A fill moves the value of an order to the cost, and a sale lowers the cost.
LEMMA SettlesKept ==
  ASSUME LimitsInv, Settles
  PROVE  LimitsInv'
<1> DEFINE D == DOMAIN open_orders
<1>1. GateTyped /\ SmallOrders /\ SettlersCounted /\ OpenCounted /\ ExposureCounted
  BY DEF LimitsInv
<1>14. settling \subseteq D
  BY <1>1 DEF GateTyped
<1>2. PICK i \in D :
        /\ i \in settling /\ settling' = settling \ {i}
        /\ open_orders' = [j \in D \ {i} |-> open_orders[j]]
        /\ IF open_orders[i].side = "BUY"
           THEN /\ held' = [held EXCEPT !["spot"] = @ + open_orders[i].lots]
                /\ cost' = [cost EXCEPT !["spot"] = @ + open_orders[i].lots * open_orders[i].price]
           ELSE IF open_orders[i].lots <= held["spot"]
           THEN /\ held' = [held EXCEPT !["spot"] = @ - open_orders[i].lots]
                /\ cost' = [cost EXCEPT !["spot"] = @ - (@ * open_orders[i].lots) \div held["spot"]]
           ELSE UNCHANGED <<held, cost>>
  BY <1>14 DEF Settles
<1>3. UNCHANGED <<caller, made>>
  BY DEF Settles
<1> DEFINE n == open_orders[i].lots
           h == held["spot"]
           a == cost["spot"]
           v == IF open_orders[i].side = "BUY" THEN Values[i] ELSE 0
<1>4. n \in Nat \ {0} /\ h \in Nat /\ a \in Nat /\ Values[i] \in Nat
      /\ Values[i] = n * open_orders[i].price
  <2>1. open_orders[i] \in OrderType
    BY <1>1 DEF GateTyped
  <2> QED BY <1>1, <2>1, OrderFacts, GateAssumption DEF OrderType, GateTyped, Exposed, Values
<1>5. PICK q \in Nat, k \in Nat : /\ held' = [held EXCEPT !["spot"] = q]
                                  /\ cost' = [cost EXCEPT !["spot"] = k]
                                  /\ k <= a + v
  <2>1. CASE open_orders[i].side = "BUY"
    <3>1. h + n \in Nat /\ a + Values[i] \in Nat /\ v = Values[i] /\ a + Values[i] <= a + v
      BY <1>4, <2>1
    <3>2. held' = [held EXCEPT !["spot"] = h + n] /\ cost' = [cost EXCEPT !["spot"] = a + Values[i]]
      BY <1>2, <1>4, <2>1
    <3> QED BY <3>1, <3>2
  <2>2. CASE open_orders[i].side # "BUY" /\ n <= h
    <3>1. /\ held' = [held EXCEPT !["spot"] = h - n]
          /\ cost' = [cost EXCEPT !["spot"] = a - (a * n) \div h]
      BY <1>2, <2>2
    <3>2. v = 0 /\ h \in Nat \ {0}
      BY <1>4, <2>2
    <3> HIDE DEF a, h, n, v
    <3>3. (a * n) \div h \in Nat /\ (a * n) \div h <= a
      BY <1>4, <2>2, <3>2, ShareIsPart
    <3>4. a - (a * n) \div h \in Nat /\ h - n \in Nat /\ a - (a * n) \div h <= a + v
      BY <1>4, <2>2, <3>2, <3>3
    <3> QED BY <3>1, <3>4
  <2>3. CASE open_orders[i].side # "BUY" /\ ~(n <= h)
    <3>1. held' = [held EXCEPT !["spot"] = h] /\ cost' = [cost EXCEPT !["spot"] = a]
      BY <1>1, <1>2, <2>3 DEF GateTyped, Exposed
    <3>2. a <= a + v
      BY <1>4, <2>3
    <3> QED BY <1>4, <3>1, <3>2
  <2> QED BY <2>1, <2>2, <2>3
<1>6. /\ held' \in [Exposed -> Nat] /\ cost' \in [Exposed -> Nat] /\ cost'["spot"] = k
      /\ DOMAIN open_orders' = D \ {i} /\ \A j \in D \ {i} : open_orders'[j] = open_orders[j]
  BY <1>1, <1>2, <1>5 DEF GateTyped, Exposed
<1>7. GateTyped'
  BY <1>1, <1>2, <1>3, <1>6, <1>14 DEF GateTyped
<1>8. Claims' = Claims /\ Counted' = Counted /\ Free' = Free
  BY <1>3 DEF Claims, Counted, Free
<1>15. SettlersCounted'
  <2>1. Cardinality(settling \ {i}) = Cardinality(settling) - 1 /\ Cardinality(settling) \in Nat
    BY <1>1, <1>2, OrderFacts, FS_RemoveElement
  <2>2. Cardinality(Free) \in Nat
    BY CallerFacts DEF Free
  <2> QED BY <1>1, <1>2, <1>8, <2>1, <2>2 DEF SettlersCounted
<1>9. /\ Buys' = Buys \ {i}
      /\ \A j \in D \ {i} : Values'[j] = Values[j]
  BY <1>6 DEF Buys, Values
<1>10. SmallOrders'
  BY <1>1, <1>8, <1>9 DEF SmallOrders, Buys
<1>11. OpenCounted'
  <2>1. list_open' = list_open
    BY <1>2, <1>6, <1>14 DEF list_open
  <2> QED BY <1>1, <1>8, <2>1 DEF OpenCounted
<1>12. Sum(Values', Buys') + v = Sum(Values, Buys)
       /\ Sum(Values, Buys) \in Nat /\ Sum(Values', Buys') \in Nat
  <2> DEFINE w == Values'
             B == Buys \ {i}
  <2>1. IsFiniteSet(Buys) /\ (\A j \in Buys : Values[j] \in Nat) /\ Sum(Values, Buys) \in Nat
    BY <1>1, OrderFacts
  <2>2. IsFiniteSet(B) /\ \A j \in B : Values[j] \in Nat /\ w[j] = Values[j]
    BY <1>9, <2>1, FS_Subset DEF Buys
  <2> HIDE DEF w
  <2>3. Sum(w, B) = Sum(Values, B)
    <3> HIDE DEF B
    <3> QED BY <2>2, SumAgree
  <2>4. CASE open_orders[i].side = "BUY"
    <3>1. i \in Buys
      BY <2>4 DEF Buys
    <3>2. Sum(Values, Buys) = Values[i] + Sum(Values, B) /\ Sum(Values, B) \in Nat
      BY <2>1, <3>1, SumRemove
    <3>3. Sum(w, Buys') = Sum(Values, B) /\ v = Values[i]
      BY <1>9, <2>3, <2>4
    <3> QED BY <1>4, <2>1, <3>2, <3>3 DEF w
  <2>5. CASE open_orders[i].side # "BUY"
    <3>1. B = Buys /\ v = 0
      BY <2>5 DEF Buys
    <3>2. Buys' = Buys
      BY <1>9, <3>1
    <3> HIDE DEF B
    <3>3. Sum(w, Buys') = Sum(Values, Buys)
      BY <2>3, <3>1, <3>2, Zenon
    <3> HIDE DEF v
    <3>4. Sum(w, Buys') + v = Sum(Values, Buys) /\ Sum(w, Buys') \in Nat
      BY <2>1, <3>1, <3>3
    <3> QED BY <2>1, <3>4 DEF w
  <2> QED BY <2>4, <2>5
<1>13. ExposureCounted'
  <2> DEFINE room == max_symbol_exposure
                       + (max_open_orders + 1 + 2 * (Cardinality(Caller) - 1)) * max_order_notional
  <2>1. room \in Int /\ v \in Nat
    BY <1>4, CallerFacts
  <2>2. Sum(Claims, Caller) \in Nat
    BY <1>1, ClaimsTyped
  <2>3. a + Sum(Values, Buys) + Sum(Claims, Caller) <= room
    BY <1>1 DEF ExposureCounted
  <2>4. Sum(Claims', Caller) = Sum(Claims, Caller)
    BY <1>8
  <2> HIDE DEF room, a, v
  <2>5. cost'["spot"] + Sum(Values', Buys') + Sum(Claims', Caller) <= room
    BY <1>4, <1>5, <1>6, <1>12, <2>1, <2>2, <2>3, <2>4
  <2> QED BY <2>5 DEF room, ExposureCounted
<1> QED BY <1>7, <1>10, <1>11, <1>13, <1>15 DEF LimitsInv

LEMMA LimitsSame ==
  ASSUME LimitsInv, UNCHANGED <<held, cost, open_orders, settling, caller, made>>
  PROVE  LimitsInv'
<1>1. /\ Values' = Values /\ Buys' = Buys /\ Claims' = Claims /\ Counted' = Counted
      /\ Free' = Free /\ list_open' = list_open
  BY DEF Values, Buys, Claims, Counted, Free, list_open
<1>2. Sum(Values', Buys') = Sum(Values, Buys) /\ Sum(Claims', Caller) = Sum(Claims, Caller)
  BY <1>1
<1> QED BY <1>1, <1>2
    DEF LimitsInv, GateTyped, SmallOrders, SettlersCounted, OpenCounted, ExposureCounted

LEMMA GateStep ==
  ASSUME LimitsInv, GateNext
  PROVE  LimitsInv'
BY ReadsPositionsKept, ReadsMarketKept, ChecksKept, RefusedKept, SpotOrderedKept,
   PerpetualKept, CommitsKept, SettlesKept DEF GateNext

LEMMA GateStart ==
  ASSUME GateInit
  PROVE  LimitsInv
<1>1. GateTyped
  BY WaitingFacts DEF GateInit, GateTyped, Exposed
<1>2. Buys = {} /\ DOMAIN open_orders = {} /\ settling = {} /\ list_open = {}
  BY DEF GateInit, Buys, list_open
<1>3. \A c \in Caller : Claims[c] = 0 /\ ~Counts(caller[c])
  BY WaitingFacts DEF GateInit, Claims
<1>4. SmallOrders
  BY <1>2, <1>3, CallerFacts DEF SmallOrders
<1>5. OpenCounted
  <2>1. Counted = {}
    BY <1>3 DEF Counted
  <2> QED BY <1>2, <2>1, FS_EmptySet, CallerFacts DEF OpenCounted
<1>6. ExposureCounted
  <2>1. Sum(Values, Buys) = 0
    BY <1>2, SumEmpty
  <2>2. Sum(Claims, Caller) <= Cardinality(Caller) * 0 /\ Sum(Claims, Caller) \in Nat
    BY <1>1, <1>3, SumBounded, CallerFacts, ClaimsTyped
  <2>3. cost["spot"] = 0
    BY DEF GateInit, Exposed
  <2>4. (max_open_orders + 1 + 2 * (Cardinality(Caller) - 1)) * max_order_notional \in Nat
    BY CallerFacts
  <2> QED BY <2>1, <2>2, <2>3, <2>4, CallerFacts DEF ExposureCounted
<1>7. SettlersCounted
  <2>1. Cardinality(settling) = 0 /\ Cardinality(Free) \in Nat
    BY <1>2, FS_EmptySet, CallerFacts DEF Free
  <2> QED BY <2>1 DEF SettlersCounted
<1> QED BY <1>1, <1>4, <1>5, <1>6, <1>7 DEF LimitsInv

\* The invariant bounds what is open and what is bought.
LEMMA LimitsSafe == LimitsInv => LimitsAreBounded
<1> SUFFICES ASSUME LimitsInv PROVE LimitsAreBounded
  OBVIOUS
<1>1. GateTyped /\ OpenCounted /\ ExposureCounted
  BY DEF LimitsInv
<1>2. OpenOrdersBounded
  <2>1. Cardinality(Counted) \in Nat /\ Cardinality(list_open) \in Nat
    BY <1>1, CallerFacts, OrderFacts DEF Counted
  <2> QED BY <1>1, <2>1, CallerFacts DEF OpenCounted, OpenOrdersBounded
<1>3. SpotOvershootBounded
  <2> DEFINE room == max_symbol_exposure
                       + (max_open_orders + 1 + 2 * (Cardinality(Caller) - 1)) * max_order_notional
  <2>1. room \in Int
    BY CallerFacts
  <2>2. Sum(Claims, Caller) \in Nat /\ cost["spot"] \in Nat /\ OpenBuys \in Nat
        /\ OpenBuys = Sum(Values, Buys)
    BY <1>1, ClaimsTyped, OrderFacts DEF GateTyped, Exposed
  <2>3. cost["spot"] + OpenBuys + Sum(Claims, Caller) <= room
    BY <1>1, <2>2 DEF ExposureCounted
  <2> HIDE DEF room
  <2>4. cost["spot"] + OpenBuys <= room
    BY <2>1, <2>2, <2>3
  <2> QED BY <2>4 DEF room, SpotOvershootBounded
<1> QED BY <1>2, <1>3 DEF LimitsAreBounded

-----------------------------------------------------------------------------
(* Folds over sequences: the values that a fold passes through.  move is the*)
(* folded operator as a function on the states St and the elements E.      *)

Runs(f, move, base, s) == f[0] = base /\ \A k \in 1..Len(s) : f[k] = move[<<f[k - 1], s[k]>>]

\* The function that FoldLeft's definition chooses: on sets of indices, by their maximum.
IteratesTo(n, g, move, base, s) ==
  \A t \in SUBSET (1..n) :
    /\ g[t] = IF t = {} THEN base ELSE move[<<g[t \ {Max(t)}], s[Max(t)]>>]
    /\ t # {} => Max(t) \in t

Iterates(g, move, base, s) == IteratesTo(Len(s), g, move, base, s)

LEMMA MaxIs ==
  ASSUME NEW t \in SUBSET Int, NEW n \in t, \A k \in t : k <= n
  PROVE  Max(t) = n
<1>1. Max(t) \in t /\ \A k \in t : Max(t) >= k
  BY DEF Max
<1>2. Max(t) \in Int /\ n \in Int /\ Max(t) <= n /\ Max(t) >= n
  BY <1>1
<1> QED BY <1>2

LEMMA IteratesExist ==
  ASSUME NEW St, NEW E, NEW move \in [St \X E -> St], NEW base \in St, NEW s \in Seq(E)
  PROVE  \E g \in [SUBSET (1..Len(s)) -> St] : Iterates(g, move, base, s)
<1> DEFINE T == {n \in 0..Len(s) :
                   \E g \in [SUBSET (1..n) -> St] : IteratesTo(n, g, move, base, s)}
<1>1. Len(s) \in Nat
  OBVIOUS
<1>2. 0 \in T
  <2> DEFINE g == [t \in SUBSET (1..0) |-> base]
  <2>1. \A t \in SUBSET (1..0) : t = {}
    OBVIOUS
  <2>2. g \in [SUBSET (1..0) -> St] /\ IteratesTo(0, g, move, base, s)
    BY <2>1 DEF IteratesTo
  <2>3. 0 \in 0..Len(s)
    BY <1>1
  <2> HIDE DEF g
  <2> QED BY <2>2, <2>3, Zenon
<1>3. ASSUME NEW n \in 1..Len(s), n - 1 \in T PROVE n \in T
  <2>1. PICK g \in [SUBSET (1..(n - 1)) -> St] : IteratesTo(n - 1, g, move, base, s)
    BY <1>3
  <2> DEFINE h == [t \in SUBSET (1..n) |-> IF n \in t THEN move[<<g[t \ {n}], s[n]>>] ELSE g[t]]
  <2>2. ASSUME NEW t \in SUBSET (1..n)
        PROVE  /\ n \in t => t \ {n} \in SUBSET (1..(n - 1)) /\ Max(t) = n
               /\ n \notin t => t \in SUBSET (1..(n - 1))
    <3>1. n \in t => Max(t) = n
      BY MaxIs
    <3> QED BY <3>1
  <2>3. s[n] \in E
    BY <1>1
  <2>4. h \in [SUBSET (1..n) -> St]
    <3>1. ASSUME NEW t \in SUBSET (1..n) PROVE h[t] \in St
      <4>1. CASE n \in t
        <5>1. g[t \ {n}] \in St
          BY <2>2, <4>1
        <5> QED BY <2>3, <4>1, <5>1
      <4>2. CASE n \notin t
        BY <2>2, <4>2
      <4> QED BY <4>1, <4>2
    <3> QED BY <3>1
  <2>5. ASSUME NEW t \in SUBSET (1..(n - 1)) PROVE t \in SUBSET (1..n) /\ h[t] = g[t]
    <3>1. t \in SUBSET (1..n) /\ n \notin t
      BY <1>1
    <3> QED BY <3>1
  <2>6. ASSUME NEW t \in SUBSET (1..n)
        PROVE  /\ h[t] = IF t = {} THEN base ELSE move[<<h[t \ {Max(t)}], s[Max(t)]>>]
               /\ t # {} => Max(t) \in t
    <3>1. CASE n \in t
      <4>1. h[t] = move[<<g[t \ {n}], s[n]>>] /\ Max(t) = n /\ h[t \ {n}] = g[t \ {n}]
        BY <2>2, <2>5, <3>1
      <4> HIDE DEF h
      <4> QED BY <3>1, <4>1
    <3>2. CASE n \notin t
      <4>1. t \in SUBSET (1..(n - 1)) /\ h[t] = g[t]
        BY <2>2, <2>5, <3>2
      <4>2. /\ g[t] = IF t = {} THEN base ELSE move[<<g[t \ {Max(t)}], s[Max(t)]>>]
            /\ t # {} => Max(t) \in t
        BY <2>1, <4>1 DEF IteratesTo
      <4>3. h[t \ {Max(t)}] = g[t \ {Max(t)}]
        BY <2>5, <4>1
      <4> HIDE DEF h
      <4> QED BY <4>1, <4>2, <4>3
    <3> QED BY <3>1, <3>2
  <2> HIDE DEF h
  <2>7. IteratesTo(n, h, move, base, s)
    BY <2>6 DEF IteratesTo
  <2> QED BY <1>1, <2>4, <2>7
<1>4. Len(s) \in T
  <2> HIDE DEF T
  <2> QED BY <1>1, <1>2, <1>3, ReachesAll
<1> QED BY <1>4 DEF Iterates, IteratesTo

LEMMA Segments ==
  ASSUME NEW n \in Nat, NEW k \in 1..n
  PROVE  /\ 1..k \in SUBSET (1..n) /\ 1..k # {} /\ Max(1..k) = k
         /\ (1..k) \ {k} = 1..(k - 1) /\ 1..(k - 1) \in SUBSET (1..n)
<1> DEFINE t == 1..k
<1>1. t \in SUBSET (1..n) /\ t \in SUBSET Int /\ k \in t /\ \A j \in t : j <= k
  OBVIOUS
<1>2. t \ {k} = 1..(k - 1) /\ 1..(k - 1) \in SUBSET (1..n)
  OBVIOUS
<1> HIDE DEF t
<1>3. Max(t) = k
  BY <1>1, MaxIs
<1> QED BY <1>1, <1>2, <1>3 DEF t

Folds(h, move, base, s, St) ==
  /\ h[{}] = base
  /\ \A k \in 1..Len(s) : h[1..(k - 1)] \in St => h[1..k] = move[<<h[1..(k - 1)], s[k]>>]

Moves(move, base, s, St, E) == move \in [St \X E -> St] /\ base \in St /\ s \in Seq(E)

\* Whatever the fold's own function is, on the initial segments it runs through the sequence.
LEMMA SegmentsRun ==
  ASSUME NEW St, NEW E, NEW move, NEW base, NEW s, Moves(move, base, s, St, E),
         NEW h, Folds(h, move, base, s, St)
  PROVE  \E f : /\ Runs(f, move, base, s) /\ f[Len(s)] = h[1..Len(s)]
                /\ \A k \in 0..Len(s) : f[k] \in St
<1> USE DEF Folds, Moves
<1>1. Len(s) \in Nat /\ h[1..0] = base
  <2>1. 1..0 = {}
    OBVIOUS
  <2> QED BY <2>1
<1> DEFINE T == {k \in 0..Len(s) : h[1..k] \in St}
<1>2. 0 \in T
  BY <1>1
<1>3. ASSUME NEW k \in 1..Len(s), k - 1 \in T PROVE k \in T
  <2>1. h[1..(k - 1)] \in St /\ k \in 0..Len(s) /\ s[k] \in E
    BY <1>1, <1>3
  <2>2. <<h[1..(k - 1)], s[k]>> \in St \X E
    BY <2>1
  <2>3. h[1..k] \in St
    BY <2>1, <2>2
  <2> QED BY <2>1, <2>3
<1>4. \A k \in 0..Len(s) : k \in T
  <2> HIDE DEF T
  <2> QED BY <1>1, <1>2, <1>3, ReachesAll
<1> DEFINE f == [k \in 0..Len(s) |-> h[1..k]]
<1>5. \A k \in 0..Len(s) : f[k] = h[1..k] /\ f[k] \in St
  BY <1>4
<1>6. 0 \in 0..Len(s) /\ Len(s) \in 0..Len(s)
      /\ \A k \in 1..Len(s) : k \in 0..Len(s) /\ k - 1 \in 0..Len(s)
  BY <1>1
<1> HIDE DEF f
<1>7. Runs(f, move, base, s)
  BY <1>1, <1>5, <1>6 DEF Runs
<1> QED BY <1>5, <1>6, <1>7

\* Two runs over sequences that begin alike pass through the same values.
LEMMA RunsAgree ==
  ASSUME NEW move, NEW base, NEW s, NEW r, Len(s) \in Nat, Len(r) \in Nat, Len(s) <= Len(r),
         \A k \in 1..Len(s) : s[k] = r[k],
         NEW f, Runs(f, move, base, s), NEW g, Runs(g, move, base, r)
  PROVE  \A k \in 0..Len(s) : f[k] = g[k]
<1> DEFINE n == Len(s)
<1> DEFINE T == {k \in 0..n : f[k] = g[k]}
<1>1. 0 \in T
  BY DEF Runs
<1>2. ASSUME NEW k \in 1..n, k - 1 \in T PROVE k \in T
  <2>1. k \in 1..Len(s) /\ k \in 1..Len(r) /\ k \in 0..n
    OBVIOUS
  <2>2. f[k] = move[<<f[k - 1], s[k]>>] /\ g[k] = move[<<g[k - 1], r[k]>>]
    BY <2>1 DEF Runs
  <2> QED BY <1>2, <2>1, <2>2
<1>3. \A k \in 0..n : k \in T
  <2> HIDE DEF T
  <2> QED BY <1>1, <1>2, ReachesAll
<1> QED BY <1>3

-----------------------------------------------------------------------------
(* The report on the exploration: what the fold makes of one more fill.    *)

LotType   == [signal : Signal \cup {NoSignal}, direction : -1..1]
FillType  == [symbol : Asset, lots : Int, signal : Signal \cup {NoSignal}, rest : -1..1]
ReadState == [read : Nat, entries : Nat,
              trades : SUBSET [lot : LotType, symbol : Asset, at : Nat],
              lot : [Asset -> SUBSET LotType], net : [Asset -> [lots : Int, sign : -1..1]]]
Unread    == [read |-> 0, entries |-> 0, trades |-> {}, lot |-> [a \in Asset |-> {}],
              net |-> [a \in Asset |-> [lots |-> 0, sign |-> 0]]]
StatusOf(s) == FoldLeft(Realized, Unread, s)

\* What an exit takes.
Taken(r, f) == {[lot |-> l, symbol |-> f.symbol, at |-> r.read + 1] : l \in r.lot[f.symbol]}

\* What an entry leaves.
OneLot(f) == {[signal |-> f.signal, direction |-> Sign(f.lots)]}

\* One fill read, field by field.
LEMMA RealizedIs ==
  ASSUME NEW r \in ReadState, NEW f \in FillType
  PROVE  /\ Realized(r, f) \in ReadState
         /\ Realized(r, f).read = r.read + 1
         /\ Realized(r, f).net[f.symbol] = NetAfter(r.net[f.symbol], f)
         /\ \A b \in Asset \ {f.symbol} : /\ Realized(r, f).net[b] = r.net[b]
                                          /\ Realized(r, f).lot[b] = r.lot[b]
         /\ opens_entry(r.net[f.symbol], f) =>
              /\ Realized(r, f).lot[f.symbol] = OneLot(f)
              /\ Realized(r, f).trades = r.trades
         /\ ~opens_entry(r.net[f.symbol], f) =>
              /\ Realized(r, f).lot[f.symbol] = {}
              /\ Realized(r, f).trades = r.trades \cup Taken(r, f)
<1> DEFINE a == f.symbol
           m == NetAfter(r.net[a], f)
           opens == opens_entry(r.net[a], f)
           one == [signal |-> f.signal, direction |-> Sign(f.lots)]
           more == {[lot |-> l, symbol |-> a, at |-> r.read + 1] : l \in r.lot[a]}
<1>1. a \in Asset /\ r.net[a] \in [lots : Int, sign : -1..1] /\ r.lot[a] \in SUBSET LotType
  BY DEF ReadState, FillType
<1>2. m \in [lots : Int, sign : -1..1] /\ one \in LotType
  BY <1>1 DEF FillType, NetAfter, Sign, LotType
<1>3. more \in SUBSET [lot : LotType, symbol : Asset, at : Nat]
  BY <1>1 DEF ReadState
<1>4. Realized(r, f) =
        IF opens
        THEN [r EXCEPT !.read = r.read + 1, !.net = [r.net EXCEPT ![a] = m],
                       !.lot = [r.lot EXCEPT ![a] = {one}], !.entries = r.entries + 1]
        ELSE [r EXCEPT !.read = r.read + 1, !.net = [r.net EXCEPT ![a] = m],
                       !.lot = [r.lot EXCEPT ![a] = {}], !.trades = r.trades \cup more]
  BY <1>1 DEF Realized, ReadState
<1> HIDE DEF m, one, more, opens, a
<1>5. CASE opens
  <2>1. Realized(r, f) = [read |-> r.read + 1, entries |-> r.entries + 1, trades |-> r.trades,
                          lot |-> [r.lot EXCEPT ![a] = {one}], net |-> [r.net EXCEPT ![a] = m]]
    BY <1>4, <1>5 DEF ReadState
  <2>2. [r.lot EXCEPT ![a] = {one}] \in [Asset -> SUBSET LotType]
        /\ [r.net EXCEPT ![a] = m] \in [Asset -> [lots : Int, sign : -1..1]]
    BY <1>1, <1>2 DEF ReadState
  <2>3. Realized(r, f) \in ReadState
    BY <2>1, <2>2 DEF ReadState
  <2>4. /\ Realized(r, f).net[a] = m /\ Realized(r, f).lot[a] = {one}
        /\ \A b \in Asset \ {a} : Realized(r, f).net[b] = r.net[b] /\ Realized(r, f).lot[b] = r.lot[b]
    BY <1>1, <2>1 DEF ReadState
  <2> QED BY <1>5, <2>1, <2>3, <2>4 DEF m, one, more, opens, a, OneLot
<1>6. CASE ~opens
  <2>1. Realized(r, f) = [read |-> r.read + 1, entries |-> r.entries, trades |-> r.trades \cup more,
                          lot |-> [r.lot EXCEPT ![a] = {}], net |-> [r.net EXCEPT ![a] = m]]
    BY <1>4, <1>6 DEF ReadState
  <2>2. [r.lot EXCEPT ![a] = {}] \in [Asset -> SUBSET LotType]
        /\ [r.net EXCEPT ![a] = m] \in [Asset -> [lots : Int, sign : -1..1]]
    BY <1>1, <1>2 DEF ReadState
  <2>3. Realized(r, f) \in ReadState
    BY <1>3, <2>1, <2>2 DEF ReadState
  <2>4. /\ Realized(r, f).net[a] = m /\ Realized(r, f).lot[a] = {}
        /\ \A b \in Asset \ {a} : Realized(r, f).net[b] = r.net[b] /\ Realized(r, f).lot[b] = r.lot[b]
    BY <1>1, <2>1 DEF ReadState
  <2> QED BY <1>6, <2>1, <2>3, <2>4 DEF m, one, more, opens, a, Taken
<1> QED BY <1>5, <1>6

Reading == [x \in ReadState \X FillType |-> Realized(x[1], x[2])]

LEMMA ReadingTyped == Reading \in [ReadState \X FillType -> ReadState] /\ Unread \in ReadState
<1>1. \A x \in ReadState \X FillType : Realized(x[1], x[2]) \in ReadState
  BY RealizedIs
<1>2. Unread \in ReadState
  BY DEF Unread, ReadState
<1> QED BY <1>1, <1>2 DEF Reading

LEMMA StatusRuns ==
  ASSUME NEW s \in Seq(FillType)
  PROVE  \E f : /\ Runs(f, Reading, Unread, s) /\ StatusOf(s) = f[Len(s)]
                /\ \A k \in 0..Len(s) : f[k] \in ReadState
<1> DEFINE G(g) == g = [t \in SUBSET DOMAIN s |->
                          IF t = {} THEN Unread ELSE Realized(g[t \ {Max(t)}], s[Max(t)])]
           h == CHOOSE g : G(g)
<1>1. StatusOf(s) = h[DOMAIN s]
  BY DEF StatusOf, FoldLeft, MapThenFoldSet
<1>2. DOMAIN s = 1..Len(s) /\ Len(s) \in Nat
  OBVIOUS
<1>3. PICK g \in [SUBSET (1..Len(s)) -> ReadState] : Iterates(g, Reading, Unread, s)
  BY IteratesExist, ReadingTyped
<1>4. ASSUME NEW t \in SUBSET (1..Len(s))
      PROVE  g[t] = IF t = {} THEN Unread ELSE Realized(g[t \ {Max(t)}], s[Max(t)])
  <2>1. CASE t = {}
    BY <1>3, <2>1 DEF Iterates, IteratesTo
  <2>2. CASE t # {}
    <3>1. Max(t) \in t /\ g[t] = Reading[<<g[t \ {Max(t)}], s[Max(t)]>>]
      BY <1>3, <2>2 DEF Iterates, IteratesTo
    <3>2. t \ {Max(t)} \in SUBSET (1..Len(s)) /\ Max(t) \in 1..Len(s)
      BY <3>1
    <3>3. g[t \ {Max(t)}] \in ReadState /\ s[Max(t)] \in FillType
      BY <1>2, <3>2
    <3> QED BY <2>2, <3>1, <3>3 DEF Reading
  <2> QED BY <2>1, <2>2
<1>5. G(h)
  <2>1. G(g)
    BY <1>2, <1>4
  <2> HIDE DEF G
  <2> QED BY <2>1
<1>6. \A t \in SUBSET (1..Len(s)) :
        h[t] = IF t = {} THEN Unread ELSE Realized(h[t \ {Max(t)}], s[Max(t)])
  <2> HIDE DEF h
  <2> QED BY <1>2, <1>5
<1> HIDE DEF h
<1>7. ASSUME NEW k \in 1..Len(s), h[1..(k - 1)] \in ReadState
      PROVE  h[1..k] = Reading[<<h[1..(k - 1)], s[k]>>]
  <2>1. h[1..k] = Realized(h[1..(k - 1)], s[k])
    BY <1>2, <1>6, Segments
  <2>2. s[k] \in FillType
    BY <1>2
  <2> QED BY <1>7, <2>1, <2>2 DEF Reading
<1>8. h[{}] = Unread
  BY <1>6
<1>9. Moves(Reading, Unread, s, ReadState, FillType)
  BY ReadingTyped DEF Moves
<1>10. Folds(h, Reading, Unread, s, ReadState)
  BY <1>7, <1>8 DEF Folds
<1>11. PICK f : /\ Runs(f, Reading, Unread, s) /\ f[Len(s)] = h[1..Len(s)]
               /\ \A k \in 0..Len(s) : f[k] \in ReadState
  BY <1>9, <1>10, SegmentsRun
<1> QED BY <1>1, <1>2, <1>11

\* The report on one more fill is the report on the others, and this fill read.
LEMMA StatusGrows ==
  ASSUME NEW s \in Seq(FillType), NEW e \in FillType
  PROVE  StatusOf(s) \in ReadState /\ StatusOf(Append(s, e)) = Realized(StatusOf(s), e)
<1> DEFINE r == Append(s, e)
           n == Len(s)
<1>1. /\ n \in Nat /\ r \in Seq(FillType) /\ Len(r) = n + 1 /\ r[n + 1] = e
      /\ \A k \in 1..n : r[k] = s[k]
  OBVIOUS
<1> HIDE DEF r
<1>2. PICK f : /\ Runs(f, Reading, Unread, s) /\ StatusOf(s) = f[n]
               /\ \A k \in 0..n : f[k] \in ReadState
  BY StatusRuns
<1>3. PICK g : /\ Runs(g, Reading, Unread, r) /\ StatusOf(r) = g[n + 1]
  BY <1>1, StatusRuns
<1>4. f[n] = g[n] /\ f[n] \in ReadState
  <2>1. Len(s) \in Nat /\ Len(r) \in Nat /\ Len(s) <= Len(r) /\ \A k \in 1..Len(s) : s[k] = r[k]
    BY <1>1
  <2>2. \A k \in 0..Len(s) : f[k] = g[k]
    BY <1>2, <1>3, <2>1, RunsAgree
  <2> QED BY <1>1, <1>2, <2>2
<1>5. g[n + 1] = Reading[<<g[n], e>>]
  BY <1>1, <1>3 DEF Runs
<1> QED BY <1>2, <1>3, <1>4, <1>5 DEF Reading, r

LEMMA StatusStarts == StatusOf(<<>>) = Unread
<1>1. <<>> \in Seq(FillType) /\ Len(<<>>) = 0
  OBVIOUS
<1> QED BY <1>1, StatusRuns DEF Runs

TripType == [direction : -1..1, signal : Signal \cup {NoSignal}, leaving : BOOLEAN, offset : -1..1]

ReportTyped ==
  /\ evidence \in Seq([signal : Signal, complete : BOOLEAN])
  /\ fills \in Seq(FillType) /\ holds \in [Asset -> Int] /\ booked \in [Asset -> Int]
  /\ residue \in [Asset -> -1..1] /\ trip \in [Asset -> TripType]
  /\ done \in SUBSET [trip : TripType, symbol : Asset, at : Nat]

\* What the report has of a symbol, beside what trading has of it.  As long as no exit has
\* begun, what is open in the report is the round trip's; afterwards it is nobody's.
TripFits(r, a) ==
  /\ r.net[a].lots = booked[a] /\ r.net[a].sign = SumSign(a)
  /\ holds[a] # 0 => trip[a].direction = Sign(holds[a])
  /\ holds[a] = 0 => trip[a].leaving
  /\ a \notin oversold => booked[a] = holds[a]
  /\ trip[a].leaving => \A l \in r.lot[a] : a \in oversold /\ l.signal = NoSignal
  /\ ~trip[a].leaving =>
       /\ \A l \in r.lot[a] : /\ l.direction = trip[a].direction /\ l.signal = trip[a].signal
                              /\ r.net[a].sign = trip[a].direction
       /\ r.lot[a] = {} => trip[a].offset = -trip[a].direction

Phantom(t) == t.symbol \in oversold /\ t.lot.signal = NoSignal

TripsMatch(r) ==
  /\ \A t \in r.trades : (\E d \in done : IsOf(t, d)) \/ Phantom(t)
  /\ \A d \in done : (\E t \in r.trades : IsOf(t, d)) \/ d.trip.offset = -d.trip.direction

ReportFits(r) ==
  r.read = Len(fills) /\ (\A a \in Asset : TripFits(r, a)) /\ TripsMatch(r)

ReportInv == ReportTyped /\ ReportFits(StatusOf(fills))

LEMMA ReportStart == ReportInit => ReportInv
<1> SUFFICES ASSUME ReportInit PROVE ReportInv
  OBVIOUS
<1>1. NoTrip \in TripType /\ NoTrip.direction = 0 /\ NoTrip.leaving
  BY DEF NoTrip, TripType
<1>2. ReportTyped
  BY <1>1 DEF ReportInit, ReportTyped
<1>3. StatusOf(fills) = Unread
  BY StatusStarts DEF ReportInit
<1>4. ASSUME NEW a \in Asset PROVE TripFits(Unread, a)
  BY <1>1 DEF ReportInit, TripFits, Unread, Sign, SumSign
<1>5. TripsMatch(Unread) /\ Unread.read = Len(fills)
  BY DEF TripsMatch, Unread, ReportInit
<1> QED BY <1>2, <1>3, <1>4, <1>5 DEF ReportInv, ReportFits

\* One more fill e: what the report and the books of the fills make of it.
Reads(r, q, a, e) ==
  /\ r = StatusOf(fills) /\ r \in ReadState /\ e \in FillType
  /\ StatusOf(fills)' = q /\ q.read = Len(fills') /\ r.read = Len(fills)
  /\ \A b \in Asset \ {a} : q.net[b] = r.net[b] /\ q.lot[b] = r.lot[b]
  /\ opens_entry(r.net[a], e) => q.lot[a] = OneLot(e) /\ q.trades = r.trades
  /\ ~opens_entry(r.net[a], e) => q.lot[a] = {} /\ q.trades = r.trades \cup Taken(r, e)
  /\ q.net[a].lots = booked'[a] /\ q.net[a].sign = SumSign(a)'
  /\ fills' \in Seq(FillType) /\ evidence' = evidence
  /\ booked' = [booked EXCEPT ![a] = booked[a] + e.lots] /\ booked' \in [Asset -> Int]
  /\ residue' \in [Asset -> -1..1] /\ \A b \in Asset \ {a} : residue'[b] = residue[b]

LEMMA FillRead ==
  ASSUME ReportInv, NEW a \in Asset, NEW lots \in Int, NEW signal \in Signal \cup {NoSignal},
         Filled(a, lots, signal)
  PROVE  \E e, r, q : /\ e.symbol = a /\ e.lots = lots /\ e.signal = signal
                      /\ Reads(r, q, a, e)
<1>1. PICK after : after = booked[a] + lots
  OBVIOUS
<1>2. ReportTyped /\ booked[a] \in Int /\ after \in Int
  BY <1>1 DEF ReportInv, ReportTyped
<1>3. PICK rest \in Residues(a, after) :
        /\ fills' = Append(fills, [symbol |-> a, lots |-> lots, signal |-> signal, rest |-> rest])
        /\ residue' = [residue EXCEPT ![a] = rest]
  BY <1>1 DEF Filled
<1>4. booked' = [booked EXCEPT ![a] = after]
  BY <1>1 DEF Filled
<1>5. rest \in -1..1
  BY <1>3 DEF Residues
<1>6. PICK e, r, q : /\ e = [symbol |-> a, lots |-> lots, signal |-> signal, rest |-> rest]
                     /\ r = StatusOf(fills) /\ q = Realized(r, e)
  OBVIOUS
<1>7. /\ e \in FillType /\ e.symbol = a /\ e.lots = lots /\ e.signal = signal /\ e.rest = rest
      /\ fills \in Seq(FillType) /\ fills' = Append(fills, e)
  BY <1>2, <1>3, <1>5, <1>6 DEF FillType, ReportTyped
<1>8. fills' \in Seq(FillType) /\ Len(fills') = Len(fills) + 1
  BY <1>7
<1>9. r \in ReadState /\ StatusOf(fills') = q
  BY <1>6, <1>7, StatusGrows
<1>10. TripFits(r, a) /\ r.read = Len(fills)
  BY <1>6 DEF ReportInv, ReportFits
<1>11. /\ q.read = r.read + 1
       /\ q.net[a] = NetAfter(r.net[a], e)
       /\ \A b \in Asset \ {a} : q.net[b] = r.net[b] /\ q.lot[b] = r.lot[b]
       /\ opens_entry(r.net[a], e) => q.lot[a] = OneLot(e) /\ q.trades = r.trades
       /\ ~opens_entry(r.net[a], e) => q.lot[a] = {} /\ q.trades = r.trades \cup Taken(r, e)
  <2>1. /\ q.read = r.read + 1
        /\ q.net[e.symbol] = NetAfter(r.net[e.symbol], e)
        /\ \A b \in Asset \ {e.symbol} : q.net[b] = r.net[b] /\ q.lot[b] = r.lot[b]
        /\ opens_entry(r.net[e.symbol], e) =>
             q.lot[e.symbol] = OneLot(e) /\ q.trades = r.trades
        /\ ~opens_entry(r.net[e.symbol], e) =>
             q.lot[e.symbol] = {} /\ q.trades = r.trades \cup Taken(r, e)
    <3>1. q = Realized(r, e) /\ r \in ReadState /\ e \in FillType
      BY <1>6, <1>7, <1>9
    <3> QED BY <3>1, RealizedIs
  <2>2. e.symbol = a
    BY <1>7
  <2> QED BY <2>1, <2>2
<1>12. /\ booked'[a] = after /\ booked' \in [Asset -> Int]
       /\ residue'[a] = rest /\ residue' \in [Asset -> -1..1]
       /\ \A b \in Asset \ {a} : residue'[b] = residue[b]
  BY <1>2, <1>3, <1>4, <1>5 DEF ReportTyped
<1>13. q.net[a].lots = booked'[a] /\ q.net[a].sign = SumSign(a)'
  <2>1. r.net[a].lots = booked[a]
    BY <1>10 DEF TripFits
  <2>2. q.net[a] = [lots |-> after, sign |-> IF after = 0 THEN rest ELSE Sign(after)]
    BY <1>1, <1>7, <1>11, <2>1 DEF NetAfter
  <2>3. SumSign(a)' = IF after # 0 THEN Sign(after) ELSE rest
    BY <1>12 DEF SumSign
  <2> QED BY <1>12, <2>2, <2>3
<1>14. StatusOf(fills)' = StatusOf(fills') /\ evidence' = evidence
       /\ booked' = [booked EXCEPT ![a] = booked[a] + e.lots]
  BY <1>1, <1>4, <1>7 DEF Filled
<1>15. Reads(r, q, a, e)
  BY <1>6, <1>7, <1>8, <1>9, <1>10, <1>11, <1>12, <1>13, <1>14 DEF Reads
<1> QED BY <1>7, <1>15

\* The other symbols are as they were, on both sides.
LEMMA OthersFit ==
  ASSUME NEW r, NEW q, NEW a, NEW b \in Asset \ {a}, TripFits(r, b),
         q.net[b] = r.net[b], q.lot[b] = r.lot[b],
         holds'[b] = holds[b], booked'[b] = booked[b], residue'[b] = residue[b], trip'[b] = trip[b],
         b \in oversold' <=> b \in oversold
  PROVE  TripFits(q, b)'
BY DEF TripFits, SumSign

\* What a fill takes from the report is a round trip, or nobody's.
LEMMA TakenMatch ==
  ASSUME NEW r, NEW q, NEW e, NEW a \in Asset, TripsMatch(r),
         done \subseteq done', oversold \subseteq oversold',
         \/ q.trades = r.trades
         \/ /\ q.trades = r.trades \cup Taken(r, e) /\ e.symbol = a
            /\ \A l \in r.lot[a] :
                 LET t == [lot |-> l, symbol |-> a, at |-> r.read + 1]
                 IN  (\E d \in done' : IsOf(t, d)) \/ Phantom(t)',
         \A d \in done' : \/ d \in done
                          \/ \E t \in q.trades : IsOf(t, d)
                          \/ d.trip.offset = -d.trip.direction
  PROVE  TripsMatch(q)'
<1>1. r.trades \subseteq q.trades
  OBVIOUS
<1>2. ASSUME NEW t \in q.trades
      PROVE  (\E d \in done' : IsOf(t, d)) \/ Phantom(t)'
  <2>1. CASE t \in r.trades
    BY <2>1 DEF TripsMatch, Phantom
  <2>2. CASE t \notin r.trades
    <3>1. PICK l \in r.lot[a] : t = [lot |-> l, symbol |-> a, at |-> r.read + 1]
      BY <2>2 DEF Taken
    <3> QED BY <2>2, <3>1
  <2> QED BY <2>1, <2>2
<1>3. ASSUME NEW d \in done'
      PROVE  (\E t \in q.trades : IsOf(t, d)) \/ d.trip.offset = -d.trip.direction
  BY <1>1 DEF TripsMatch
<1>4. \A t, d : IsOf(t, d)' <=> IsOf(t, d)
  BY DEF IsOf
<1> QED BY <1>2, <1>3 DEF TripsMatch, IsOf

LEMMA EntryKept ==
  ASSUME ReportInv, NEW a \in Asset, EntryFill(a)
  PROVE  ReportInv'
<1> DEFINE Begun(d, s) == [direction |-> d, signal |-> s, leaving |-> FALSE,
                           offset |-> IF trip[a].leaving THEN SumSign(a) ELSE trip[a].offset]
<1>20. PICK d \in {-1, 1}, s \in Signal \cup {NoSignal} :
         /\ holds[a] # 0 => d = trip[a].direction /\ s = trip[a].signal
         /\ Filled(a, d, s)
         /\ holds' = [holds EXCEPT ![a] = holds[a] + d]
         /\ trip' = [trip EXCEPT ![a] = Begun(d, s)]
  BY DEF EntryFill
<1>1. PICK m : /\ m = Begun(d, s) /\ trip' = [trip EXCEPT ![a] = m]
               /\ holds[a] # 0 => d = trip[a].direction /\ s = trip[a].signal
               /\ Filled(a, d, s)
               /\ holds' = [holds EXCEPT ![a] = holds[a] + d]
  BY <1>20
<1>2. done' = done /\ oversold' = oversold
  BY DEF EntryFill
<1>3. PICK e, r, q : /\ e.symbol = a /\ e.lots = d /\ e.signal = s
                     /\ Reads(r, q, a, e)
  <2>1. d \in Int
    OBVIOUS
  <2> QED BY <1>1, <2>1, FillRead
<1>4. ReportTyped /\ TripFits(r, a) /\ TripsMatch(r) /\ \A b \in Asset : TripFits(r, b)
  BY <1>3 DEF ReportInv, ReportFits, Reads
<1>5. trip[a] \in TripType /\ holds[a] \in Int /\ residue[a] \in -1..1 /\ booked[a] \in Int
  BY <1>4 DEF ReportTyped
<1>6. SumSign(a) \in -1..1
  BY <1>5 DEF SumSign, Sign
<1>7. /\ m.direction = d /\ m.signal = s /\ ~m.leaving /\ m \in TripType
      /\ trip[a].leaving => m.offset = SumSign(a)
      /\ ~trip[a].leaving => m.offset = trip[a].offset
  BY <1>1, <1>5, <1>6 DEF TripType
<1>8. trip'[a] = m /\ trip' \in [Asset -> TripType] /\ \A b \in Asset \ {a} : trip'[b] = trip[b]
  BY <1>1, <1>4, <1>7 DEF ReportTyped
<1>9. /\ holds'[a] = holds[a] + d /\ holds' \in [Asset -> Int]
      /\ \A b \in Asset \ {a} : holds'[b] = holds[b]
  BY <1>1, <1>4, <1>5 DEF ReportTyped
<1>10. holds'[a] # 0 /\ Sign(holds'[a]) = d
  BY <1>1, <1>4, <1>5, <1>9 DEF TripFits, Sign
<1>11. ~trip[a].leaving => d = trip[a].direction /\ s = trip[a].signal
  BY <1>1, <1>4 DEF TripFits
<1>12. booked'[a] = booked[a] + d
  BY <1>3, <1>4 DEF Reads, ReportTyped
<1>13. a \notin oversold' => booked'[a] = holds'[a]
  BY <1>2, <1>4, <1>9, <1>12 DEF TripFits
<1>14. Sign(d) = d
  BY DEF Sign
<1>15. TripFits(q, a)' /\ (q.trades = r.trades \/
          (q.trades = r.trades \cup Taken(r, e) /\ \A l \in r.lot[a] : a \in oversold /\ l.signal = NoSignal))
  <2>1. q.net[a].lots = booked'[a] /\ q.net[a].sign = SumSign(a)'
    BY <1>3 DEF Reads
  <2>2. CASE opens_entry(r.net[a], e)
    <3>1. q.lot[a] = {[signal |-> s, direction |-> d]} /\ q.trades = r.trades
      BY <1>3, <1>14, <2>2 DEF Reads, OneLot
    <3>2. SumSign(a) = 0 \/ SumSign(a) = d
      BY <1>3, <1>4, <1>14, <2>2 DEF opens_entry, TripFits
    <3>3. SumSign(a)' = d
      BY <1>5, <1>12, <3>2 DEF SumSign, Sign
    <3>4. /\ q.lot[a] # {} /\ \A l \in q.lot[a] : l.direction = d /\ l.signal = s
      BY <3>1
    <3>5. TripFits(q, a)'
      BY <1>7, <1>8, <1>10, <1>13, <2>1, <3>3, <3>4 DEF TripFits
    <3> QED BY <3>1, <3>5
  <2>3. CASE ~opens_entry(r.net[a], e)
    <3>1. SumSign(a) = -d
      BY <1>3, <1>4, <1>6, <1>14, <2>3 DEF opens_entry, TripFits
    <3>2. q.lot[a] = {} /\ q.trades = r.trades \cup Taken(r, e)
      BY <1>3, <2>3 DEF Reads
    <3>3. ~trip[a].leaving => r.lot[a] = {}
      <4>1. r.net[a].sign = -d
        BY <1>4, <3>1 DEF TripFits
      <4>2. d # -d
        OBVIOUS
      <4> QED BY <1>4, <1>11, <4>1, <4>2 DEF TripFits
    <3>4. m.offset = -m.direction
      BY <1>4, <1>7, <1>11, <3>1, <3>3 DEF TripFits
    <3>5. \A l \in r.lot[a] : a \in oversold /\ l.signal = NoSignal
      BY <1>4, <3>3 DEF TripFits
    <3>6. TripFits(q, a)'
      BY <1>7, <1>8, <1>10, <1>13, <2>1, <3>2, <3>4 DEF TripFits
    <3> QED BY <3>2, <3>5, <3>6
  <2> QED BY <2>2, <2>3
<1>16. ASSUME NEW b \in Asset \ {a} PROVE TripFits(q, b)'
  <2>1. q.net[b] = r.net[b] /\ q.lot[b] = r.lot[b] /\ booked'[b] = booked[b] /\ residue'[b] = residue[b]
    BY <1>3, <1>4 DEF Reads, ReportTyped
  <2> QED BY <1>2, <1>4, <1>8, <1>9, <2>1, OthersFit
<1>17. TripsMatch(q)'
  <2>1. \/ q.trades = r.trades
        \/ /\ q.trades = r.trades \cup Taken(r, e) /\ e.symbol = a
           /\ \A l \in r.lot[a] : Phantom([lot |-> l, symbol |-> a, at |-> r.read + 1])'
    BY <1>2, <1>3, <1>15 DEF Phantom
  <2>2. \A d2 \in done' : d2 \in done
    BY <1>2
  <2> QED BY <1>2, <1>4, <2>1, <2>2, TakenMatch
<1>18. ReportTyped'
  BY <1>2, <1>3, <1>4, <1>8, <1>9 DEF ReportTyped, Reads
<1>19. \A b \in Asset : TripFits(q, b)'
  BY <1>15, <1>16
<1> QED BY <1>3, <1>17, <1>18, <1>19 DEF ReportInv, ReportFits, Reads

LEMMA ExitKept ==
  ASSUME ReportInv, NEW a \in Asset, ExitFill(a)
  PROVE  ReportInv'
<1>1. PICK k, h : k = trip[a].direction /\ h = holds[a]
  OBVIOUS
<1> DEFINE Left(lots) == k * h - lots
<1>25. PICK lots \in {1, 2} :
         /\ Filled(a, -k * lots, NoSignal)
         /\ \E n \in IF Left(lots) < 0 THEN {0, h} ELSE {k * Left(lots)} : holds' = [holds EXCEPT ![a] = n]
         /\ oversold' = IF Left(lots) < 0 THEN oversold \cup {a} ELSE oversold
  BY <1>1 DEF ExitFill
<1>26. PICK left, n : /\ left = Left(lots) /\ holds' = [holds EXCEPT ![a] = n]
                      /\ n \in IF left < 0 THEN {0, h} ELSE {k * left}
  BY <1>25
<1>2. PICK g, x : /\ lots \in {1, 2} /\ g = -k * lots /\ left = k * h - lots
                  /\ Filled(a, g, NoSignal)
                  /\ left < 0 => n \in {0, h} /\ oversold' = oversold \cup {a}
                  /\ ~(left < 0) => n = k * left /\ oversold' = oversold
                  /\ holds' = [holds EXCEPT ![a] = n]
                  /\ x = [trip |-> trip[a], symbol |-> a, at |-> Len(fills) + 1]
  BY <1>25, <1>26
<1> HIDE DEF Left
<1>3. /\ k # 0 /\ trip' = [trip EXCEPT ![a].leaving = TRUE]
      /\ trip[a].leaving => done' = done
      /\ ~trip[a].leaving => done' = done \cup {x}
  BY <1>1, <1>2 DEF ExitFill
<1>4. ReportTyped /\ trip[a] \in TripType /\ h \in Int /\ k \in {-1, 1} /\ booked[a] \in Int
      /\ residue[a] \in -1..1
  BY <1>1, <1>3 DEF ReportInv, ReportTyped, TripType
<1>5. g \in Int /\ Sign(g) = -k
  <2>1. ASSUME k = 1 PROVE g = -lots /\ lots \in {1, 2}
    BY <1>2, <2>1
  <2>2. ASSUME k = -1 PROVE g = lots /\ lots \in {1, 2}
    BY <1>2, <2>2
  <2> QED BY <1>4, <2>1, <2>2 DEF Sign
<1>6. PICK e, r, q : /\ e.symbol = a /\ e.lots = g /\ e.signal = NoSignal
                     /\ Reads(r, q, a, e)
  BY <1>2, <1>5, FillRead
<1>7. TripFits(r, a) /\ TripsMatch(r) /\ \A b \in Asset : TripFits(r, b)
  BY <1>6 DEF ReportInv, ReportFits, Reads
<1>8. h # 0 => k = Sign(h)
  BY <1>1, <1>7 DEF TripFits
<1>9. /\ n \in Int /\ (n # 0 => Sign(n) = k)
      /\ left >= 0 => n = h + g /\ h # 0
  <2>1. ASSUME k = 1
        PROVE  /\ g = -lots /\ left = h - lots /\ lots \in {1, 2} /\ h \in Int /\ (h # 0 => h > 0)
               /\ left < 0 => n \in {0, h}
               /\ ~(left < 0) => n = left
    BY <1>2, <1>4, <1>8, <2>1 DEF Sign
  <2>2. ASSUME k = -1
        PROVE  /\ g = lots /\ left = -h - lots /\ lots \in {1, 2} /\ h \in Int /\ (h # 0 => h < 0)
               /\ left < 0 => n \in {0, h}
               /\ ~(left < 0) => n = -left
    BY <1>2, <1>4, <1>8, <2>2 DEF Sign
  <2>3. CASE k = 1
    BY <2>1, <2>3 DEF Sign
  <2>4. CASE k = -1
    BY <2>2, <2>4 DEF Sign
  <2> QED BY <1>4, <2>3, <2>4
<1>10. booked'[a] = booked[a] + g /\ holds'[a] = n /\ holds' \in [Asset -> Int]
       /\ \A b \in Asset \ {a} : holds'[b] = holds[b] /\ booked'[b] = booked[b]
  BY <1>2, <1>4, <1>6, <1>9 DEF Reads, ReportTyped
<1>11. oversold \subseteq oversold' /\ \A b \in Asset \ {a} : b \in oversold' <=> b \in oversold
  BY <1>2
<1>12. a \notin oversold' => left >= 0 /\ booked[a] = h /\ a \notin oversold
  BY <1>1, <1>2, <1>4, <1>7, <1>11 DEF TripFits
<1>13. /\ trip'[a].leaving /\ trip'[a].direction = k /\ trip' \in [Asset -> TripType]
       /\ \A b \in Asset \ {a} : trip'[b] = trip[b]
  <2>1. PICK m : m = [trip[a] EXCEPT !.leaving = TRUE]
    OBVIOUS
  <2>2. m \in TripType /\ m.leaving /\ m.direction = k
    BY <1>1, <1>4, <2>1 DEF TripType
  <2>3. trip' = [trip EXCEPT ![a] = m]
    BY <1>3, <1>4, <2>1 DEF ReportTyped
  <2> QED BY <1>4, <2>2, <2>3 DEF ReportTyped
<1>14. SumSign(a) \in -1..1 /\ r.net[a].sign = SumSign(a)
  BY <1>4, <1>7 DEF SumSign, Sign, TripFits
<1>15. opens_entry(r.net[a], e) <=> SumSign(a) # k
  BY <1>4, <1>5, <1>6, <1>14 DEF opens_entry
<1>16. SumSign(a) # k => a \in oversold'
  <2>1. a \notin oversold' => booked[a] = h /\ h # 0
    BY <1>9, <1>12
  <2> QED BY <1>8, <2>1 DEF SumSign
<1>17. /\ SumSign(a) # k => /\ q.trades = r.trades
                            /\ \A l \in q.lot[a] : l.signal = NoSignal
       /\ SumSign(a) = k => q.lot[a] = {} /\ q.trades = r.trades \cup Taken(r, e)
  BY <1>6, <1>15 DEF Reads, OneLot
<1>18. TripFits(q, a)'
  <2>1. q.net[a].lots = booked'[a] /\ q.net[a].sign = SumSign(a)'
    BY <1>6 DEF Reads
  <2>2. a \notin oversold' => booked'[a] = holds'[a]
    BY <1>9, <1>10, <1>12
  <2>3. holds'[a] # 0 => trip'[a].direction = Sign(holds'[a])
    BY <1>9, <1>10, <1>13
  <2>4. \A l \in q.lot[a] : a \in oversold' /\ l.signal = NoSignal
    BY <1>16, <1>17
  <2> QED BY <1>13, <2>1, <2>2, <2>3, <2>4 DEF TripFits
<1>19. ASSUME NEW b \in Asset \ {a} PROVE TripFits(q, b)'
  <2>1. q.net[b] = r.net[b] /\ q.lot[b] = r.lot[b] /\ residue'[b] = residue[b]
    BY <1>6 DEF Reads
  <2> QED BY <1>7, <1>10, <1>11, <1>13, <2>1, OthersFit
<1>20. x.trip = trip[a] /\ x.symbol = a /\ x.at = r.read + 1 /\ x \in [trip : TripType, symbol : Asset, at : Nat]
  BY <1>2, <1>4, <1>6 DEF Reads, ReportTyped
<1>21. ASSUME NEW l \in r.lot[a], ~trip[a].leaving
       PROVE  IsOf([lot |-> l, symbol |-> a, at |-> r.read + 1], x) /\ SumSign(a) = k
  BY <1>1, <1>7, <1>14, <1>20, <1>21 DEF TripFits, IsOf
<1>22. TripsMatch(q)'
  <2>1. done \subseteq done'
    BY <1>3
  <2>2. ASSUME NEW l \in r.lot[a]
        PROVE  LET t == [lot |-> l, symbol |-> a, at |-> r.read + 1]
               IN  (\E d \in done' : IsOf(t, d)) \/ Phantom(t)'
    <3>1. CASE trip[a].leaving
      <4>1. a \in oversold' /\ l.signal = NoSignal
        BY <1>7, <1>11, <3>1 DEF TripFits
      <4> QED BY <4>1 DEF Phantom
    <3>2. CASE ~trip[a].leaving
      <4>1. x \in done'
        BY <1>3, <3>2
      <4> QED BY <1>21, <3>2, <4>1
    <3> QED BY <3>1, <3>2
  <2>3. ASSUME NEW d \in done', d \notin done
        PROVE  (\E t \in q.trades : IsOf(t, d)) \/ d.trip.offset = -d.trip.direction
    <3>1. ~trip[a].leaving /\ d = x
      BY <1>3, <2>3
    <3>2. CASE r.lot[a] = {}
      BY <1>7, <1>20, <3>1, <3>2 DEF TripFits
    <3>3. CASE r.lot[a] # {}
      <4>1. PICK l \in r.lot[a] : TRUE
        BY <3>3
      <4>2. PICK t : t = [lot |-> l, symbol |-> a, at |-> r.read + 1]
        OBVIOUS
      <4>3. IsOf(t, x) /\ SumSign(a) = k
        BY <1>21, <3>1, <4>2
      <4>4. t \in q.trades
        BY <1>6, <1>17, <4>2, <4>3 DEF Taken
      <4> QED BY <3>1, <4>3, <4>4
    <3> QED BY <3>2, <3>3
  <2>4. \/ q.trades = r.trades
        \/ q.trades = r.trades \cup Taken(r, e) /\ e.symbol = a
    BY <1>6, <1>17
  <2> QED BY <1>7, <1>11, <2>1, <2>2, <2>3, <2>4, TakenMatch
<1>23. ReportTyped'
  BY <1>3, <1>4, <1>6, <1>10, <1>13, <1>20 DEF ReportTyped, Reads
<1>24. \A b \in Asset : TripFits(q, b)'
  BY <1>18, <1>19
<1> QED BY <1>6, <1>22, <1>23, <1>24 DEF ReportInv, ReportFits, Reads

LEMMA ReportStep == ReportInv /\ [ReportNext]_reportVars => ReportInv'
<1> SUFFICES ASSUME ReportInv, [ReportNext]_reportVars PROVE ReportInv'
  OBVIOUS
<1>1. ASSUME UNCHANGED <<fills, holds, booked, residue, trip, oversold, done>>,
             evidence' \in Seq([signal : Signal, complete : BOOLEAN])
      PROVE  ReportInv'
  BY <1>1 DEF ReportInv, ReportTyped, ReportFits, TripFits, TripsMatch, Phantom, SumSign, IsOf
<1>2. CASE _persist_evidence
  <2>1. PICK s \in Signal, complete \in BOOLEAN :
          evidence' = store_decision([signal |-> s, complete |-> complete])
    BY <1>2 DEF _persist_evidence
  <2>2. evidence' \in Seq([signal : Signal, complete : BOOLEAN])
    <3>1. PICK row : row = [signal |-> s, complete |-> complete]
      OBVIOUS
    <3>2. row \in [signal : Signal, complete : BOOLEAN]
      BY <3>1
    <3>3. evidence' = evidence \/ evidence' = Append(evidence, row)
      BY <2>1, <3>1 DEF store_decision
    <3>4. PICK T : T = [signal : Signal, complete : BOOLEAN] /\ evidence \in Seq(T) /\ row \in T
      BY <3>2 DEF ReportInv, ReportTyped
    <3>5. Append(evidence, row) \in Seq(T)
      BY ONLY <3>4
    <3> QED BY <3>3, <3>4, <3>5
  <2> QED BY <1>1, <1>2, <2>2 DEF _persist_evidence
<1>3. CASE UNCHANGED reportVars
  BY <1>1, <1>3 DEF reportVars, ReportInv, ReportTyped
<1> QED BY <1>2, <1>3, EntryKept, ExitKept DEF ReportNext

LEMMA ReportSound == ReportInv => TradesAreRoundTrips /\ RoundTripsAreReported
<1> SUFFICES ASSUME ReportInv PROVE TradesAreRoundTrips /\ RoundTripsAreReported
  OBVIOUS
<1>1. StatusOf(fills) = exploration_status
  BY DEF StatusOf, exploration_status, Unread
<1>2. TripsMatch(exploration_status)
  BY <1>1 DEF ReportInv, ReportFits
<1>3. ASSUME NEW t \in valid_completed
      PROVE  /\ \E d \in done : IsOf(t, d)
             /\ \E i \in DOMAIN evidence : evidence[i].signal = t.lot.signal /\ evidence[i].complete
  <2>1. PICK i \in DOMAIN evidence : evidence[i].signal = t.lot.signal /\ evidence[i].complete
    BY <1>3 DEF valid_completed, is_valid_learning_sample, Stored
  <2>2. t.lot.signal # NoSignal
    <3>2. PICK T : T = [signal : Signal, complete : BOOLEAN] /\ evidence \in Seq(T)
      BY DEF ReportInv, ReportTyped
    <3>4. i \in DOMAIN evidence
      BY <2>1
    <3>5. \A q \in Seq(T) : \A j \in DOMAIN q : q[j] \in T
      OBVIOUS
    <3>3. evidence[i] \in T
      BY <3>2, <3>4, <3>5
    <3>1. evidence[i].signal \in Signal
      BY <3>2, <3>3
    <3> QED BY <2>1, <3>1, ReportAssumption
  <2>3. t \in exploration_status.trades
    BY <1>3 DEF valid_completed
  <2> QED BY <1>2, <2>1, <2>2, <2>3 DEF TripsMatch, Phantom
<1> QED BY <1>2, <1>3 DEF TripsMatch, Phantom, TradesAreRoundTrips, RoundTripsAreReported

-----------------------------------------------------------------------------
(* The history tab: lists of rows, joined a page at a time.                *)

RowType == [dataset : _DATASETS, row : Nat \ {0}]

\* What a list is: existing rows, in runs without a hole, and a cursor at the last of them.
Listed(h) ==
  /\ h.rows \in Seq(RowType) /\ h.next_after \in Int
  /\ \A i \in DOMAIN h.rows : h.rows[i].row <= newest[h.rows[i].dataset]
  /\ h.next_after # 0 =>
       /\ h.rows # <<>>
       /\ h.next_after = timestamp_ms(h.rows[Len(h.rows)].dataset, h.rows[Len(h.rows)].row)
  /\ \A d \in CandleSets :
       (\A i \in DOMAIN h.rows : h.rows[i].dataset = d) =>
         \A i \in 1..(Len(h.rows) - 1) : h.rows[i].row = h.rows[i + 1].row + 1

HistoryInv ==
  /\ newest \in [_DATASETS -> Nat] /\ dataset \in _DATASETS
  /\ Listed(history) /\ Listed(asked.base)
  /\ asked.stage = "sent" =>
       /\ asked.dataset \in _DATASETS /\ asked.after = asked.base.next_after
       /\ asked.after = 0 => asked.base.rows = <<>>

LEMMA StampTyped ==
  ASSUME NEW d \in _DATASETS, NEW n \in Nat
  PROVE  Cursor(d, n) \in Int /\ timestamp_ms(d, n) \in Int
BY HistoryAssumption DEF Cursor, timestamp_ms

\* The rows below the cursor are an initial part of the data set.
LEMMA LastBelow ==
  ASSUME NEW d \in _DATASETS, NEW top \in Nat, NEW after \in Int
  PROVE  \E n \in 0..top :
           /\ \A k \in 1..n : after = 0 \/ Cursor(d, k) < after
           /\ n = top \/ (after # 0 /\ Cursor(d, n + 1) >= after)
<1>1. CASE after = 0
  BY <1>1
<1>2. CASE after # 0
  <2> DEFINE T == {n \in 0..top : n = top \/ Cursor(d, n + 1) >= after}
  <2>1. top \in T /\ T \in SUBSET Nat
    OBVIOUS
  <2>2. PICK n \in T : \A k \in T : n <= k
    <3> HIDE DEF T
    <3> QED BY <2>1, LeastNumber
  <2>3. ASSUME NEW k \in 1..n PROVE Cursor(d, k) < after
    <3>1. k - 1 \in 0..top /\ k - 1 \notin T /\ k - 1 # top /\ k \in Nat /\ (k - 1) + 1 = k
      <4>1. n \in 0..top /\ T \in SUBSET Nat
        OBVIOUS
      <4> HIDE DEF T
      <4> QED BY <2>2, <4>1
    <3>2. ~(Cursor(d, k) >= after)
      BY <3>1
    <3> QED BY <3>1, <3>2, StampTyped
  <2> QED BY <1>2, <2>2, <2>3
<1> QED BY <1>1, <1>2

\* A page is a run of rows, the newest first, from the first one below the cursor.
LEMMA PageIs ==
  ASSUME newest \in [_DATASETS -> Nat], NEW d \in _DATASETS, NEW after \in Int
  PROVE  \E last \in 0..newest[d], size \in Nat :
           /\ Answer(d, after) = [i \in 1..size |-> [dataset |-> d, row |-> last + 1 - i]]
           /\ size <= last
           /\ \A k \in 1..last : after = 0 \/ Cursor(d, k) < after
           /\ last = newest[d] \/ (after # 0 /\ Cursor(d, last + 1) >= after)
<1> DEFINE P(n) == /\ \A k \in 1..n : after = 0 \/ Cursor(d, k) < after
                   /\ n = newest[d] \/ (after # 0 /\ Cursor(d, n + 1) >= after)
           last == CHOOSE n \in 0..newest[d] : P(n)
           size == IF last < HistoryPage THEN last ELSE HistoryPage
<1>1. newest[d] \in Nat
  OBVIOUS
<1>2. \E n \in 0..newest[d] : P(n)
  BY <1>1, LastBelow
<1>3. last \in 0..newest[d] /\ P(last)
  <2> HIDE DEF P
  <2> QED BY <1>2
<1>4. size \in Nat /\ size <= last
  <2> HIDE DEF last
  <2> QED BY <1>1, <1>3, HistoryAssumption
<1>5. Answer(d, after) = [i \in 1..size |-> [dataset |-> d, row |-> last + 1 - i]]
  BY DEF Answer
<1> HIDE DEF size, last
<1> QED BY <1>3, <1>4, <1>5

LEMMA RowFacts ==
  ASSUME NEW rows \in Seq(RowType), NEW i \in DOMAIN rows
  PROVE  rows[i].dataset \in _DATASETS /\ rows[i].row \in Nat /\ rows[i].row # 0
<1>1. rows[i] \in RowType
  OBVIOUS
<1> QED BY <1>1 DEF RowType

LEMMA Joined ==
  ASSUME NEW S, NEW s \in Seq(S), NEW t \in Seq(S), NEW m, m = Len(s), NEW n, n = Len(t)
  PROVE  /\ m \in Nat /\ n \in Nat /\ DOMAIN s = 1..m /\ DOMAIN t = 1..n
         /\ s \o t \in Seq(S) /\ Len(s \o t) = m + n /\ DOMAIN (s \o t) = 1..(m + n)
         /\ \A i \in 1..m : (s \o t)[i] = s[i]
         /\ \A i \in 1..n : (s \o t)[m + i] = t[i]
OBVIOUS

LEMMA NothingListed == Listed(NoHistory)
BY DEF Listed, NoHistory

LEMMA HistoryStart == HistoryInit => HistoryInv
<1> SUFFICES ASSUME HistoryInit PROVE HistoryInv
  OBVIOUS
<1>1. newest \in [_DATASETS -> Nat] /\ dataset \in _DATASETS /\ history = NoHistory
      /\ asked = NotAsked
  BY HistoryAssumption DEF HistoryInit
<1>2. asked.stage # "sent" /\ asked.base = NoHistory
  BY <1>1 DEF NotAsked
<1> QED BY <1>1, <1>2, NothingListed DEF HistoryInv

\* A page joined to the list that its cursor is of.
LEMMA JoinedListed ==
  ASSUME newest \in [_DATASETS -> Nat], NEW h, Listed(h), NEW d \in _DATASETS,
         h.next_after = 0 => h.rows = <<>>, NEW g,
         g.rows = h.rows \o Answer(d, h.next_after),
         g.next_after = history_cursor(Answer(d, h.next_after))
  PROVE  Listed(g)
<1>1. PICK rows, page, both, after, m, n :
        /\ rows = h.rows /\ after = h.next_after /\ page = Answer(d, after)
        /\ both = rows \o page /\ m = Len(rows) /\ n = Len(page)
  OBVIOUS
<1>2. /\ rows \in Seq(RowType) /\ after \in Int
      /\ after = 0 => rows = <<>>
      /\ after # 0 => rows # <<>> /\ after = timestamp_ms(rows[m].dataset, rows[m].row)
      /\ \A i \in DOMAIN rows : rows[i].row <= newest[rows[i].dataset]
      /\ \A c \in CandleSets :
           (\A i \in DOMAIN rows : rows[i].dataset = c) =>
             \A i \in 1..(m - 1) : rows[i].row = rows[i + 1].row + 1
      /\ g.rows = both /\ g.next_after = history_cursor(page)
  BY <1>1 DEF Listed
<1>3. PICK last \in 0..newest[d], size \in Nat :
        /\ page = [i \in 1..size |-> [dataset |-> d, row |-> last + 1 - i]]
        /\ size <= last
        /\ \A k \in 1..last : after = 0 \/ Cursor(d, k) < after
        /\ last = newest[d] \/ (after # 0 /\ Cursor(d, last + 1) >= after)
  <2>1. after \in Int /\ page = Answer(d, after)
    BY <1>1, <1>2
  <2>2. \E last \in 0..newest[d], size \in Nat :
          /\ Answer(d, after) = [i \in 1..size |-> [dataset |-> d, row |-> last + 1 - i]]
          /\ size <= last
          /\ \A k \in 1..last : after = 0 \/ Cursor(d, k) < after
          /\ last = newest[d] \/ (after # 0 /\ Cursor(d, last + 1) >= after)
    BY <2>1, PageIs
  <2> QED BY <2>1, <2>2, Zenon
<1>4. newest[d] \in Nat
  OBVIOUS
<1>5. last \in Nat /\ last <= newest[d]
  BY <1>3, <1>4
<1>6. ASSUME NEW i \in 1..size
      PROVE  /\ page[i].dataset = d /\ page[i].row = last + 1 - i /\ page[i] \in RowType
             /\ page[i].row <= newest[d]
  <2>1. page[i] = [dataset |-> d, row |-> last + 1 - i]
    BY <1>3
  <2>2. last + 1 - i \in Nat \ {0} /\ last + 1 - i <= newest[d]
    BY <1>3, <1>4, <1>5
  <2> QED BY <2>1, <2>2 DEF RowType
<1>7. page \in Seq(RowType) /\ n = size
  <2>1. page \in [1..size -> RowType] /\ size \in Nat
    <3>1. DOMAIN page = 1..size /\ page = [i \in 1..size |-> page[i]]
      BY <1>3, Zenon
    <3> QED BY <1>6, <3>1
  <2>2. page \in Seq(RowType) /\ Len(page) = size
    BY <2>1
  <2> QED BY <1>1, <2>2
<1>8. /\ m \in Nat /\ n \in Nat /\ DOMAIN rows = 1..m /\ DOMAIN page = 1..n
      /\ both \in Seq(RowType) /\ Len(both) = m + n /\ DOMAIN both = 1..(m + n)
      /\ \A i \in 1..m : both[i] = rows[i]
      /\ \A i \in 1..n : both[m + i] = page[i]
  <2>1. rows \in Seq(RowType) /\ page \in Seq(RowType) /\ m = Len(rows) /\ n = Len(page)
        /\ both = rows \o page
    BY <1>1, <1>2, <1>7
  <2> QED BY <2>1, Joined
<1>9. ASSUME NEW i \in DOMAIN both PROVE both[i].row <= newest[both[i].dataset]
  <2>1. i \in 1..m \/ (i - m \in 1..n /\ m + (i - m) = i)
    BY <1>8
  <2>2. CASE i \in 1..m
    BY <1>2, <1>8, <2>2
  <2>3. CASE i - m \in 1..n /\ m + (i - m) = i
    <3>1. both[i] = page[i - m]
      BY <1>8, <2>3
    <3> QED BY <1>6, <1>7, <2>3, <3>1
  <2> QED BY <2>1, <2>2, <2>3
<1>10. g.next_after = IF page = <<>> THEN 0 ELSE timestamp_ms(page[n].dataset, page[n].row)
  BY <1>1, <1>2 DEF history_cursor
<1>11. g.next_after \in Int
       /\ (g.next_after # 0 =>
             both # <<>> /\ g.next_after = timestamp_ms(both[m + n].dataset, both[m + n].row))
  <2>1. CASE n = 0
    <3>1. page = <<>>
      BY <1>7, <1>8, <2>1
    <3> QED BY <1>10, <3>1
  <2>2. CASE n # 0
    <3>1. n \in 1..n /\ page # <<>>
      BY <1>1, <1>8, <2>2
    <3>2. both[m + n] = page[n] /\ both # <<>>
      BY <1>8, <3>1
    <3>3. page[n].dataset = d /\ page[n].row \in Nat
      BY <1>6, <1>7, <3>1 DEF RowType
    <3> QED BY <1>10, <3>1, <3>2, <3>3, StampTyped
  <2> QED BY <2>1, <2>2
<1>12. ASSUME NEW c \in CandleSets, \A i \in DOMAIN both : both[i].dataset = c,
              NEW i \in 1..(Len(both) - 1)
       PROVE  both[i].row = both[i + 1].row + 1
  <2>1. i \in 1..(m + n) /\ i + 1 \in 1..(m + n)
    BY <1>8
  <2>2. \A j \in 1..m : rows[j].dataset = c
    <3>1. \A j \in 1..m : j \in 1..(m + n)
      BY <1>8
    <3> QED BY <1>8, <1>12, <3>1
  <2>3. CASE i + 1 <= m
    <3>1. i \in 1..(m - 1) /\ i \in 1..m /\ i + 1 \in 1..m
      BY <1>8, <2>1, <2>3
    <3>2. rows[i].row = rows[i + 1].row + 1
      BY <1>2, <1>8, <2>2, <3>1
    <3> QED BY <1>8, <3>1, <3>2
  <2>4. CASE i = m
    <3>1. m \in 1..m /\ 1 \in 1..n
      BY <1>8, <2>1, <2>4
    <3>2. both[i] = rows[m] /\ both[i + 1] = page[1]
      BY <1>8, <2>4, <3>1
    <3>3. page[1].dataset = d /\ page[1].row = last + 1 - 1
      BY <1>6, <1>7, <3>1
    <3>4. d = c /\ rows[m].dataset = c
      BY <1>8, <1>12, <2>1, <2>2, <3>1, <3>2, <3>3
    <3>5. rows # <<>>
      BY <1>8, <3>1
    <3>6. after # 0 /\ after = timestamp_ms(c, rows[m].row)
      BY <1>2, <3>4, <3>5
    <3>7. PICK r : r = rows[m].row
      OBVIOUS
    <3>8. r \in Nat /\ r # 0 /\ r <= newest[d]
      BY <1>2, <1>8, <3>1, <3>4, <3>7, RowFacts
    <3>9. c \notin TradeSets /\ MaxHistory \in Nat
      BY HistoryAssumption
    <3>10. after = MaxHistory + r /\ \A k \in Nat : Cursor(d, k) = MaxHistory + k
      BY <3>4, <3>6, <3>7, <3>9 DEF timestamp_ms, Cursor
    <3>11. last \in 1..last
      BY <1>3, <1>5, <1>7, <3>1
    <3>12. Cursor(d, last) < after
      BY <1>3, <3>6, <3>11
    <3>13. MaxHistory + last < MaxHistory + r
      BY <1>5, <3>10, <3>12
    <3>14. last < r
      BY <1>5, <3>8, <3>9, <3>13
    <3>15. last # newest[d]
      BY <1>4, <1>5, <3>8, <3>14
    <3>16. MaxHistory + (last + 1) >= MaxHistory + r
      BY <1>3, <1>5, <3>10, <3>15
    <3>17. r = last + 1
      BY <1>5, <3>8, <3>9, <3>14, <3>16
    <3> QED BY <1>5, <3>2, <3>3, <3>7, <3>17
  <2>5. CASE i > m
    <3>1. PICK k \in 1..n : i = m + k /\ k + 1 \in 1..n /\ i + 1 = m + (k + 1)
      <4>1. i - m \in 1..n /\ i = m + (i - m) /\ (i - m) + 1 \in 1..n
            /\ i + 1 = m + ((i - m) + 1)
        BY <1>8, <2>1, <2>5
      <4> QED BY <4>1
    <3>2. both[i] = page[k] /\ both[i + 1] = page[k + 1]
      BY <1>8, <3>1
    <3>3. page[k].row = last + 1 - k /\ page[k + 1].row = last + 1 - (k + 1)
      BY <1>6, <1>7, <3>1
    <3> QED BY <1>5, <3>1, <3>2, <3>3
  <2> QED BY <1>8, <2>1, <2>3, <2>4, <2>5
<1> QED BY <1>2, <1>8, <1>9, <1>11, <1>12 DEF Listed

LEMMA HistoryKept == ASSUME HistoryInv, UNCHANGED historyVars PROVE HistoryInv'
BY DEF HistoryInv, historyVars, Listed, timestamp_ms

LEMMA HistoryStep ==
  ASSUME HistoryInv, HistoryNext
  PROVE  HistoryInv'
<1>1. newest \in [_DATASETS -> Nat] /\ dataset \in _DATASETS
      /\ Listed(history) /\ Listed(asked.base) /\ Listed(NoHistory)
  BY NothingListed DEF HistoryInv
<1>2. CASE NewRow
  <2>1. PICK d \in _DATASETS : newest' = [newest EXCEPT ![d] = newest[d] + 1]
    BY <1>2 DEF NewRow
  <2>2. newest' \in [_DATASETS -> Nat] /\ \A c \in _DATASETS : newest[c] <= newest'[c]
    BY <1>1, <2>1
  <2>3. UNCHANGED <<dataset, history, asked>>
    BY <1>2 DEF NewRow
  <2>4. ASSUME NEW rows \in Seq(RowType), NEW i \in DOMAIN rows,
               rows[i].row <= newest[rows[i].dataset]
        PROVE  rows[i].row <= newest'[rows[i].dataset]
    <3>1. PICK r, c : r = rows[i].row /\ c = rows[i].dataset
      OBVIOUS
    <3>2. r \in Nat /\ c \in _DATASETS /\ r <= newest[c]
      BY <2>4, <3>1, RowFacts
    <3>3. newest[c] \in Nat /\ newest'[c] \in Nat /\ newest[c] <= newest'[c]
      BY <1>1, <2>2, <3>2
    <3>4. r <= newest'[c]
      BY <3>2, <3>3
    <3> QED BY <3>1, <3>4
  <2>5. Listed(history)' /\ Listed(asked.base)'
    BY <1>1, <2>3, <2>4 DEF Listed, timestamp_ms
  <2> QED BY <1>1, <2>2, <2>3, <2>5 DEF HistoryInv
<1>3. CASE newest' = newest /\ HistoryNext
  <2>1. ASSUME NEW h, Listed(h), history' = h \/ asked.base' = h
        PROVE  (history' = h => Listed(history)') /\ (asked.base' = h => Listed(asked.base)')
    BY <1>3, <2>1 DEF Listed, timestamp_ms
  <2>2. CASE Choose
    <3>1. dataset' \in _DATASETS /\ history' = NoHistory /\ asked' = asked
      BY <2>2 DEF Choose
    <3> QED BY <1>1, <1>3, <2>1, <3>1 DEF HistoryInv
  <2>3. ASSUME NEW after, NEW base, Ask(after, base), Listed(base), after = base.next_after,
               after = 0 => base.rows = <<>>
        PROVE  HistoryInv'
    <3>1. /\ UNCHANGED <<dataset, history>>
          /\ asked'.dataset = dataset /\ asked'.after = after /\ asked'.base = base
      BY <2>3 DEF Ask
    <3> QED BY <1>1, <1>3, <2>1, <2>3, <3>1 DEF HistoryInv
  <2>4. CASE Load
    <3>1. NoHistory.next_after = 0 /\ NoHistory.rows = <<>>
      BY DEF NoHistory
    <3> QED BY <1>1, <2>3, <2>4, <3>1 DEF Load
  <2>5. CASE LoadEarlier
    BY <1>1, <2>3, <2>5 DEF LoadEarlier
  <2>6. ASSUME NEW h, Listed(h), history' = h, asked' = NotAsked, dataset' = dataset
        PROVE  HistoryInv'
    <3>1. asked'.base = NoHistory /\ asked'.stage # "sent"
      BY <2>6 DEF NotAsked
    <3> QED BY <1>1, <1>3, <2>1, <2>6, <3>1 DEF HistoryInv
  <2>7. CASE Loaded
    <3>1. PICK h : /\ h.rows = asked.base.rows \o Answer(asked.dataset, asked.after)
                   /\ h.next_after = history_cursor(Answer(asked.dataset, asked.after))
                   /\ history' = h
      BY <2>7 DEF Loaded, market_history
    <3>2. asked.stage = "sent" /\ asked' = NotAsked /\ dataset' = dataset
      BY <2>7 DEF Loaded
    <3>3. asked.dataset \in _DATASETS /\ asked.after = asked.base.next_after
          /\ (asked.base.next_after = 0 => asked.base.rows = <<>>)
      BY <3>2 DEF HistoryInv
    <3>4. Listed(h)
      BY <1>1, <3>1, <3>3, JoinedListed
    <3> QED BY <2>6, <3>1, <3>2, <3>4
  <2>8. CASE Diagnosed
    <3>1. PICK h : /\ h.rows = asked.base.rows /\ h.next_after = 0 /\ history' = h
      BY <2>8 DEF Diagnosed
    <3>2. Listed(h)
      BY <1>1, <3>1 DEF Listed
    <3>3. asked' = NotAsked /\ dataset' = dataset
      BY <2>8 DEF Diagnosed
    <3> QED BY <2>6, <3>1, <3>2, <3>3
  <2>9. CASE NotReady
    BY <1>1, <2>6, <2>9 DEF NotReady
  <2>10. CASE NewRow
    BY <1>2, <2>10
  <2> QED BY <1>3, <2>2, <2>4, <2>5, <2>7, <2>8, <2>9, <2>10 DEF HistoryNext
<1>4. NewRow \/ (newest' = newest /\ HistoryNext)
  BY DEF HistoryNext, Choose, Load, LoadEarlier, Ask, Loaded, Diagnosed, NotReady
<1> QED BY <1>2, <1>3, <1>4

LEMMA PagesJoin == HistoryInv => PagesMeet
BY DEF HistoryInv, Listed, PagesMeet, Shown

-----------------------------------------------------------------------------
(* The shadow campaign: what is counted has been observed, and what is     *)
(* complete has lasted.                                                    *)

CampaignFields ==
  [status : {"NOT_STARTED", "RUNNING", "PAUSED", "DEGRADED", "COMPLETED"},
   start_time : Int, last_observation_time : Int, valid_observation_days : Nat]

CampaignInv ==
  /\ campaign \in CampaignFields /\ now \in Nat
  /\ observed \in SUBSET (0..CampaignTicks) /\ _observations \in SUBSET observed
  /\ campaign.start_time \in Never..now
  /\ campaign.valid_observation_days <= Cardinality(Days(observed))
  /\ CompletionIsEarned

LEMMA DaysFinite ==
  ASSUME NEW s \in SUBSET (0..CampaignTicks), NEW r \in SUBSET s
  PROVE  /\ Cardinality(Days(s)) \in Nat /\ Cardinality(Days(r)) \in Nat
         /\ Cardinality(Days(r)) <= Cardinality(Days(s))
<1>1. IsFiniteSet(0..CampaignTicks)
  <2>1. 0 \in Int /\ CampaignTicks \in Int
    BY CampaignAssumption
  <2> QED BY <2>1, FS_Interval
<1>2. IsFiniteSet(s)
  BY <1>1, FS_Subset
<1>3. IsFiniteSet(Days(s))
  <2> DEFINE f == [t \in s |-> Day(t)]
  <2>1. f \in Surjection(s, Days(s))
    BY DEF Surjection, Days
  <2> QED BY <1>2, <2>1, FS_Surjection
<1>4. Days(r) \subseteq Days(s)
  BY DEF Days
<1> QED BY <1>3, <1>4, FS_Subset, FS_CardinalityType

LEMMA WholeDays ==
  ASSUME NEW x \in Nat, NEW days \in Nat, NEW T \in Nat \ {0}, x \div T >= days
  PROVE  x >= days * T
<1>1. PICK q, r : q = x \div T /\ r = x % T
  OBVIOUS
<1>2. q \in Nat /\ r \in Nat /\ x = T * q + r /\ q >= days
  BY <1>1
<1>3. PICK k \in Nat : q = days + k
  <2>1. q - days \in Nat /\ q = days + (q - days)
    BY <1>2
  <2> QED BY <2>1
<1>4. T * q = T * days + T * k /\ T * k >= 0 /\ T * days = days * T
  BY <1>3
<1>5. T * days \in Nat /\ T * k \in Nat /\ T * q \in Nat
  BY <1>2
<1> QED BY <1>2, <1>4, <1>5

LEMMA CampaignStart == CampaignInit => CampaignInv
<1> SUFFICES ASSUME CampaignInit PROVE CampaignInv
  OBVIOUS
<1>1. Cardinality(Days(observed)) \in Nat
  BY DaysFinite DEF CampaignInit
<1>2. campaign \in CampaignFields /\ campaign.status = "NOT_STARTED"
      /\ campaign.valid_observation_days = 0 /\ campaign.start_time = Never
  BY DEF CampaignInit, CampaignFields, Never
<1>3. now = 0 /\ observed = {} /\ _observations = {}
  BY DEF CampaignInit
<1> QED BY <1>1, <1>2, <1>3 DEF CampaignInv, CompletionIsEarned, Never

LEMMA CampaignKept == ASSUME CampaignInv, UNCHANGED campaignVars PROVE CampaignInv'
BY DEF CampaignInv, campaignVars, CompletionIsEarned

\* A change of the status to another than COMPLETED, and of nothing that counts.
LEMMA NotComplete ==
  ASSUME CampaignInv, campaign' \in CampaignFields, campaign'.status # "COMPLETED",
         campaign'.valid_observation_days = campaign.valid_observation_days,
         campaign'.start_time = campaign.start_time \/ campaign'.start_time = now,
         UNCHANGED <<now, observed, _observations>>
  PROVE  CampaignInv'
BY DEF CampaignInv, CompletionIsEarned, Never

LEMMA CampaignStep ==
  ASSUME CampaignInv, CampaignNext
  PROVE  CampaignInv'
<1>1. /\ campaign \in CampaignFields /\ now \in Nat
      /\ observed \in SUBSET (0..CampaignTicks) /\ _observations \in SUBSET observed
      /\ campaign.start_time \in Int /\ campaign.start_time <= now /\ Never <= campaign.start_time
      /\ campaign.valid_observation_days \in Nat
      /\ campaign.valid_observation_days <= Cardinality(Days(observed))
      /\ CompletionIsEarned
  BY DEF CampaignInv, CampaignFields, Never
<1>2. Cardinality(Days(observed)) \in Nat
  BY <1>1, DaysFinite
<1>3. CASE start
  <2>1. /\ campaign' \in CampaignFields /\ campaign'.status = "RUNNING"
        /\ campaign'.valid_observation_days = campaign.valid_observation_days
        /\ campaign'.start_time = campaign.start_time \/ campaign'.start_time = now
        /\ UNCHANGED <<now, observed, _observations>>
    <3>1. PICK t : t = IF campaign.status = "NOT_STARTED" THEN now ELSE campaign.start_time
      OBVIOUS
    <3>2. campaign' = [campaign EXCEPT !.start_time = t, !.status = "RUNNING"]
          /\ UNCHANGED <<now, observed, _observations>>
      BY <1>3, <3>1 DEF start
    <3>3. t \in Int /\ (t = now \/ t = campaign.start_time)
      BY <1>1, <3>1
    <3> QED BY <1>1, <3>2, <3>3 DEF CampaignFields
  <2> QED BY <2>1, NotComplete
<1>4. CASE pause \/ resume
  <2>1. /\ campaign' \in CampaignFields /\ campaign'.status \in {"PAUSED", "RUNNING"}
        /\ campaign'.valid_observation_days = campaign.valid_observation_days
        /\ campaign'.start_time = campaign.start_time
        /\ UNCHANGED <<now, observed, _observations>>
    BY <1>1, <1>4 DEF pause, resume, CampaignFields
  <2> QED BY <2>1, NotComplete
<1>5. CASE maybe_complete
  <2>1. /\ campaign' \in CampaignFields /\ UNCHANGED <<now, observed, _observations>>
        /\ campaign'.valid_observation_days = campaign.valid_observation_days
        /\ campaign'.start_time = campaign.start_time
        /\ campaign'.status = IF campaign.valid_observation_days >= MinValidDays
                              THEN "COMPLETED" ELSE "DEGRADED"
        /\ elapsed_real_calendar_days >= MinElapsed
    BY <1>1, <1>5 DEF maybe_complete, CampaignFields
  <2>2. CASE campaign.valid_observation_days >= MinValidDays
    <3>1. Cardinality(Days(observed)) >= MinValidDays
      BY <1>1, <1>2, <2>2, CampaignAssumption
    <3>2. PICK t \in Nat : t = now - campaign.start_time
      <4>1. now - campaign.start_time \in Nat
        BY <1>1
      <4> QED BY <4>1
    <3>3. t >= MinElapsed * TicksPerDay
      <4>1. CASE campaign.start_time = Never
        BY <2>1, <3>2, <4>1, CampaignAssumption DEF elapsed_real_calendar_days
      <4>2. CASE campaign.start_time # Never
        <5>1. t \div TicksPerDay >= MinElapsed
          BY <2>1, <3>2, <4>2 DEF elapsed_real_calendar_days
        <5> QED BY <3>2, <5>1, WholeDays, CampaignAssumption
      <4> QED BY <4>1, <4>2
    <3>4. CompletionIsEarned'
      BY <2>1, <3>1, <3>2, <3>3 DEF CompletionIsEarned
    <3> QED BY <1>1, <2>1, <3>4 DEF CampaignInv
  <2>3. CASE ~(campaign.valid_observation_days >= MinValidDays)
    BY <2>1, <2>3, NotComplete
  <2> QED BY <2>2, <2>3
<1>6. CASE from_dict \/ (\E id \in DecisionIds : record_decision(id))
  <2>1. UNCHANGED <<campaign, now, observed>> /\ _observations' \in SUBSET observed
    BY <1>1, <1>6 DEF from_dict, record_decision
  <2> QED BY <1>1, <2>1 DEF CampaignInv, CompletionIsEarned
<1>7. CASE CampaignTick
  <2>1. UNCHANGED <<campaign, _observations, observed>> /\ now' = now + 1
    BY <1>7 DEF CampaignTick
  <2>2. MinElapsed * TicksPerDay \in Nat
    BY CampaignAssumption
  <2>3. CompletionIsEarned'
    BY <1>1, <2>1, <2>2 DEF CompletionIsEarned
  <2>4. now' \in Nat /\ campaign.start_time \in Never..now'
    BY <1>1, <2>1 DEF Never
  <2> QED BY <1>1, <2>1, <2>3, <2>4 DEF CampaignInv
<1>8. ASSUME NEW t \in 0..CampaignTicks, NEW valid \in BOOLEAN, record_observation(t, valid)
      PROVE  CampaignInv'
  <2>1. PICK times : times = IF valid THEN _observations \cup {t} ELSE _observations
    OBVIOUS
  <2>2. /\ _observations' = times /\ now' = now
        /\ observed' = IF valid THEN observed \cup {t} ELSE observed
        /\ campaign' = [campaign EXCEPT
             !.last_observation_time = t,
             !.valid_observation_days = IF valid THEN Cardinality(Days(times))
                                        ELSE campaign.valid_observation_days]
    BY <1>8, <2>1 DEF record_observation, valid_observation_days, valid_days
  <2>3. observed' \in SUBSET (0..CampaignTicks) /\ times \in SUBSET observed'
        /\ observed \in SUBSET observed'
    BY <1>1, <2>1, <2>2
  <2>4. /\ Cardinality(Days(times)) \in Nat /\ Cardinality(Days(observed')) \in Nat
        /\ Cardinality(Days(times)) <= Cardinality(Days(observed'))
        /\ Cardinality(Days(observed)) <= Cardinality(Days(observed'))
    BY <2>3, DaysFinite
  <2>5. /\ campaign' \in CampaignFields /\ campaign'.status = campaign.status
        /\ campaign'.start_time = campaign.start_time
        /\ campaign'.valid_observation_days = IF valid THEN Cardinality(Days(times))
                                              ELSE campaign.valid_observation_days
    <3>1. t \in Int
      OBVIOUS
    <3> QED BY <1>1, <2>2, <2>4, <3>1 DEF CampaignFields
  <2>6. campaign'.valid_observation_days <= Cardinality(Days(observed'))
    BY <1>1, <1>2, <2>4, <2>5
  <2>7. CompletionIsEarned'
    BY <1>1, <1>2, <2>2, <2>4, <2>5, CampaignAssumption DEF CompletionIsEarned
  <2>8. Days(observed)' = Days(observed')
    BY DEF Days
  <2> QED BY <1>1, <2>2, <2>3, <2>5, <2>6, <2>7, <2>8 DEF CampaignInv
<1> QED BY <1>3, <1>4, <1>5, <1>6, <1>7, <1>8 DEF CampaignNext

-----------------------------------------------------------------------------
(* The factors: what each group computes, and what is reported of it.      *)

LEMMA BagsJoin ==
  ASSUME NEW S, NEW T, S \cap T = {}
  PROVE  SetToBag(S) (+) SetToBag(T) = SetToBag(S \cup T)
<1>1. DOMAIN SetToBag(S) = S /\ DOMAIN SetToBag(T) = T
  BY DEF SetToBag
<1>2. \A e \in S \cup T :
        (IF e \in S THEN SetToBag(S)[e] ELSE 0) + (IF e \in T THEN SetToBag(T)[e] ELSE 0) = 1
  BY DEF SetToBag
<1>3. SetToBag(S) (+) SetToBag(T)
        = [e \in S \cup T |-> (IF e \in S THEN SetToBag(S)[e] ELSE 0)
                              + (IF e \in T THEN SetToBag(T)[e] ELSE 0)]
  BY <1>1 DEF (+)
<1> QED BY <1>2, <1>3 DEF SetToBag

LEMMA ComputedNamed == ASSUME NEW in, NEW g PROVE Computed(in, g) \subseteq Names(g)
BY DEF Computed, Names

LEMMA FactorsOnce == EveryFactorOnce
<1> SUFFICES ASSUME length > 0
             PROVE  failed_factors(item) = [n \in EXPECTED_FACTOR_IDS \ factors(item) |-> 1]
  BY DEF EveryFactorOnce
<1> DEFINE X == {n \in capture(item) : ~usable(item, n)}
           Y == EXPECTED_FACTOR_IDS \ (capture(item) \cup errors(item))
           Z == errors(item) \ capture(item)
<1>1. capture(item) \subseteq EXPECTED_FACTOR_IDS
  BY ComputedNamed DEF capture, EXPECTED_FACTOR_IDS
<1>2. errors(item) \subseteq EXPECTED_FACTOR_IDS
  BY DEF errors, EXPECTED_FACTOR_IDS
<1>3. X \cap Y = {} /\ (X \cup Y) \cap Z = {}
  OBVIOUS
<1>4. (X \cup Y) \cup Z = EXPECTED_FACTOR_IDS \ factors(item)
  BY <1>1, <1>2 DEF factors
<1>5. length # 0
  OBVIOUS
<1>6. failed_factors(item) = SetToBag(X) (+) SetToBag(Y) (+) SetToBag(Z)
  BY <1>5 DEF failed_factors
<1> HIDE DEF X, Y, Z
<1>7. failed_factors(item) = SetToBag((X \cup Y) \cup Z)
  BY <1>3, <1>6, BagsJoin
<1> QED BY <1>4, <1>7 DEF SetToBag

LEMMA GroupNames ==
  /\ Group = {"price", "volume", "volatility", "orderflow", "derivatives"}
  /\ Names("price") = {"return", "momentum", "trend", "breakout", "mean_reversion"}
  /\ Names("volume") = {"volume_change", "volume_anomaly", "volume_divergence"}
  /\ Names("volatility") = {"atr", "realized_volatility", "volatility_regime"}
  /\ Names("orderflow") = {"orderbook_imbalance", "buy_sell_imbalance", "cvd",
                           "aggressive_trading_ratio"}
  /\ Names("derivatives") = {"funding_rate", "funding_change", "open_interest", "oi_divergence",
                             "liquidation_pressure"}
<1>1. Group = {"price", "volume", "volatility", "orderflow", "derivatives"}
  BY DEF Group, FACTOR_GROUPS
<1>2. Names("price") = {"return", "momentum", "trend", "breakout", "mean_reversion"}
  <2>1. DOMAIN FACTOR_GROUPS.price = 1..5
    BY DEF FACTOR_GROUPS
  <2>2. /\ FACTOR_GROUPS.price[1].name = "return" /\ FACTOR_GROUPS.price[2].name = "momentum"
        /\ FACTOR_GROUPS.price[3].name = "trend" /\ FACTOR_GROUPS.price[4].name = "breakout"
        /\ FACTOR_GROUPS.price[5].name = "mean_reversion"
    BY DEF FACTOR_GROUPS, F
  <2>3. 1..5 = {1, 2, 3, 4, 5}
    OBVIOUS
  <2>4. Names("price") = {FACTOR_GROUPS.price[i].name : i \in {1, 2, 3, 4, 5}}
    BY <2>1, <2>3, Zenon DEF Names
  <2> QED BY <2>2, <2>4
<1>3. Names("volume") = {"volume_change", "volume_anomaly", "volume_divergence"}
  <2>1. DOMAIN FACTOR_GROUPS.volume = 1..3
    BY DEF FACTOR_GROUPS
  <2>2. /\ FACTOR_GROUPS.volume[1].name = "volume_change"
        /\ FACTOR_GROUPS.volume[2].name = "volume_anomaly"
        /\ FACTOR_GROUPS.volume[3].name = "volume_divergence"
    BY DEF FACTOR_GROUPS, F
  <2>3. 1..3 = {1, 2, 3}
    OBVIOUS
  <2>4. Names("volume") = {FACTOR_GROUPS.volume[i].name : i \in {1, 2, 3}}
    BY <2>1, <2>3, Zenon DEF Names
  <2> QED BY <2>2, <2>4
<1>4. Names("volatility") = {"atr", "realized_volatility", "volatility_regime"}
  <2>1. DOMAIN FACTOR_GROUPS.volatility = 1..3
    BY DEF FACTOR_GROUPS
  <2>2. /\ FACTOR_GROUPS.volatility[1].name = "atr"
        /\ FACTOR_GROUPS.volatility[2].name = "realized_volatility"
        /\ FACTOR_GROUPS.volatility[3].name = "volatility_regime"
    BY DEF FACTOR_GROUPS, F
  <2>3. 1..3 = {1, 2, 3}
    OBVIOUS
  <2>4. Names("volatility") = {FACTOR_GROUPS.volatility[i].name : i \in {1, 2, 3}}
    BY <2>1, <2>3, Zenon DEF Names
  <2> QED BY <2>2, <2>4
<1>5. Names("orderflow") = {"orderbook_imbalance", "buy_sell_imbalance", "cvd",
                            "aggressive_trading_ratio"}
  <2>1. DOMAIN FACTOR_GROUPS.orderflow = 1..4
    BY DEF FACTOR_GROUPS
  <2>2. /\ FACTOR_GROUPS.orderflow[1].name = "orderbook_imbalance"
        /\ FACTOR_GROUPS.orderflow[2].name = "buy_sell_imbalance"
        /\ FACTOR_GROUPS.orderflow[3].name = "cvd"
        /\ FACTOR_GROUPS.orderflow[4].name = "aggressive_trading_ratio"
    BY DEF FACTOR_GROUPS, F
  <2>3. 1..4 = {1, 2, 3, 4}
    OBVIOUS
  <2>4. Names("orderflow") = {FACTOR_GROUPS.orderflow[i].name : i \in {1, 2, 3, 4}}
    BY <2>1, <2>3, Zenon DEF Names
  <2> QED BY <2>2, <2>4
<1>6. Names("derivatives") = {"funding_rate", "funding_change", "open_interest", "oi_divergence",
                              "liquidation_pressure"}
  <2>1. DOMAIN FACTOR_GROUPS.derivatives = 1..5
    BY DEF FACTOR_GROUPS
  <2>2. /\ FACTOR_GROUPS.derivatives[1].name = "funding_rate"
        /\ FACTOR_GROUPS.derivatives[2].name = "funding_change"
        /\ FACTOR_GROUPS.derivatives[3].name = "open_interest"
        /\ FACTOR_GROUPS.derivatives[4].name = "oi_divergence"
        /\ FACTOR_GROUPS.derivatives[5].name = "liquidation_pressure"
    BY DEF FACTOR_GROUPS, F
  <2>3. 1..5 = {1, 2, 3, 4, 5}
    OBVIOUS
  <2>4. Names("derivatives") = {FACTOR_GROUPS.derivatives[i].name : i \in {1, 2, 3, 4, 5}}
    BY <2>1, <2>3, Zenon DEF Names
  <2> QED BY <2>2, <2>4
<1> QED BY <1>1, <1>2, <1>3, <1>4, <1>5, <1>6

LEMMA ReadByGroup ==
  /\ "volume" \in FACTOR_GROUPS["volume"][1].reads /\ 1 \in DOMAIN FACTOR_GROUPS["volume"]
  /\ "book" \in FACTOR_GROUPS["orderflow"][1].reads /\ 1 \in DOMAIN FACTOR_GROUPS["orderflow"]
BY DEF FACTOR_GROUPS, F

LEMMA GroupReads ==
  ASSUME NEW g \in Group
  PROVE  /\ \E n \in Nat : DOMAIN FACTOR_GROUPS[g] = 1..n
         /\ \A j \in DOMAIN FACTOR_GROUPS[g] : FACTOR_GROUPS[g][j].reads \subseteq Item
<1>1. CASE g = "price"
  <2>1. DOMAIN FACTOR_GROUPS[g] = 1..5
    BY <1>1 DEF FACTOR_GROUPS
  <2>2. \A j \in 1..5 : FACTOR_GROUPS[g][j].reads \subseteq Item
    BY <1>1 DEF FACTOR_GROUPS, F, Item, Candle
  <2> QED BY <2>1, <2>2
<1>2. CASE g = "volume"
  <2>1. DOMAIN FACTOR_GROUPS[g] = 1..3
    BY <1>2 DEF FACTOR_GROUPS
  <2>2. \A j \in 1..3 : FACTOR_GROUPS[g][j].reads \subseteq Item
    BY <1>2 DEF FACTOR_GROUPS, F, Item, Candle
  <2> QED BY <2>1, <2>2
<1>3. CASE g = "volatility"
  <2>1. DOMAIN FACTOR_GROUPS[g] = 1..3
    BY <1>3 DEF FACTOR_GROUPS
  <2>2. \A j \in 1..3 : FACTOR_GROUPS[g][j].reads \subseteq Item
    BY <1>3 DEF FACTOR_GROUPS, F, Item, Candle
  <2> QED BY <2>1, <2>2
<1>4. CASE g = "orderflow"
  <2>1. DOMAIN FACTOR_GROUPS[g] = 1..4
    BY <1>4 DEF FACTOR_GROUPS
  <2>2. \A j \in 1..4 : FACTOR_GROUPS[g][j].reads \subseteq Item
    BY <1>4 DEF FACTOR_GROUPS, F, Item, Market
  <2> QED BY <2>1, <2>2
<1>5. CASE g = "derivatives"
  <2>1. DOMAIN FACTOR_GROUPS[g] = 1..5
    BY <1>5 DEF FACTOR_GROUPS
  <2>2. \A j \in 1..5 : FACTOR_GROUPS[g][j].reads \subseteq Item
    BY <1>5 DEF FACTOR_GROUPS, F, Item, Market
  <2> QED BY <2>1, <2>2
<1> QED BY <1>1, <1>2, <1>3, <1>4, <1>5, GroupNames

LEMMA ErrorsConfined == FactorTypeOK => ErrorsStayInTheirGroup
<1> SUFFICES ASSUME FactorTypeOK, NEW i \in DOMAIN item, item[i] = "unreadable", NEW g \in Group,
                    \A j \in DOMAIN FACTOR_GROUPS[g] : i \notin FACTOR_GROUPS[g][j].reads
             PROVE  factors(item) \cap Names(g)
                      = factors([item EXCEPT ![i] = "given"]) \cap Names(g)
  BY DEF ErrorsStayInTheirGroup
<1>1. PICK read : read = [item EXCEPT ![i] = "given"]
  OBVIOUS
<1>2. \A k \in Item \ {i} : read[k] = item[k]
  BY <1>1 DEF FactorTypeOK
<1>3. \A j \in DOMAIN FACTOR_GROUPS[g] : FACTOR_GROUPS[g][j].reads \subseteq Item
  BY GroupReads
<1>4. \A j \in DOMAIN FACTOR_GROUPS[g] :
        Unreadable(item, FACTOR_GROUPS[g][j]) <=> Unreadable(read, FACTOR_GROUPS[g][j])
  BY <1>2, <1>3 DEF Unreadable
<1>5. Skips(item, g) <=> Skips(read, g)
  <2>1. g = "volume" => i # "volume" /\ "volume" \in Item
    BY ReadByGroup DEF Item, Candle
  <2> QED BY <1>2, <2>1 DEF Skips
<1>6. Computed(item, g) = Computed(read, g)
  <2>1. CASE Skips(item, g)
    BY <1>5, <2>1 DEF Computed
  <2>2. CASE ~Skips(item, g)
    <3>1. PICK n \in Nat : DOMAIN FACTOR_GROUPS[g] = 1..n
      BY GroupReads
    <3>2. \A k \in DOMAIN FACTOR_GROUPS[g] :
            (\A j \in 1..k : ~Unreadable(item, FACTOR_GROUPS[g][j]))
              <=> (\A j \in 1..k : ~Unreadable(read, FACTOR_GROUPS[g][j]))
      <4> SUFFICES ASSUME NEW k \in DOMAIN FACTOR_GROUPS[g], NEW j \in 1..k
                   PROVE  j \in DOMAIN FACTOR_GROUPS[g]
        BY <1>4
      <4> QED BY <3>1
    <3>3. ASSUME NEW n2 PROVE n2 \in Computed(item, g) <=> n2 \in Computed(read, g)
      BY <1>5, <2>2, <3>2 DEF Computed
    <3> QED BY <3>3
  <2> QED BY <2>1, <2>2
<1>7. ASSUME NEW in PROVE capture(in) \cap Names(g) = Computed(in, g)
  <2>1. \A h \in Group : h # g => Names(h) \cap Names(g) = {}
    BY GroupNames
  <2> QED BY <2>1, ComputedNamed DEF capture
<1>8. ASSUME NEW n \in Names(g) PROVE usable(item, n) <=> usable(read, n)
  <2>1. CASE g = "orderflow"
    <3>1. i # "book" /\ "book" \in Item
      BY <2>1, ReadByGroup DEF Item, Market
    <3> QED BY <1>2, <3>1 DEF usable
  <2>2. CASE g # "orderflow"
    BY <2>2, GroupNames DEF usable
  <2> QED BY <2>1, <2>2
<1>9. ASSUME NEW n PROVE n \in factors(item) \cap Names(g) <=> n \in factors(read) \cap Names(g)
  <2>1. ASSUME n \in Names(g) PROVE n \in factors(item) <=> n \in factors(read)
    <3>1. n \in capture(item) <=> n \in capture(read)
      BY <1>6, <1>7, <2>1
    <3> QED BY <1>8, <2>1, <3>1 DEF factors
  <2> QED BY <2>1
<1> QED BY <1>1, <1>9

FactorInv == FactorTypeOK /\ SnapshotIdResolves

LEMMA FactorStart == FactorInit => FactorInv
<1> SUFFICES ASSUME FactorInit PROVE FactorInv
  OBVIOUS
<1>1. item \in [Item -> {"given", "absent", "unreadable"}]
  BY DEF FactorInit
<1>2. length \in 0..2 /\ stage = "idle"
  BY DEF FactorInit
<1>3. stored \in BOOLEAN /\ persist_ok \in BOOLEAN /\ healthy \in BOOLEAN
  BY Zenon DEF FactorInit
<1> QED BY <1>1, <1>2, <1>3 DEF FactorInv, FactorTypeOK, SnapshotIdResolves

LEMMA FactorStep == ASSUME FactorInv, FactorNext PROVE FactorInv'
<1>1. CASE calculate_snapshot
  <2>1. /\ stage' = "calculated" /\ length' \in 0..2 /\ UNCHANGED <<stored, persist_ok, healthy>>
        /\ item' \in [Item -> {"given", "absent", "unreadable"}]
    BY <1>1 DEF calculate_snapshot
  <2> QED BY <2>1 DEF FactorInv, FactorTypeOK, SnapshotIdResolves
<1>2. CASE PersistSucceeds \/ PersistFails
  BY <1>2 DEF FactorInv, FactorTypeOK, SnapshotIdResolves, PersistSucceeds, PersistFails
<1> QED BY <1>1, <1>2 DEF FactorNext

LEMMA FactorKept == ASSUME FactorInv, UNCHANGED factorVars PROVE FactorInv'
BY DEF FactorInv, factorVars, FactorTypeOK, SnapshotIdResolves

-----------------------------------------------------------------------------
(* A finite set in the order R, each element at the place that the number  *)
(* of those before it gives.                                               *)

Orders(R, S) ==
  /\ IsFiniteSet(S) /\ \A x \in S : <<x, x>> \notin R
  /\ \A x, y, z \in S : <<x, y>> \in R /\ <<y, z>> \in R => <<x, z>> \in R
  /\ \A x, y \in S : x # y => <<x, y>> \in R \/ <<y, x>> \in R

Below(R, S, x) == {y \in S : <<y, x>> \in R}

LEMMA RankGrows ==
  ASSUME NEW R, NEW S, Orders(R, S), NEW x \in S, NEW y \in S, <<x, y>> \in R
  PROVE  Cardinality(Below(R, S, x)) < Cardinality(Below(R, S, y))
<1>1. Below(R, S, x) \in SUBSET Below(R, S, y)
  BY DEF Orders, Below
<1>2. x \in Below(R, S, y) /\ x \notin Below(R, S, x)
  BY DEF Orders, Below
<1>3. IsFiniteSet(S) /\ Below(R, S, x) \in SUBSET S /\ Below(R, S, y) \in SUBSET S
  BY DEF Orders, Below
<1>4. IsFiniteSet(Below(R, S, x)) /\ IsFiniteSet(Below(R, S, y))
  BY <1>3, FS_Subset
<1>5. Below(R, S, x) # Below(R, S, y)
  BY <1>2
<1>6. /\ Cardinality(Below(R, S, x)) <= Cardinality(Below(R, S, y))
      /\ Cardinality(Below(R, S, x)) # Cardinality(Below(R, S, y))
  BY <1>1, <1>4, <1>5, FS_Subset
<1>7. Cardinality(Below(R, S, x)) \in Nat /\ Cardinality(Below(R, S, y)) \in Nat
  BY <1>4, FS_CardinalityType
<1> QED BY <1>6, <1>7

LEMMA RankTyped ==
  ASSUME NEW R, NEW S, Orders(R, S), NEW x \in S
  PROVE  Cardinality(S) \in Nat /\ Cardinality(Below(R, S, x)) \in 0..(Cardinality(S) - 1)
<1>1. IsFiniteSet(S) /\ Below(R, S, x) \in SUBSET S /\ x \notin Below(R, S, x)
  BY DEF Orders, Below
<1>2. IsFiniteSet(Below(R, S, x)) /\ Cardinality(Below(R, S, x)) <= Cardinality(S)
      /\ Cardinality(Below(R, S, x)) # Cardinality(S)
  BY <1>1, FS_Subset
<1>3. Cardinality(S) \in Nat /\ Cardinality(Below(R, S, x)) \in Nat
  BY <1>1, <1>2, FS_CardinalityType
<1> QED BY <1>2, <1>3

\* Every place is taken.
LEMMA RankExists ==
  ASSUME NEW R, NEW S, Orders(R, S), NEW n \in 0..(Cardinality(S) - 1)
  PROVE  \E x \in S : Cardinality(Below(R, S, x)) = n
<1> DEFINE T == 0..(Cardinality(S) - 1)
           rank == [x \in S |-> Cardinality(Below(R, S, x))]
<1>1. IsFiniteSet(S) /\ Cardinality(S) \in Nat
  BY FS_CardinalityType DEF Orders
<1>2. IsFiniteSet(T) /\ Cardinality(T) = Cardinality(S)
  <2>1. PICK c : c = Cardinality(S)
    OBVIOUS
  <2>2. 0 \in Int /\ c - 1 \in Int /\ c \in Nat
    BY <1>1, <2>1
  <2>3. IsFiniteSet(0..(c - 1)) /\ Cardinality(0..(c - 1)) = IF 0 > c - 1 THEN 0 ELSE c - 1 - 0 + 1
    BY <2>2, FS_Interval
  <2> QED BY <2>1, <2>2, <2>3
<1>3. rank \in [S -> T]
  BY RankTyped
<1>4. \A x, y \in S : rank[x] = rank[y] => x = y
  <2> SUFFICES ASSUME NEW x \in S, NEW y \in S, x # y PROVE rank[x] # rank[y]
    OBVIOUS
  <2>1. rank[x] \in Int /\ rank[y] \in Int
    BY <1>3
  <2>2. CASE <<x, y>> \in R
    BY <2>1, <2>2, RankGrows
  <2>3. CASE <<y, x>> \in R
    BY <2>1, <2>3, RankGrows
  <2> QED BY <2>2, <2>3 DEF Orders
<1> HIDE DEF rank, T
<1>5. rank \in Injection(S, T)
  BY <1>3, <1>4 DEF Injection, IsInjective
<1>6. rank \in Surjection(S, T)
  BY <1>1, <1>2, <1>5, FS_Injection
<1>7. \E x \in S : rank[x] = n
  BY <1>6 DEF Surjection, T
<1> QED BY <1>7 DEF rank

InRankOrder(s, R, S) ==
  /\ s \in Seq(S) /\ Len(s) = Cardinality(S)
  /\ \A x \in S : \E n \in DOMAIN s : s[n] = x
  /\ \A i, j \in DOMAIN s : i < j => <<s[i], s[j]>> \in R

LEMMA ByRank ==
  ASSUME NEW R, NEW S, Orders(R, S), NEW s, s \in [1..Cardinality(S) -> S],
         \A n \in 1..Cardinality(S) : Cardinality(Below(R, S, s[n])) = n - 1
  PROVE  InRankOrder(s, R, S)
<1>1. Cardinality(S) \in Nat
  BY FS_CardinalityType DEF Orders
<1>2. s \in Seq(S) /\ Len(s) = Cardinality(S) /\ DOMAIN s = 1..Cardinality(S)
  BY <1>1
<1>3. ASSUME NEW x \in S PROVE \E n \in DOMAIN s : s[n] = x
  <2>1. PICK n : n = Cardinality(Below(R, S, x)) + 1
    OBVIOUS
  <2>2. n \in 1..Cardinality(S) /\ Cardinality(Below(R, S, x)) = n - 1
    BY <2>1, RankTyped
  <2>3. s[n] \in S /\ Cardinality(Below(R, S, s[n])) = n - 1
    BY <2>2
  <2>4. ~(<<x, s[n]>> \in R) /\ ~(<<s[n], x>> \in R)
    <3>1. n - 1 \in Int /\ ~(n - 1 < n - 1)
      BY <2>2
    <3> QED BY <2>2, <2>3, <3>1, RankGrows
  <2> QED BY <1>2, <2>2, <2>3, <2>4 DEF Orders
<1>4. ASSUME NEW i \in DOMAIN s, NEW j \in DOMAIN s, i < j PROVE <<s[i], s[j]>> \in R
  <2>1. /\ s[i] \in S /\ s[j] \in S /\ Cardinality(Below(R, S, s[i])) = i - 1
        /\ Cardinality(Below(R, S, s[j])) = j - 1 /\ i \in Int /\ j \in Int
    BY <1>2
  <2>2. s[i] # s[j]
    BY <1>4, <2>1
  <2>3. ~(<<s[j], s[i]>> \in R)
    <3>1. ~(j - 1 < i - 1)
      BY <1>4, <2>1
    <3> QED BY <2>1, <3>1, RankGrows
  <2> QED BY <2>1, <2>2, <2>3 DEF Orders
<1> QED BY <1>2, <1>3, <1>4 DEF InRankOrder

-----------------------------------------------------------------------------
(* The bars: the candles of an answer in the order of the time, those      *)
(* without a price left out.                                               *)

Earlier(S) == {x \in S \X S : x[1].ts < x[2].ts}

LEMMA OnePerMinute ==
  ASSUME NEW rows \in Seq(Row)
  PROVE  /\ by_open_time(rows) \in SUBSET Row
         /\ Orders(Earlier(by_open_time(rows)), by_open_time(rows))
<1> DEFINE S == by_open_time(rows)
           kept == {i \in DOMAIN rows : \A j \in i + 1..Len(rows) : rows[j].ts # rows[i].ts}
<1>1. Len(rows) \in Nat /\ DOMAIN rows = 1..Len(rows) /\ \A i \in DOMAIN rows : rows[i] \in Row
  OBVIOUS
<1>2. S = {rows[i] : i \in kept}
  BY DEF by_open_time
<1>3. S \in SUBSET Row
  BY <1>1, <1>2
<1>4. IsFiniteSet(S)
  <2>1. 1 \in Int /\ Len(rows) \in Int /\ kept \in SUBSET (1..Len(rows))
    BY <1>1
  <2>2. IsFiniteSet(kept)
    BY <2>1, FS_Interval, FS_Subset
  <2>3. [i \in kept |-> rows[i]] \in Surjection(kept, S)
    <3> HIDE DEF S, kept
    <3> QED BY <1>2 DEF Surjection
  <2> HIDE DEF kept, S
  <2> QED BY <2>2, <2>3, FS_Surjection
<1>5. ASSUME NEW x \in S, NEW y \in S, x # y PROVE x.ts # y.ts
  <2>1. PICK i \in kept : x = rows[i]
    BY <1>2
  <2>2. PICK j \in kept : y = rows[j]
    BY <1>2
  <2>3. i \in 1..Len(rows) /\ j \in 1..Len(rows) /\ i # j
    BY <1>1, <1>5, <2>1, <2>2
  <2>4. CASE i < j
    BY <1>1, <2>1, <2>2, <2>3, <2>4
  <2>5. CASE j < i
    BY <1>1, <2>1, <2>2, <2>3, <2>5
  <2> QED BY <2>3, <2>4, <2>5
<1> HIDE DEF S, kept
<1>6. ASSUME NEW x \in S, NEW y \in S
      PROVE  x.ts \in Int /\ y.ts \in Int /\ (<<x, y>> \in Earlier(S) <=> x.ts < y.ts)
  BY <1>3 DEF Earlier, Row
<1>7. \A x \in S : <<x, x>> \notin Earlier(S)
  BY <1>6
<1>8. \A x, y, z \in S : <<x, y>> \in Earlier(S) /\ <<y, z>> \in Earlier(S) => <<x, z>> \in Earlier(S)
  BY <1>6
<1>9. \A x, y \in S : x # y => <<x, y>> \in Earlier(S) \/ <<y, x>> \in Earlier(S)
  BY <1>5, <1>6
<1>10. Orders(Earlier(S), S)
  BY <1>4, <1>7, <1>8, <1>9 DEF Orders
<1> QED BY <1>3, <1>10 DEF S

\* The provider's answer is what its description says: every candle, in the order of the time.
LEMMA ProviderSorts ==
  ASSUME NEW rows \in Seq(Row)
  PROVE  InRankOrder(_live_candle_provider(rows), Earlier(by_open_time(rows)), by_open_time(rows))
<1>1. PICK S : S = by_open_time(rows)
  OBVIOUS
<1>2. S \in SUBSET Row /\ Orders(Earlier(S), S)
  BY <1>1, OnePerMinute
<1>3. PICK s : s = _live_candle_provider(rows)
  OBVIOUS
<1>4. s = [n \in 1..Cardinality(S) |-> CHOOSE c \in S : Cardinality({d \in S : d.ts < c.ts}) = n - 1]
  BY <1>1, <1>3 DEF _live_candle_provider
<1>5. ASSUME NEW c \in S PROVE {d \in S : d.ts < c.ts} = Below(Earlier(S), S, c)
  <2>1. ASSUME NEW d PROVE d \in {e \in S : e.ts < c.ts} <=> d \in Below(Earlier(S), S, c)
    BY DEF Below, Earlier
  <2> QED BY <2>1
<1>6. ASSUME NEW n \in 1..Cardinality(S)
      PROVE  s[n] \in S /\ Cardinality(Below(Earlier(S), S, s[n])) = n - 1
  <2>1. Cardinality(S) \in Nat
    BY <1>2, FS_CardinalityType DEF Orders
  <2>2. n - 1 \in 0..(Cardinality(S) - 1)
    BY <2>1
  <2>3. \E c \in S : Cardinality(Below(Earlier(S), S, c)) = n - 1
    BY <1>2, <2>2, RankExists
  <2>4. \E c \in S : Cardinality({d \in S : d.ts < c.ts}) = n - 1
    BY <1>5, <2>3
  <2>5. s[n] = CHOOSE c \in S : Cardinality({d \in S : d.ts < c.ts}) = n - 1
    BY <1>4
  <2>6. s[n] \in S /\ Cardinality({d \in S : d.ts < s[n].ts}) = n - 1
    BY <2>4, <2>5
  <2> QED BY <1>5, <2>6
<1>7. s \in [1..Cardinality(S) -> S]
  BY <1>4, <1>6
<1> QED BY <1>1, <1>2, <1>3, <1>6, <1>7, ByRank

\* One candle ingested.
Taking == [x \in Seq(Row) \X Row |->
             IF Usable(x[2]) THEN ingest(x[1], x[2]) ELSE x[1]]

LEMMA TakingTyped == Taking \in [Seq(Row) \X Row -> Seq(Row)] /\ <<>> \in Seq(Row)
<1>1. ASSUME NEW bars \in Seq(Row), NEW c \in Row
      PROVE  (IF Usable(c) THEN ingest(bars, c) ELSE bars) \in Seq(Row)
  BY DEF ingest
<1>2. \A x \in Seq(Row) \X Row : (IF Usable(x[2]) THEN ingest(x[1], x[2]) ELSE x[1]) \in Seq(Row)
  BY <1>1
<1> QED BY <1>2 DEF Taking

IngestedFrom(s) == FoldLeft(LAMBDA bars, c : IF Usable(c) THEN ingest(bars, c) ELSE bars, <<>>, s)

LEMMA IngestRuns ==
  ASSUME NEW s \in Seq(Row)
  PROVE  \E f : /\ Runs(f, Taking, <<>>, s) /\ IngestedFrom(s) = f[Len(s)]
                /\ \A k \in 0..Len(s) : f[k] \in Seq(Row)
<1> DEFINE One(bars, c) == IF Usable(c) THEN ingest(bars, c) ELSE bars
           G(g) == g = [t \in SUBSET DOMAIN s |->
                          IF t = {} THEN <<>> ELSE One(g[t \ {Max(t)}], s[Max(t)])]
           h == CHOOSE g : G(g)
<1>1. IngestedFrom(s) = h[DOMAIN s]
  BY DEF IngestedFrom, FoldLeft, MapThenFoldSet
<1>2. DOMAIN s = 1..Len(s) /\ Len(s) \in Nat
  OBVIOUS
<1>3. PICK g \in [SUBSET (1..Len(s)) -> Seq(Row)] : Iterates(g, Taking, <<>>, s)
  BY IteratesExist, TakingTyped
<1>4. ASSUME NEW t \in SUBSET (1..Len(s))
      PROVE  g[t] = IF t = {} THEN <<>> ELSE One(g[t \ {Max(t)}], s[Max(t)])
  <2>1. CASE t = {}
    BY <1>3, <2>1 DEF Iterates, IteratesTo
  <2>2. CASE t # {}
    <3>1. Max(t) \in t /\ g[t] = Taking[<<g[t \ {Max(t)}], s[Max(t)]>>]
      BY <1>3, <2>2 DEF Iterates, IteratesTo
    <3>2. t \ {Max(t)} \in SUBSET (1..Len(s)) /\ Max(t) \in 1..Len(s)
      BY <3>1
    <3>3. g[t \ {Max(t)}] \in Seq(Row) /\ s[Max(t)] \in Row
      BY <1>2, <3>2
    <3> QED BY <2>2, <3>1, <3>3 DEF Taking
  <2> QED BY <2>1, <2>2
<1> HIDE DEF One
<1>5. G(h)
  <2>1. G(g)
    BY <1>2, <1>4
  <2> HIDE DEF G
  <2> QED BY <2>1
<1>6. \A t \in SUBSET (1..Len(s)) :
        h[t] = IF t = {} THEN <<>> ELSE One(h[t \ {Max(t)}], s[Max(t)])
  <2> HIDE DEF h
  <2> QED BY <1>2, <1>5
<1> HIDE DEF h
<1>7. ASSUME NEW k \in 1..Len(s), h[1..(k - 1)] \in Seq(Row)
      PROVE  h[1..k] = Taking[<<h[1..(k - 1)], s[k]>>]
  <2>1. h[1..k] = One(h[1..(k - 1)], s[k])
    BY <1>2, <1>6, Segments
  <2>2. s[k] \in Row
    BY <1>2
  <2> QED BY <1>7, <2>1, <2>2 DEF Taking, One
<1>8. h[{}] = <<>>
  BY <1>6
<1>9. Moves(Taking, <<>>, s, Seq(Row), Row)
  BY TakingTyped DEF Moves
<1>10. Folds(h, Taking, <<>>, s, Seq(Row))
  BY <1>7, <1>8 DEF Folds
<1>11. PICK f : /\ Runs(f, Taking, <<>>, s) /\ f[Len(s)] = h[1..Len(s)]
               /\ \A k \in 0..Len(s) : f[k] \in Seq(Row)
  BY <1>9, <1>10, SegmentsRun
<1> QED BY <1>1, <1>2, <1>11

\* The bars of an initial part of ascending candles.
BarsOf(bars, s, k) ==
  /\ Range(bars) = {s[i] : i \in {i \in 1..k : Usable(s[i])}}
  /\ \A i, j \in DOMAIN bars : i < j => bars[i].ts < bars[j].ts

LEMMA NextBar ==
  ASSUME NEW s \in Seq(Row), \A i, j \in DOMAIN s : i < j => s[i].ts < s[j].ts,
         NEW k \in 1..Len(s), NEW bars \in Seq(Row), BarsOf(bars, s, k - 1)
  PROVE  BarsOf(Taking[<<bars, s[k]>>], s, k)
<1>1. PICK c : c = s[k]
  OBVIOUS
<1>2. Len(s) \in Nat /\ DOMAIN s = 1..Len(s) /\ c \in Row /\ k \in Nat
  BY <1>1
<1>3. Taking[<<bars, c>>] = IF Usable(c) THEN ingest(bars, c) ELSE bars
  BY <1>2 DEF Taking
<1>4. \A i \in 1..k : i \in 1..(k - 1) \/ i = k
  BY <1>2
<1>5. CASE ~Usable(c)
  <2>1. {i \in 1..k : Usable(s[i])} = {i \in 1..(k - 1) : Usable(s[i])}
    BY <1>1, <1>2, <1>4, <1>5
  <2> QED BY <1>1, <1>3, <1>5, <2>1 DEF BarsOf
<1>6. CASE Usable(c)
  <2>1. PICK n \in Nat : n = Len(bars) /\ DOMAIN bars = 1..n
    OBVIOUS
  <2>2. ASSUME NEW i \in 1..n PROVE bars[i] \in Row /\ bars[i].ts < c.ts
    <3>1. bars[i] \in Range(bars)
      BY <2>1 DEF Range
    <3>2. PICK j \in 1..(k - 1) : bars[i] = s[j]
      BY <3>1 DEF BarsOf
    <3>3. j \in DOMAIN s /\ k \in DOMAIN s /\ j < k
      BY <1>2
    <3> QED BY <1>1, <1>2, <3>2, <3>3
  <2>3. ingest(bars, c) = Append(bars, c)
    <3>1. CASE bars = <<>>
      BY <3>1 DEF ingest
    <3>2. CASE bars # <<>>
      <4>1. n \in 1..n
        BY <2>1, <3>2
      <4>2. bars[n].ts \in Int /\ c.ts \in Int /\ bars[n].ts < c.ts
        BY <1>2, <2>2, <4>1 DEF Row
      <4> QED BY <2>1, <4>2 DEF ingest
    <3> QED BY <3>1, <3>2
  <2>4. PICK more : more = Append(bars, c)
    OBVIOUS
  <2>5. /\ DOMAIN more = 1..(n + 1) /\ more[n + 1] = c
        /\ \A i \in 1..n : more[i] = bars[i]
    BY <1>2, <2>1, <2>4
  <2>6. \A i, j \in DOMAIN more : i < j => more[i].ts < more[j].ts
    <3> SUFFICES ASSUME NEW i \in DOMAIN more, NEW j \in DOMAIN more, i < j
                 PROVE  more[i].ts < more[j].ts
      OBVIOUS
    <3>1. i \in 1..n /\ (j \in 1..n \/ j = n + 1)
      BY <2>5
    <3>2. CASE j \in 1..n
      BY <2>1, <2>5, <3>1, <3>2 DEF BarsOf
    <3>3. CASE j = n + 1
      BY <2>2, <2>5, <3>1, <3>3
    <3> QED BY <3>1, <3>2, <3>3
  <2>7. ASSUME NEW x PROVE x \in Range(more) <=> x \in Range(bars) \/ x = c
    <3>1. x \in Range(more) <=> \E i \in 1..(n + 1) : x = more[i]
      BY <2>5 DEF Range
    <3>2. x \in Range(bars) <=> \E i \in 1..n : x = bars[i]
      BY <2>1 DEF Range
    <3>3. \A i \in 1..(n + 1) : i \in 1..n \/ i = n + 1
      OBVIOUS
    <3>4. \A i \in 1..n : i \in 1..(n + 1)
      OBVIOUS
    <3>5. n + 1 \in 1..(n + 1)
      OBVIOUS
    <3> QED BY <2>5, <3>1, <3>2, <3>3, <3>4, <3>5
  <2>8. ASSUME NEW x
        PROVE  x \in {s[i] : i \in {i \in 1..k : Usable(s[i])}}
                 <=> x \in {s[i] : i \in {i \in 1..(k - 1) : Usable(s[i])}} \/ x = c
    <3>1. \A i \in 1..(k - 1) : i \in 1..k
      BY <1>2
    <3> QED BY <1>1, <1>2, <1>4, <1>6, <3>1
  <2>9. Range(more) = {s[i] : i \in {i \in 1..k : Usable(s[i])}}
    BY <2>7, <2>8 DEF BarsOf
  <2> QED BY <1>1, <1>3, <1>6, <2>3, <2>4, <2>6, <2>9 DEF BarsOf
<1> QED BY <1>5, <1>6

\* Every candle with a price is a bar, in ascending order.
LEMMA EveryBar ==
  ASSUME NEW rows \in Seq(Row)
  PROVE  /\ Range(Ingested(rows)) = {c \in by_open_time(rows) : Usable(c)}
         /\ \A i, j \in DOMAIN Ingested(rows) : i < j => Ingested(rows)[i].ts < Ingested(rows)[j].ts
<1>1. PICK S, s : S = by_open_time(rows) /\ s = _live_candle_provider(rows)
  OBVIOUS
<1>2. InRankOrder(s, Earlier(S), S) /\ S \in SUBSET Row
  BY <1>1, ProviderSorts, OnePerMinute
<1>3. /\ s \in Seq(S) /\ s \in Seq(Row) /\ \A x \in S : \E n \in DOMAIN s : s[n] = x
      /\ \A i, j \in DOMAIN s : i < j => <<s[i], s[j]>> \in Earlier(S)
  BY <1>2 DEF InRankOrder
<1>4. \A i, j \in DOMAIN s : i < j => s[i].ts < s[j].ts
  BY <1>3 DEF Earlier
<1>5. Ingested(rows) = IngestedFrom(s)
  BY <1>1 DEF Ingested, IngestedFrom
<1>6. PICK f : /\ Runs(f, Taking, <<>>, s) /\ IngestedFrom(s) = f[Len(s)]
               /\ \A k \in 0..Len(s) : f[k] \in Seq(Row)
  BY <1>3, IngestRuns
<1>7. Len(s) \in Nat /\ DOMAIN s = 1..Len(s)
  BY <1>3
<1> DEFINE T == {k \in 0..Len(s) : BarsOf(f[k], s, k)}
<1>8. 0 \in T
  <2>1. f[0] = <<>> /\ 0 \in 0..Len(s)
    BY <1>6, <1>7 DEF Runs
  <2>2. BarsOf(<<>>, s, 0)
    BY DEF BarsOf, Range
  <2> QED BY <2>1, <2>2
<1>9. ASSUME NEW k \in 1..Len(s), k - 1 \in T PROVE k \in T
  <2>1. f[k] = Taking[<<f[k - 1], s[k]>>] /\ k - 1 \in 0..Len(s) /\ k \in 0..Len(s)
    BY <1>6, <1>7 DEF Runs
  <2>2. f[k - 1] \in Seq(Row) /\ BarsOf(f[k - 1], s, k - 1)
    BY <1>6, <1>9, <2>1
  <2>3. BarsOf(Taking[<<f[k - 1], s[k]>>], s, k)
    BY <1>3, <1>4, <2>2, NextBar
  <2> QED BY <2>1, <2>3
<1> HIDE DEF T
<1>10. Len(s) \in T
  BY <1>7, <1>8, <1>9, ReachesAll
<1>11. BarsOf(Ingested(rows), s, Len(s))
  BY <1>5, <1>6, <1>10 DEF T
<1>12. {s[i] : i \in {i \in 1..Len(s) : Usable(s[i])}} = {c \in S : Usable(c)}
  <2>1. ASSUME NEW x
        PROVE  x \in {s[i] : i \in {i \in 1..Len(s) : Usable(s[i])}} <=> x \in S /\ Usable(x)
    <3>1. \A i \in 1..Len(s) : s[i] \in S
      BY <1>3, <1>7
    <3>2. \A y \in S : \E n \in 1..Len(s) : s[n] = y
      BY <1>3, <1>7
    <3> QED BY <3>1, <3>2
  <2> QED BY <2>1
<1> QED BY <1>1, <1>11, <1>12 DEF BarsOf

-----------------------------------------------------------------------------
(* The strategies, and a market upside down.                               *)

AnySignal == [side : {"LONG", "SHORT", "NO_TRADE"}, confidence : Nat]

\* The other side, as surely.
Opposed(a, b) == a.side = Opposite[b.side] /\ a.confidence = b.confidence

\* What a proposal is: a side with enough confidence, or none.
Proposal(a) ==
  a \in AnySignal /\ IF a.side = "NO_TRADE" THEN a.confidence = 0 ELSE a.confidence >= 4000

LEMMA SignalIs ==
  ASSUME NEW long \in BOOLEAN, NEW short \in BOOLEAN, NEW c \in Nat, long \/ short => c >= 4000
  PROVE  /\ Proposal(AlphaSignal(long, short, c))
         /\ AlphaSignal(long, short, c).side = IF long THEN "LONG"
                                               ELSE IF short THEN "SHORT" ELSE "NO_TRADE"
         /\ AlphaSignal(long, short, c).confidence = IF long \/ short THEN c ELSE 0
BY DEF AlphaSignal, Proposal, AnySignal

LEMMA SignalsOpposed ==
  ASSUME NEW long \in BOOLEAN, NEW short \in BOOLEAN, ~(long /\ short), NEW c \in Nat,
         long \/ short => c >= 4000
  PROVE  Opposed(AlphaSignal(short, long, c), AlphaSignal(long, short, c))
<1>1. AlphaSignal(short, long, c).side = IF short THEN "LONG" ELSE IF long THEN "SHORT" ELSE "NO_TRADE"
  BY SignalIs
<1>2. AlphaSignal(long, short, c).side = IF long THEN "LONG" ELSE IF short THEN "SHORT" ELSE "NO_TRADE"
  BY SignalIs
<1>3. AlphaSignal(short, long, c).confidence = AlphaSignal(long, short, c).confidence
  BY SignalIs
<1> QED BY <1>1, <1>2, <1>3 DEF Opposed, Opposite

\* The features, each on its own.
Seen(m) ==
  /\ m.trend \in Int /\ m.return_1 \in Int /\ m.return_5 \in Int /\ m.return_20 \in Int
  /\ m.above_ema20 \in Int /\ m.zscore \in Int /\ m.above_high \in Int /\ m.above_low \in Int
  /\ m.volume_ratio \in Nat /\ m.funding \in Int /\ m.basis \in Int /\ m.derivatives \in BOOLEAN
  /\ m.above_high <= m.above_low

Mirrored(k, m) ==
  /\ k.trend = -m.trend /\ k.return_1 = -m.return_1 /\ k.return_5 = -m.return_5
  /\ k.return_20 = -m.return_20 /\ k.above_ema20 = -m.above_ema20 /\ k.zscore = -m.zscore
  /\ k.above_high = -m.above_low /\ k.above_low = -m.above_high
  /\ k.volume_ratio = m.volume_ratio /\ k.funding = -m.funding /\ k.basis = -m.basis
  /\ k.derivatives = m.derivatives

LEMMA MirrorIs ==
  ASSUME NEW m \in Features, m.above_high <= m.above_low
  PROVE  Seen(m) /\ Mirrored(Mirror(m), m)
<1>1. Seen(m)
  BY DEF Seen, Features
<1>2. Mirrored(Mirror(m), m)
  BY DEF Mirrored, Mirror, Features
<1> QED BY <1>1, <1>2

LEMMA LeastIs == ASSUME NEW a \in Int, NEW b \in Int
                 PROVE  Least(a, b) \in {a, b} /\ Least(a, b) <= a /\ Least(a, b) <= b
BY DEF Least

LEMMA AbsIs == ASSUME NEW x \in Int
               PROVE  Abs(x) \in Nat /\ Abs(-x) = Abs(x) /\ Abs(x) >= x /\ Abs(x) >= -x
BY DEF Abs

LEMMA TrendFollowing ==
  ASSUME NEW m, Seen(m), NEW k, Mirrored(k, m)
  PROVE  Proposal(trend_following(m)) /\ Opposed(trend_following(k), trend_following(m))
<1>1. PICK c : c = Least(9000, 5000 + 100 * Abs(m.trend))
  OBVIOUS
<1>2. c \in Nat /\ c >= 4000
  <2>1. Abs(m.trend) \in Nat
    BY AbsIs DEF Seen, Least
  <2>2. PICK x \in Nat : x = Abs(m.trend)
    BY <2>1
  <2> QED BY <1>1, <2>2 DEF Least
<1>3. Abs(k.trend) = Abs(m.trend)
  BY AbsIs DEF Seen, Mirrored
<1>4. PICK long \in BOOLEAN, short \in BOOLEAN :
        /\ long <=> m.trend > 20
        /\ short <=> m.trend < -20
  BY Zenon
<1>5. trend_following(m) = AlphaSignal(long, short, c)
  BY <1>1, <1>4 DEF trend_following, AlphaSignal
<1>6. /\ short <=> k.trend > 20
      /\ long <=> k.trend < -20
  BY <1>4 DEF Seen, Mirrored
<1>7. trend_following(k) = AlphaSignal(short, long, c)
  BY <1>1, <1>3, <1>6 DEF trend_following, AlphaSignal
<1>8. ~(long /\ short)
  BY <1>4 DEF Seen
<1> QED BY <1>2, <1>5, <1>7, <1>8, SignalIs, SignalsOpposed

LEMMA Momentum ==
  ASSUME NEW m, Seen(m), NEW k, Mirrored(k, m)
  PROVE  Proposal(momentum(m)) /\ Opposed(momentum(k), momentum(m))
<1>1. PICK c : c = Least(8500, 5000 + 40 * Abs(m.return_5))
  OBVIOUS
<1>2. c \in Nat /\ c >= 4000
  <2>1. Abs(m.return_5) \in Nat
    BY AbsIs DEF Seen, Least
  <2>2. PICK x \in Nat : x = Abs(m.return_5)
    BY <2>1
  <2> QED BY <1>1, <2>2 DEF Least
<1>3. Abs(k.return_5) = Abs(m.return_5)
  BY AbsIs DEF Seen, Mirrored
<1>4. PICK long \in BOOLEAN, short \in BOOLEAN :
        /\ long <=> m.return_5 > 40
        /\ short <=> m.return_5 < -40
  BY Zenon
<1>5. momentum(m) = AlphaSignal(long, short, c)
  BY <1>1, <1>4 DEF momentum, AlphaSignal
<1>6. /\ short <=> k.return_5 > 40
      /\ long <=> k.return_5 < -40
  BY <1>4 DEF Seen, Mirrored
<1>7. momentum(k) = AlphaSignal(short, long, c)
  BY <1>1, <1>3, <1>6 DEF momentum, AlphaSignal
<1>8. ~(long /\ short)
  BY <1>4 DEF Seen
<1> QED BY <1>2, <1>5, <1>7, <1>8, SignalIs, SignalsOpposed

LEMMA Breakout ==
  ASSUME NEW m, Seen(m), NEW k, Mirrored(k, m)
  PROVE  Proposal(breakout(m)) /\ Opposed(breakout(k), breakout(m))
<1>1. PICK c : c = 8000
  OBVIOUS
<1>2. c \in Nat /\ c >= 4000
  BY <1>1
<1>4. PICK long \in BOOLEAN, short \in BOOLEAN :
        /\ long <=> m.above_high > 2
        /\ short <=> m.above_low < -2
  BY Zenon
<1>5. breakout(m) = AlphaSignal(long, short, c)
  BY <1>1, <1>4 DEF breakout, AlphaSignal
<1>6. /\ short <=> k.above_high > 2
      /\ long <=> k.above_low < -2
  BY <1>4 DEF Seen, Mirrored
<1>7. breakout(k) = AlphaSignal(short, long, c)
  BY <1>1, <1>6 DEF breakout, AlphaSignal
<1>8. ~(long /\ short)
  BY <1>4 DEF Seen
<1> QED BY <1>2, <1>5, <1>7, <1>8, SignalIs, SignalsOpposed

LEMMA MeanReversion ==
  ASSUME NEW m, Seen(m), NEW k, Mirrored(k, m)
  PROVE  Proposal(mean_reversion(m)) /\ Opposed(mean_reversion(k), mean_reversion(m))
<1>1. PICK c : c = Least(8000, 4500 + 20 * Abs(m.zscore))
  OBVIOUS
<1>2. c \in Nat /\ c >= 4000
  <2>1. Abs(m.zscore) \in Nat
    BY AbsIs DEF Seen, Least
  <2>2. PICK x \in Nat : x = Abs(m.zscore)
    BY <2>1
  <2> QED BY <1>1, <2>2 DEF Least
<1>3. Abs(k.zscore) = Abs(m.zscore)
  BY AbsIs DEF Seen, Mirrored
<1>4. PICK long \in BOOLEAN, short \in BOOLEAN :
        /\ long <=> m.zscore < -150
        /\ short <=> m.zscore > 150
  BY Zenon
<1>5. mean_reversion(m) = AlphaSignal(long, short, c)
  BY <1>1, <1>4 DEF mean_reversion, AlphaSignal
<1>6. /\ short <=> k.zscore < -150
      /\ long <=> k.zscore > 150
  BY <1>4 DEF Seen, Mirrored
<1>7. mean_reversion(k) = AlphaSignal(short, long, c)
  BY <1>1, <1>3, <1>6 DEF mean_reversion, AlphaSignal
<1>8. ~(long /\ short)
  BY <1>4 DEF Seen
<1> QED BY <1>2, <1>5, <1>7, <1>8, SignalIs, SignalsOpposed

LEMMA FundingBasis ==
  ASSUME NEW m, Seen(m), NEW k, Mirrored(k, m)
  PROVE  Proposal(funding_basis(m)) /\ Opposed(funding_basis(k), funding_basis(m))
<1>1. PICK c : c = Least(7500, 4000 + 300 * Abs(m.funding + m.basis))
  OBVIOUS
<1>2. c \in Nat /\ c >= 4000
  <2>1. Abs(m.funding + m.basis) \in Nat
    BY AbsIs DEF Seen, Least
  <2>2. PICK x \in Nat : x = Abs(m.funding + m.basis)
    BY <2>1
  <2> QED BY <1>1, <2>2 DEF Least
<1>3. Abs(k.funding + k.basis) = Abs(m.funding + m.basis)
  <2>1. k.funding + k.basis = -(m.funding + m.basis) /\ m.funding + m.basis \in Int
    BY DEF Seen, Mirrored
  <2> QED BY <2>1, AbsIs
<1>4. PICK long \in BOOLEAN, short \in BOOLEAN :
        /\ long <=> m.derivatives /\ m.funding + m.basis < -5
        /\ short <=> m.derivatives /\ m.funding + m.basis > 5
  BY Zenon
<1>5. funding_basis(m) = AlphaSignal(long, short, c)
  BY <1>1, <1>4 DEF funding_basis, AlphaSignal
<1>6. /\ short <=> k.derivatives /\ k.funding + k.basis < -5
      /\ long <=> k.derivatives /\ k.funding + k.basis > 5
  BY <1>4 DEF Seen, Mirrored
<1>7. funding_basis(k) = AlphaSignal(short, long, c)
  BY <1>1, <1>3, <1>6 DEF funding_basis, AlphaSignal
<1>8. ~(long /\ short)
  BY <1>4 DEF Seen
<1> QED BY <1>2, <1>5, <1>7, <1>8, SignalIs, SignalsOpposed

LEMMA TrendPullback ==
  ASSUME NEW m, Seen(m), NEW k, Mirrored(k, m)
  PROVE  Proposal(trend_pullback(m)) /\ Opposed(trend_pullback(k), trend_pullback(m))
<1>1. PICK c : c = Least(8800, 5500 + 35 * Abs(m.trend))
  OBVIOUS
<1>2. c \in Nat /\ c >= 4000
  <2>1. Abs(m.trend) \in Nat
    BY AbsIs DEF Seen, Least
  <2>2. PICK x \in Nat : x = Abs(m.trend)
    BY <2>1
  <2> QED BY <1>1, <2>2 DEF Least
<1>3. Abs(k.trend) = Abs(m.trend)
  BY AbsIs DEF Seen, Mirrored
<1>4. PICK long \in BOOLEAN, short \in BOOLEAN :
        /\ long <=> m.trend > 40 /\ m.return_20 > 0 /\ above_ema50(m) >= 0
                    /\ m.above_ema20 <= 60 /\ m.zscore <= 75
        /\ short <=> m.trend < -40 /\ m.return_20 < 0 /\ above_ema50(m) <= 0
                     /\ m.above_ema20 >= -60 /\ m.zscore >= -75
  BY Zenon
<1>5. trend_pullback(m) = AlphaSignal(long, short, c)
  BY <1>1, <1>4 DEF trend_pullback, AlphaSignal
<1>6. /\ short <=> k.trend > 40 /\ k.return_20 > 0 /\ above_ema50(k) >= 0
                   /\ k.above_ema20 <= 60 /\ k.zscore <= 75
      /\ long <=> k.trend < -40 /\ k.return_20 < 0 /\ above_ema50(k) <= 0
                  /\ k.above_ema20 >= -60 /\ k.zscore >= -75
  BY <1>4 DEF above_ema50, Seen, Mirrored
<1>7. trend_pullback(k) = AlphaSignal(short, long, c)
  BY <1>1, <1>3, <1>6 DEF trend_pullback, AlphaSignal
<1>8. ~(long /\ short)
  BY <1>4 DEF above_ema50, Seen
<1> QED BY <1>2, <1>5, <1>7, <1>8, SignalIs, SignalsOpposed

LEMMA BreakoutRetest ==
  ASSUME NEW m, Seen(m), NEW k, Mirrored(k, m)
  PROVE  Proposal(breakout_retest(m)) /\ Opposed(breakout_retest(k), breakout_retest(m))
<1>1. PICK c : c = Least(8600, 5400 + 8 * Least(m.volume_ratio, 200))
  OBVIOUS
<1>2. c \in Nat /\ c >= 4000
  <2>1. Least(m.volume_ratio, 200) \in Nat
    BY AbsIs DEF Seen, Least
  <2>2. PICK x \in Nat : x = Least(m.volume_ratio, 200)
    BY <2>1
  <2> QED BY <1>1, <2>2 DEF Least
<1>3. Least(k.volume_ratio, 200) = Least(m.volume_ratio, 200)
  BY AbsIs DEF Seen, Mirrored
<1>4. PICK long \in BOOLEAN, short \in BOOLEAN :
        /\ long <=> near_high(m, 60) /\ m.return_20 > 0 /\ m.return_1 > 0
                    /\ m.volume_ratio >= 80 /\ m.zscore < 250
        /\ short <=> near_low(m, 60) /\ m.return_20 < 0 /\ m.return_1 < 0
                     /\ m.volume_ratio >= 80 /\ m.zscore > -250
  BY Zenon
<1>5. breakout_retest(m) = AlphaSignal(long, short, c)
  BY <1>1, <1>4 DEF breakout_retest, AlphaSignal
<1>6. /\ short <=> near_high(k, 60) /\ k.return_20 > 0 /\ k.return_1 > 0
                   /\ k.volume_ratio >= 80 /\ k.zscore < 250
      /\ long <=> near_low(k, 60) /\ k.return_20 < 0 /\ k.return_1 < 0
                  /\ k.volume_ratio >= 80 /\ k.zscore > -250
  BY <1>4, AbsIs DEF near_high, near_low, Seen, Mirrored
<1>7. breakout_retest(k) = AlphaSignal(short, long, c)
  BY <1>1, <1>3, <1>6 DEF breakout_retest, AlphaSignal
<1>8. ~(long /\ short)
  BY <1>4 DEF near_high, near_low, Seen
<1> QED BY <1>2, <1>5, <1>7, <1>8, SignalIs, SignalsOpposed

LEMMA LiquiditySweep ==
  ASSUME NEW m, Seen(m), NEW k, Mirrored(k, m)
  PROVE  Proposal(liquidity_sweep(m)) /\ Opposed(liquidity_sweep(k), liquidity_sweep(m))
<1>1. PICK c : c = Least(8000, 5000 + 8 * Least(Abs(m.zscore), 300))
  OBVIOUS
<1>2. c \in Nat /\ c >= 4000
  <2>1. Least(Abs(m.zscore), 300) \in Nat
    BY AbsIs DEF Seen, Least
  <2>2. PICK x \in Nat : x = Least(Abs(m.zscore), 300)
    BY <2>1
  <2> QED BY <1>1, <2>2 DEF Least
<1>3. Least(Abs(k.zscore), 300) = Least(Abs(m.zscore), 300)
  BY AbsIs DEF Seen, Mirrored
<1>4. PICK long \in BOOLEAN, short \in BOOLEAN :
        /\ long <=> near_low(m, 40) /\ m.zscore <= -150 /\ m.return_1 > 0
                    /\ m.volume_ratio >= 120
        /\ short <=> near_high(m, 40) /\ m.zscore >= 150 /\ m.return_1 < 0
                     /\ m.volume_ratio >= 120
  BY Zenon
<1>5. liquidity_sweep(m) = AlphaSignal(long, short, c)
  BY <1>1, <1>4 DEF liquidity_sweep, AlphaSignal
<1>6. /\ short <=> near_low(k, 40) /\ k.zscore <= -150 /\ k.return_1 > 0
                   /\ k.volume_ratio >= 120
      /\ long <=> near_high(k, 40) /\ k.zscore >= 150 /\ k.return_1 < 0
                  /\ k.volume_ratio >= 120
  BY <1>4, AbsIs DEF near_high, near_low, Seen, Mirrored
<1>7. liquidity_sweep(k) = AlphaSignal(short, long, c)
  BY <1>1, <1>3, <1>6 DEF liquidity_sweep, AlphaSignal
<1>8. ~(long /\ short)
  BY <1>4 DEF near_high, near_low, Seen
<1> QED BY <1>2, <1>5, <1>7, <1>8, SignalIs, SignalsOpposed

LEMMA Reversal ==
  ASSUME NEW m, Seen(m), NEW k, Mirrored(k, m)
  PROVE  Proposal(support_resistance_reversal(m)) /\ Opposed(support_resistance_reversal(k), support_resistance_reversal(m))
<1>1. PICK c : c = Least(8200, 5200 + 8 * Least(Abs(m.zscore), 250))
  OBVIOUS
<1>2. c \in Nat /\ c >= 4000
  <2>1. Least(Abs(m.zscore), 250) \in Nat
    BY AbsIs DEF Seen, Least
  <2>2. PICK x \in Nat : x = Least(Abs(m.zscore), 250)
    BY <2>1
  <2> QED BY <1>1, <2>2 DEF Least
<1>3. Least(Abs(k.zscore), 250) = Least(Abs(m.zscore), 250)
  BY AbsIs DEF Seen, Mirrored
<1>4. PICK long \in BOOLEAN, short \in BOOLEAN :
        /\ long <=> near_low(m, 60) /\ m.zscore <= -75 /\ m.return_1 > 0
        /\ short <=> near_high(m, 60) /\ m.zscore >= 75 /\ m.return_1 < 0
  BY Zenon
<1>5. support_resistance_reversal(m) = AlphaSignal(long, short, c)
  BY <1>1, <1>4 DEF support_resistance_reversal, AlphaSignal
<1>6. /\ short <=> near_low(k, 60) /\ k.zscore <= -75 /\ k.return_1 > 0
      /\ long <=> near_high(k, 60) /\ k.zscore >= 75 /\ k.return_1 < 0
  BY <1>4, AbsIs DEF near_high, near_low, Seen, Mirrored
<1>7. support_resistance_reversal(k) = AlphaSignal(short, long, c)
  BY <1>1, <1>3, <1>6 DEF support_resistance_reversal, AlphaSignal
<1>8. ~(long /\ short)
  BY <1>4 DEF near_high, near_low, Seen
<1> QED BY <1>2, <1>5, <1>7, <1>8, SignalIs, SignalsOpposed

LEMMA MarketStructure ==
  ASSUME NEW m, Seen(m), NEW k, Mirrored(k, m)
  PROVE  Proposal(market_structure(m)) /\ Opposed(market_structure(k), market_structure(m))
<1>1. PICK c : c = Least(9000, 5500 + 35 * Abs(m.trend))
  OBVIOUS
<1>2. c \in Nat /\ c >= 4000
  <2>1. Abs(m.trend) \in Nat
    BY AbsIs DEF Seen, Least
  <2>2. PICK x \in Nat : x = Abs(m.trend)
    BY <2>1
  <2> QED BY <1>1, <2>2 DEF Least
<1>3. Abs(k.trend) = Abs(m.trend)
  BY AbsIs DEF Seen, Mirrored
<1>4. PICK long \in BOOLEAN, short \in BOOLEAN :
        /\ long <=> m.trend > 30 /\ m.return_5 > 0 /\ m.return_20 > 0 /\ m.above_ema20 >= 0
                    /\ m.zscore < 250
        /\ short <=> m.trend < -30 /\ m.return_5 < 0 /\ m.return_20 < 0
                     /\ m.above_ema20 <= 0 /\ m.zscore > -250
  BY Zenon
<1>5. market_structure(m) = AlphaSignal(long, short, c)
  BY <1>1, <1>4 DEF market_structure, AlphaSignal
<1>6. /\ short <=> k.trend > 30 /\ k.return_5 > 0 /\ k.return_20 > 0 /\ k.above_ema20 >= 0
                   /\ k.zscore < 250
      /\ long <=> k.trend < -30 /\ k.return_5 < 0 /\ k.return_20 < 0 /\ k.above_ema20 <= 0
                  /\ k.zscore > -250
  BY <1>4 DEF Seen, Mirrored
<1>7. market_structure(k) = AlphaSignal(short, long, c)
  BY <1>1, <1>3, <1>6 DEF market_structure, AlphaSignal
<1>8. ~(long /\ short)
  BY <1>4 DEF Seen
<1> QED BY <1>2, <1>5, <1>7, <1>8, SignalIs, SignalsOpposed

\* All ten of them.
LEMMA TenStrategies ==
  ASSUME NEW m, Seen(m), NEW k, Mirrored(k, m)
  PROVE  /\ DOMAIN strategies(m) = 1..10
         /\ \A i \in 1..10 : Proposal(strategies(m)[i]) /\ Opposed(strategies(k)[i], strategies(m)[i])
<1>1. DOMAIN strategies(m) = 1..10
  BY DEF strategies
<1> DEFINE Fits(i) == Proposal(strategies(m)[i]) /\ Opposed(strategies(k)[i], strategies(m)[i])
<1>2. Fits(1)
  <2>1. strategies(m)[1] = trend_following(m) /\ strategies(k)[1] = trend_following(k)
    BY DEF strategies
  <2> QED BY <2>1, TrendFollowing
<1>3. Fits(2)
  <2>1. strategies(m)[2] = momentum(m) /\ strategies(k)[2] = momentum(k)
    BY DEF strategies
  <2> QED BY <2>1, Momentum
<1>4. Fits(3)
  <2>1. strategies(m)[3] = breakout(m) /\ strategies(k)[3] = breakout(k)
    BY DEF strategies
  <2> QED BY <2>1, Breakout
<1>5. Fits(4)
  <2>1. strategies(m)[4] = mean_reversion(m) /\ strategies(k)[4] = mean_reversion(k)
    BY DEF strategies
  <2> QED BY <2>1, MeanReversion
<1>6. Fits(5)
  <2>1. strategies(m)[5] = funding_basis(m) /\ strategies(k)[5] = funding_basis(k)
    BY DEF strategies
  <2> QED BY <2>1, FundingBasis
<1>7. Fits(6)
  <2>1. strategies(m)[6] = trend_pullback(m) /\ strategies(k)[6] = trend_pullback(k)
    BY DEF strategies
  <2> QED BY <2>1, TrendPullback
<1>8. Fits(7)
  <2>1. strategies(m)[7] = breakout_retest(m) /\ strategies(k)[7] = breakout_retest(k)
    BY DEF strategies
  <2> QED BY <2>1, BreakoutRetest
<1>9. Fits(8)
  <2>1. strategies(m)[8] = liquidity_sweep(m) /\ strategies(k)[8] = liquidity_sweep(k)
    BY DEF strategies
  <2> QED BY <2>1, LiquiditySweep
<1>10. Fits(9)
  <2>1. /\ strategies(m)[9] = support_resistance_reversal(m)
        /\ strategies(k)[9] = support_resistance_reversal(k)
    BY DEF strategies
  <2> QED BY <2>1, Reversal
<1>11. Fits(10)
  <2>1. strategies(m)[10] = market_structure(m) /\ strategies(k)[10] = market_structure(k)
    BY DEF strategies
  <2> QED BY <2>1, MarketStructure
<1>12. \A i \in 1..10 : i \in {1, 2, 3, 4, 5, 6, 7, 8, 9, 10}
  OBVIOUS
<1> QED BY <1>1, <1>2, <1>3, <1>4, <1>5, <1>6, <1>7, <1>8, <1>9, <1>10, <1>11, <1>12

\* No factor of a regime silences a strategy.
LEMMA FactorsAreLarge ==
  ASSUME NEW r \in Regimes, NEW i \in 1..10
  PROVE  REGIME_FIT_MULTIPLIERS[r][i] \in 60..140
<1>1. r \in {"BULL", "BEAR", "RANGE", "HIGH_VOL", "EXTREME_RISK"}
  BY DEF Regimes, REGIME_FIT_MULTIPLIERS
<1>2. CASE r = "BULL"
  BY <1>2 DEF REGIME_FIT_MULTIPLIERS
<1>3. CASE r = "BEAR"
  BY <1>3 DEF REGIME_FIT_MULTIPLIERS
<1>4. CASE r = "RANGE"
  BY <1>4 DEF REGIME_FIT_MULTIPLIERS
<1>5. CASE r = "HIGH_VOL"
  BY <1>5 DEF REGIME_FIT_MULTIPLIERS
<1>6. CASE r = "EXTREME_RISK"
  BY <1>6 DEF REGIME_FIT_MULTIPLIERS
<1> QED BY <1>1, <1>2, <1>3, <1>4, <1>5, <1>6

LEMMA FitIs ==
  ASSUME NEW m, NEW r \in Regimes, NEW i \in 1..10, NEW a, Proposal(a)
  PROVE  /\ fit(m, i, a.confidence, r) \in Nat
         /\ fit(m, i, a.confidence, r) <= 10000
         /\ fit(m, i, a.confidence, r) > 0 <=> a.side # "NO_TRADE"
<1>1. PICK mult \in 60..140 : mult = REGIME_FIT_MULTIPLIERS[r][i]
  BY FactorsAreLarge
<1>2. PICK scaled : scaled = IF i = 5 /\ funding_dislocation(m) THEN (mult * 3) \div 2 ELSE mult
  OBVIOUS
<1>3. scaled \in Nat /\ scaled >= 60
  <2>1. (mult * 3) \div 2 \in Nat /\ (mult * 3) \div 2 >= 60
    OBVIOUS
  <2> QED BY <1>2, <2>1
<1>4. PICK c : c = a.confidence
  OBVIOUS
<1>5. fit(m, i, c, r) = Least(10000, (c * scaled + 50) \div 100)
  BY <1>1, <1>2 DEF fit
<1>6. c \in Nat /\ (IF a.side = "NO_TRADE" THEN c = 0 ELSE c >= 4000)
  BY <1>4 DEF Proposal, AnySignal
<1>7. PICK p : p = c * scaled
  OBVIOUS
<1>8. p \in Nat /\ (c = 0 => p = 0) /\ (c >= 4000 => p >= 4000)
  <2>1. CASE c = 0
    BY <1>3, <1>7, <2>1
  <2>2. CASE c # 0
    <3>1. PICK d \in Nat : scaled = 1 + d
      <4>1. scaled - 1 \in Nat /\ scaled = 1 + (scaled - 1)
        BY <1>3
      <4> QED BY <4>1
    <3>2. p = c + c * d /\ c * d \in Nat
      BY <1>6, <1>7, <3>1
    <3> QED BY <1>6, <2>2, <3>2
  <2> QED BY <2>1, <2>2
<1>9. (p + 50) \div 100 \in Nat /\ (c = 0 => (p + 50) \div 100 = 0)
      /\ (c >= 4000 => (p + 50) \div 100 > 0)
  BY <1>8
<1>10. fit(m, i, c, r) = Least(10000, (p + 50) \div 100)
  BY <1>5, <1>7
<1>11. fit(m, i, c, r) \in Nat /\ fit(m, i, c, r) <= 10000 /\ (c = 0 => fit(m, i, c, r) = 0)
       /\ (c >= 4000 => fit(m, i, c, r) > 0)
  BY <1>9, <1>10 DEF Least
<1>12. PICK f : f = fit(m, i, c, r)
  OBVIOUS
<1>13. f > 0 <=> a.side # "NO_TRADE"
  BY <1>6, <1>11, <1>12
<1> QED BY <1>4, <1>11, <1>12, <1>13

LEMMA FitMirrored ==
  ASSUME NEW m, Seen(m), NEW k, Mirrored(k, m), NEW i, NEW c, NEW r
  PROVE  fit(k, i, c, r) = fit(m, i, c, r)
<1>1. Abs(k.funding + k.basis) = Abs(m.funding + m.basis)
  <2>1. k.funding + k.basis = -(m.funding + m.basis) /\ m.funding + m.basis \in Int
    BY DEF Seen, Mirrored
  <2> QED BY <2>1, AbsIs
<1>2. funding_dislocation(k) <=> funding_dislocation(m)
  BY <1>1 DEF funding_dislocation, Mirrored
<1>3. CASE funding_dislocation(m)
  BY <1>2, <1>3 DEF fit
<1>4. CASE ~funding_dislocation(m)
  BY <1>2, <1>4 DEF fit
<1> QED BY <1>3, <1>4

LEMMA CandidateIs ==
  ASSUME NEW m, DOMAIN strategies(m) = 1..10, NEW r
  PROVE  /\ DOMAIN candidates(m, r) = 1..10 /\ candidates(m, r) # <<>>
         /\ \A i \in 1..10 :
              candidates(m, r)[i] =
                [side |-> strategies(m)[i].side, confidence |-> strategies(m)[i].confidence,
                 fit |-> fit(m, i, strategies(m)[i].confidence, r)]
<1>1. /\ DOMAIN candidates(m, r) = 1..10
      /\ \A i \in 1..10 :
           candidates(m, r)[i] =
             [side |-> strategies(m)[i].side, confidence |-> strategies(m)[i].confidence,
              fit |-> fit(m, i, strategies(m)[i].confidence, r)]
  BY DEF candidates
<1>2. 1 \in 1..10 /\ 1 \notin DOMAIN <<>>
  OBVIOUS
<1> QED BY <1>1, <1>2

\* The first of the largest.
LEMMA BestIs ==
  ASSUME NEW cs, DOMAIN cs = 1..10, \A i \in 1..10 : cs[i].fit \in Nat /\ cs[i].fit <= 10000
  PROVE  Best(cs) \in 1..10 /\ \A i \in 1..10 : cs[i].fit <= cs[Best(cs)].fit
<1> DEFINE T == {10000 - cs[i].fit : i \in 1..10}
<1>1. T \in SUBSET Nat /\ T # {}
  <2>1. 1 \in 1..10
    OBVIOUS
  <2>2. \A i \in 1..10 : 10000 - cs[i].fit \in Nat
    OBVIOUS
  <2> QED BY <2>1, <2>2
<1>2. PICK t \in T : \A u \in T : t <= u
  <2> HIDE DEF T
  <2> QED BY <1>1, LeastNumber
<1>3. PICK a \in 1..10 : t = 10000 - cs[a].fit
  BY <1>2
<1>4. \A i \in 1..10 : cs[i].fit <= cs[a].fit
  <2> SUFFICES ASSUME NEW i \in 1..10 PROVE cs[i].fit <= cs[a].fit
    OBVIOUS
  <2>1. 10000 - cs[a].fit <= 10000 - cs[i].fit
    BY <1>2, <1>3
  <2> QED BY <2>1
<1> DEFINE U == {i \in 1..10 : cs[i].fit = cs[a].fit}
<1>5. U \in SUBSET Nat /\ U # {}
  OBVIOUS
<1>6. PICK b \in U : \A u \in U : b <= u
  <2> HIDE DEF U
  <2> QED BY <1>5, LeastNumber
<1>7. b \in 1..10 /\ cs[b].fit = cs[a].fit
  BY <1>6
<1>8. ASSUME NEW j \in 1..(b - 1) PROVE cs[j].fit < cs[b].fit
  <2>1. j \in 1..10 /\ j < b
    BY <1>7
  <2>2. cs[j].fit # cs[a].fit
    BY <1>6, <1>7, <2>1
  <2> QED BY <1>4, <1>7, <2>1, <2>2
<1> DEFINE P(i) == /\ \A j \in DOMAIN cs : cs[j].fit <= cs[i].fit
                   /\ \A j \in 1..(i - 1) : cs[j].fit < cs[i].fit
<1>9. b \in DOMAIN cs /\ P(b)
  BY <1>4, <1>7, <1>8
<1>10. Best(cs) = CHOOSE i \in DOMAIN cs : P(i)
  BY DEF Best
<1>11. Best(cs) \in DOMAIN cs /\ P(Best(cs))
  <2> HIDE DEF P
  <2> QED BY <1>9, <1>10
<1> QED BY <1>11

-----------------------------------------------------------------------------
(* The evidence as it is built.                                            *)

SameView(k, m) ==
  /\ k.trend = m.trend /\ k.return_1 = m.return_1 /\ k.return_5 = m.return_5
  /\ k.return_20 = m.return_20 /\ k.above_ema20 = m.above_ema20 /\ k.zscore = m.zscore
  /\ k.above_high = m.above_high /\ k.above_low = m.above_low
  /\ k.volume_ratio = m.volume_ratio /\ k.funding = m.funding /\ k.basis = m.basis
  /\ k.derivatives = m.derivatives

\* A market that was considered, whatever its volatility has become.
Considered ==
  /\ market \in Features /\ market.above_high <= market.above_low
  /\ \A v \in Volatility : Candles([market EXCEPT !.volatility = v]) \subseteq Seq(Row)
  /\ Candles(market) \subseteq Seq(Row)

EvidenceInv ==
  /\ Considered
  /\ package.regime # "none" => given \in Seq(Row) /\ package.bars = Ingested(given)
  /\ package.candidates # <<>> =>
       /\ package.regime \in Regimes /\ package.best = Best(package.candidates)
       /\ \E m : SameView(m, market) /\ package.candidates = candidates(m, package.regime)

LEMMA VolatilityAside ==
  ASSUME NEW m \in Features, NEW v \in Volatility
  PROVE  /\ [m EXCEPT !.volatility = v] \in Features /\ SameView([m EXCEPT !.volatility = v], m)
         /\ \A w \in Volatility :
              [[m EXCEPT !.volatility = v] EXCEPT !.volatility = w] = [m EXCEPT !.volatility = w]
         /\ m.volatility \in Volatility /\ m = [m EXCEPT !.volatility = m.volatility]
<1>1. [m EXCEPT !.volatility = v] \in Features
  BY DEF Features
<1>2. SameView([m EXCEPT !.volatility = v], m)
  BY DEF Features, SameView
<1>3. \A w \in Volatility :
        [[m EXCEPT !.volatility = v] EXCEPT !.volatility = w] = [m EXCEPT !.volatility = w]
  OBVIOUS
<1>4. m.volatility \in Volatility
  BY DEF Features
<1>5. m = [m EXCEPT !.volatility = m.volatility]
  <2>1. m = [x \in DOMAIN m |-> m[x]]
    BY DEF Features
  <2> QED BY <2>1
<1> QED BY <1>1, <1>2, <1>3, <1>4, <1>5

LEMMA EvidenceStart == EvidenceInit => EvidenceInv
<1> SUFFICES ASSUME EvidenceInit PROVE EvidenceInv
  OBVIOUS
<1>1. market \in Markets /\ package.regime = "none" /\ package.candidates = <<>>
  BY DEF EvidenceInit, NoPackage
<1>2. /\ market \in Features /\ market.above_high <= market.above_low
      /\ \A v \in Volatility : Candles([market EXCEPT !.volatility = v]) \subseteq Seq(Row)
  BY <1>1, MarketsAssumption
<1>3. market.volatility \in Volatility
  BY <1>2 DEF Features
<1>4. market = [market EXCEPT !.volatility = market.volatility]
  BY <1>2, <1>3, VolatilityAside
<1>5. Candles([market EXCEPT !.volatility = market.volatility]) \subseteq Seq(Row)
  BY <1>2, <1>3
<1>6. Candles(market) \subseteq Seq(Row)
  BY <1>4, <1>5
<1> QED BY <1>1, <1>2, <1>6 DEF EvidenceInv, Considered

LEMMA EvidenceKept == ASSUME EvidenceInv, UNCHANGED evidenceVars PROVE EvidenceInv'
BY DEF EvidenceInv, evidenceVars, Considered

LEMMA ClassifiedIs == ASSUME NEW m, NEW hist PROVE classify(m, hist) \in Regimes
BY DEF classify, Regimes, REGIME_FIT_MULTIPLIERS

LEMMA EvidenceStep == ASSUME EvidenceInv, EvidenceNext PROVE EvidenceInv'
<1>1. Considered
  BY DEF EvidenceInv
<1>2. CASE BuildsNothing
  <2>1. PICK c \in Candles(market) :
          given' = c /\ package' = [NoPackage EXCEPT !.regime = "UNKNOWN", !.bars = Ingested(c)]
    BY <1>2 DEF BuildsNothing
  <2>2. package'.bars = Ingested(c) /\ package'.candidates = <<>>
    BY <2>1 DEF NoPackage
  <2>3. market' = market /\ c \in Seq(Row)
    BY <1>1, <1>2 DEF BuildsNothing, Considered
  <2> QED BY <1>1, <2>1, <2>2, <2>3 DEF EvidenceInv, Considered
<1>3. CASE build
  <2>1. PICK c \in Candles(market) :
          /\ given' = c
          /\ package' = [regime |-> classify(market, vol_hist'),
                         candidates |-> candidates(market, classify(market, vol_hist')),
                         best |-> Best(candidates(market, classify(market, vol_hist'))),
                         bars |-> Ingested(c)]
    BY <1>3 DEF build
  <2>2. PICK r \in Regimes : r = classify(market, vol_hist')
    BY ClassifiedIs
  <2>3. /\ package'.regime = r /\ package'.candidates = candidates(market, r)
        /\ package'.best = Best(candidates(market, r)) /\ package'.bars = Ingested(c)
    BY <2>1, <2>2
  <2>4. market' = market /\ c \in Seq(Row)
    BY <1>1, <1>3 DEF build, Considered
  <2>5. SameView(market, market)
    BY DEF SameView
  <2> QED BY <1>1, <2>1, <2>3, <2>4, <2>5 DEF EvidenceInv, Considered
<1>4. CASE VolatilityMoves
  <2>1. PICK v \in Volatility : market' = [market EXCEPT !.volatility = v]
    BY <1>4 DEF VolatilityMoves
  <2>2. UNCHANGED <<given, package>>
    BY <1>4 DEF VolatilityMoves
  <2>3. market \in Features
    BY <1>1 DEF Considered
  <2>4. market' \in Features /\ SameView(market', market)
        /\ \A w \in Volatility : [market' EXCEPT !.volatility = w] = [market EXCEPT !.volatility = w]
    BY <2>1, <2>3, VolatilityAside
  <2>5. Considered'
    BY <1>1, <2>1, <2>4 DEF Considered, SameView
  <2>6. ASSUME NEW m, SameView(m, market) PROVE SameView(m, market')
    BY <2>4, <2>6 DEF SameView
  <2> QED BY <2>2, <2>5, <2>6 DEF EvidenceInv
<1> QED BY <1>2, <1>3, <1>4 DEF EvidenceNext

LEMMA CandlesCounted == EvidenceInv => EveryCandleCounts
BY EveryBar DEF EvidenceInv, EveryCandleCounts

\* What there is of a market that was built.
LEMMA BuiltIs ==
  ASSUME EvidenceInv, package.candidates # <<>>
  PROVE  \E m : /\ Seen(m) /\ Mirrored(Mirror(market), m) /\ package.regime \in Regimes
                /\ package.best = Best(package.candidates)
                /\ package.candidates = candidates(m, package.regime)
<1>1. PICK m : SameView(m, market) /\ package.candidates = candidates(m, package.regime)
  BY DEF EvidenceInv
<1>2. Seen(market) /\ Mirrored(Mirror(market), market)
  BY MirrorIs DEF EvidenceInv, Considered
<1>3. Seen(m)
  BY <1>1, <1>2 DEF SameView, Seen
<1>4. Mirrored(Mirror(market), m)
  BY <1>1, <1>2 DEF SameView, Mirrored
<1> QED BY <1>1, <1>3, <1>4 DEF EvidenceInv

LEMMA MirroredImage == EvidenceInv => MirrorImage
<1> SUFFICES ASSUME EvidenceInv, package.candidates # <<>>, NEW i \in DOMAIN package.candidates
             PROVE  candidates(Mirror(market), package.regime)[i]
                      = [package.candidates[i] EXCEPT !.side = Opposite[package.candidates[i].side]]
  BY DEF MirrorImage
<1>1. PICK m : /\ Seen(m) /\ Mirrored(Mirror(market), m)
               /\ package.candidates = candidates(m, package.regime)
  BY BuiltIs
<1>2. PICK k, r : k = Mirror(market) /\ r = package.regime
  OBVIOUS
<1>3. DOMAIN strategies(m) = 1..10 /\ DOMAIN strategies(k) = 1..10
  <2>1. DOMAIN strategies(k) = 1..10
    BY DEF strategies
  <2> QED BY <1>1, <2>1, TenStrategies
<1>4. i \in 1..10
  <2>1. DOMAIN candidates(m, r) = 1..10
    BY <1>3, CandidateIs
  <2> QED BY <1>1, <1>2, <2>1
<1>5. Opposed(strategies(k)[i], strategies(m)[i])
  BY <1>1, <1>2, <1>4, TenStrategies
<1>6. PICK a, b : a = strategies(m)[i] /\ b = strategies(k)[i]
  OBVIOUS
<1>7. candidates(m, r)[i] = [side |-> a.side, confidence |-> a.confidence,
                             fit |-> fit(m, i, a.confidence, r)]
  BY <1>3, <1>4, <1>6, CandidateIs
<1>8. candidates(k, r)[i] = [side |-> b.side, confidence |-> b.confidence,
                             fit |-> fit(k, i, b.confidence, r)]
  BY <1>3, <1>4, <1>6, CandidateIs
<1>9. b.side = Opposite[a.side] /\ b.confidence = a.confidence
  BY <1>5, <1>6 DEF Opposed
<1>10. fit(k, i, b.confidence, r) = fit(m, i, a.confidence, r)
  BY <1>1, <1>2, <1>9, FitMirrored
<1>11. candidates(k, r)[i] = [candidates(m, r)[i] EXCEPT !.side = Opposite[candidates(m, r)[i].side]]
  BY <1>7, <1>8, <1>9, <1>10
<1> QED BY <1>1, <1>2, <1>11

LEMMA DominantTrades == EvidenceInv => DominantCandidateTrades
<1> SUFFICES ASSUME EvidenceInv, NEW i \in DOMAIN package.candidates,
                    package.candidates[i].side # "NO_TRADE"
             PROVE  package.candidates[package.best].side # "NO_TRADE"
  BY DEF DominantCandidateTrades
<1>1. package.candidates # <<>>
  OBVIOUS
<1>2. PICK m : /\ Seen(m) /\ Mirrored(Mirror(market), m) /\ package.regime \in Regimes
               /\ package.best = Best(package.candidates)
               /\ package.candidates = candidates(m, package.regime)
  BY <1>1, BuiltIs
<1>3. PICK cs, best, r : cs = package.candidates /\ best = package.best /\ r = package.regime
  OBVIOUS
<1>4. DOMAIN strategies(m) = 1..10 /\ \A j \in 1..10 : Proposal(strategies(m)[j])
  BY <1>2, TenStrategies
<1>5. DOMAIN cs = 1..10
  <2>1. DOMAIN candidates(m, r) = 1..10
    BY <1>4, CandidateIs
  <2> QED BY <1>2, <1>3, <2>1
<1>6. ASSUME NEW j \in 1..10
      PROVE  /\ cs[j].fit \in Nat /\ cs[j].fit <= 10000
             /\ cs[j].fit > 0 <=> cs[j].side # "NO_TRADE"
  <2>1. PICK a : a = strategies(m)[j]
    OBVIOUS
  <2>2. candidates(m, r)[j] = [side |-> a.side, confidence |-> a.confidence,
                               fit |-> fit(m, j, a.confidence, r)]
    BY <1>4, <2>1, CandidateIs
  <2>3. cs[j].side = a.side /\ cs[j].fit = fit(m, j, a.confidence, r)
    BY <1>2, <1>3, <2>2
  <2>4. Proposal(a)
    BY <1>4, <2>1
  <2>5. r \in Regimes
    BY <1>2, <1>3
  <2> HIDE <1>4, <1>2
  <2>6. /\ fit(m, j, a.confidence, r) \in Nat /\ fit(m, j, a.confidence, r) <= 10000
        /\ fit(m, j, a.confidence, r) > 0 <=> a.side # "NO_TRADE"
    BY <2>4, <2>5, FitIs
  <2> QED BY <2>3, <2>6
<1>7. best \in 1..10 /\ \A j \in 1..10 : cs[j].fit <= cs[best].fit
  BY <1>2, <1>3, <1>5, <1>6, BestIs
<1>8. i \in 1..10 /\ cs[i].fit > 0
  BY <1>3, <1>5, <1>6
<1>9. cs[i].fit \in Nat /\ cs[best].fit \in Nat /\ cs[i].fit <= cs[best].fit
  BY <1>6, <1>7, <1>8
<1>10. cs[best].fit > 0
  BY <1>8, <1>9
<1> QED BY <1>3, <1>6, <1>7, <1>10

LEMMA FamilyAgrees == EvidenceInv => TrendFamilyAgrees
<1> SUFFICES ASSUME EvidenceInv, package.candidates # <<>>
             PROVE  Cardinality({package.candidates[i].side : i \in {1, 6, 10}} \ {"NO_TRADE"}) <= 1
  BY DEF TrendFamilyAgrees
<1>1. PICK m : /\ Seen(m) /\ Mirrored(Mirror(market), m)
               /\ package.candidates = candidates(m, package.regime)
  BY BuiltIs
<1>2. DOMAIN strategies(m) = 1..10
  BY <1>1, TenStrategies
<1>3. /\ package.candidates[1].side = trend_following(m).side
      /\ package.candidates[6].side = trend_pullback(m).side
      /\ package.candidates[10].side = market_structure(m).side
  <2>1. ASSUME NEW i \in 1..10 PROVE package.candidates[i].side = strategies(m)[i].side
    <3>1. PICK r : r = package.regime
      OBVIOUS
    <3>2. PICK p : p = strategies(m)[i]
      OBVIOUS
    <3>3. candidates(m, r)[i] = [side |-> p.side, confidence |-> p.confidence,
                                 fit |-> fit(m, i, p.confidence, r)]
      BY <1>2, <3>2, CandidateIs
    <3>4. candidates(m, r)[i].side = p.side
      BY <3>3
    <3> QED BY <1>1, <3>1, <3>2, <3>4
  <2>2. /\ strategies(m)[1] = trend_following(m) /\ strategies(m)[6] = trend_pullback(m)
        /\ strategies(m)[10] = market_structure(m)
    BY DEF strategies
  <2>3. 1 \in 1..10 /\ 6 \in 1..10 /\ 10 \in 1..10
    OBVIOUS
  <2> QED BY <2>1, <2>2, <2>3
<1>4. \E side \in {"LONG", "SHORT"} :
        {trend_following(m).side, trend_pullback(m).side, market_structure(m).side}
          \subseteq {side, "NO_TRADE"}
  <2>1. CASE m.trend > 0
    <3>1. /\ trend_following(m).side \in {"LONG", "NO_TRADE"}
          /\ trend_pullback(m).side \in {"LONG", "NO_TRADE"}
          /\ market_structure(m).side \in {"LONG", "NO_TRADE"}
      BY <1>1, <2>1 DEF Seen, trend_following, trend_pullback, market_structure, AlphaSignal
    <3> QED BY <3>1
  <2>2. CASE ~(m.trend > 0)
    <3>1. /\ trend_following(m).side \in {"SHORT", "NO_TRADE"}
          /\ trend_pullback(m).side \in {"SHORT", "NO_TRADE"}
          /\ market_structure(m).side \in {"SHORT", "NO_TRADE"}
      BY <1>1, <2>2 DEF Seen, trend_following, trend_pullback, market_structure, AlphaSignal
    <3> QED BY <3>1
  <2> QED BY <2>1, <2>2
<1>5. PICK side \in {"LONG", "SHORT"} :
        {trend_following(m).side, trend_pullback(m).side, market_structure(m).side}
          \subseteq {side, "NO_TRADE"}
  BY <1>4
<1>6. IsFiniteSet({side}) /\ Cardinality({side}) = 1
  BY FS_Singleton
<1>7. PICK S : S = {package.candidates[i].side : i \in {1, 6, 10}} \ {"NO_TRADE"}
  OBVIOUS
<1>8. S \in SUBSET {side}
  <2>1. ASSUME NEW x \in S PROVE x = side
    <3>1. PICK i \in {1, 6, 10} : x = package.candidates[i].side
      BY <1>7
    <3>2. x # "NO_TRADE"
      BY <1>7
    <3>3. x \in {trend_following(m).side, trend_pullback(m).side, market_structure(m).side}
      BY <1>3, <3>1
    <3> QED BY <1>5, <3>2, <3>3
  <2> QED BY <2>1
<1>9. Cardinality(S) <= Cardinality({side})
  BY <1>6, <1>8, FS_Subset
<1> QED BY <1>6, <1>7, <1>9

-----------------------------------------------------------------------------
(* The windows of the indicators: the newest of the newest.                *)

Priced == {b \in [high : Int, low : Int, close : Int, volume : Nat, readable : BOOLEAN] :
             b.low <= b.close /\ b.close <= b.high}

LEMMA BarsAreCandles == Bars \subseteq Priced /\ Seq(Bars) \subseteq Seq(Priced)
<1>1. Bars \subseteq Priced
  BY IndicatorsAssumption DEF Priced
<1> QED BY <1>1

LEMMA NewestIs ==
  ASSUME NEW E, NEW s \in Seq(E), NEW n \in Nat, n <= Len(s)
  PROVE  /\ Newest(s, n) \in Seq(E) /\ Len(Newest(s, n)) = n /\ DOMAIN Newest(s, n) = 1..n
         /\ \A i \in 1..n : Newest(s, n)[i] = s[Len(s) - n + i] /\ Len(s) - n + i \in 1..Len(s)
<1>1. Len(s) \in Nat
  OBVIOUS
<1>2. /\ Len(s) - n + 1 \in Int /\ Len(s) \in Int /\ Len(s) - n + 1 >= 1 /\ Len(s) <= Len(s)
      /\ Len(s) - (Len(s) - n + 1) + 1 = n
  BY <1>1
<1>3. Newest(s, n) = SubSeq(s, Len(s) - n + 1, Len(s))
  BY DEF Newest
<1>4. /\ SubSeq(s, Len(s) - n + 1, Len(s)) \in Seq(E)
      /\ Len(SubSeq(s, Len(s) - n + 1, Len(s))) = n
      /\ \A i \in 1..n : SubSeq(s, Len(s) - n + 1, Len(s))[i] = s[Len(s) - n + i]
  BY <1>1, <1>2
<1>5. PICK t : t = Newest(s, n)
  OBVIOUS
<1>6. t \in Seq(E) /\ Len(t) = n /\ \A i \in 1..n : t[i] = s[Len(s) - n + i]
  BY <1>3, <1>4, <1>5
<1>7. DOMAIN t = 1..n
  BY <1>6
<1>8. \A i \in 1..n : Len(s) - n + i \in 1..Len(s)
  BY <1>1
<1> QED BY <1>5, <1>6, <1>7, <1>8

\* A sequence that ends as another does, ends in the same window.
LEMMA SameWindow ==
  ASSUME NEW E, NEW s \in Seq(E), NEW t \in Seq(E), NEW n \in Nat, n <= Len(s), n <= Len(t),
         \A i \in 1..n : s[Len(s) - n + i] = t[Len(t) - n + i]
  PROVE  Newest(s, n) = Newest(t, n)
<1>1. /\ Newest(s, n) \in Seq(E) /\ Len(Newest(s, n)) = n
      /\ \A i \in 1..n : Newest(s, n)[i] = s[Len(s) - n + i]
  BY NewestIs
<1>2. /\ Newest(t, n) \in Seq(E) /\ Len(Newest(t, n)) = n
      /\ \A i \in 1..n : Newest(t, n)[i] = t[Len(t) - n + i]
  BY NewestIs
<1>3. PICK x, y : x = Newest(s, n) /\ y = Newest(t, n)
  OBVIOUS
<1>4. x \in Seq(E) /\ y \in Seq(E) /\ Len(x) = n /\ Len(y) = n /\ \A i \in 1..n : x[i] = y[i]
  BY <1>1, <1>2, <1>3
<1>5. x = y
  BY <1>4, SeqEqual
<1> QED BY <1>3, <1>5

LEMMA Prices ==
  ASSUME NEW c \in Seq(Priced)
  PROVE  /\ close(c) \in Seq(Int) /\ Len(close(c)) = Len(c) /\ \A i \in 1..Len(c) : close(c)[i] = c[i].close
         /\ high(c) \in Seq(Int) /\ Len(high(c)) = Len(c) /\ \A i \in 1..Len(c) : high(c)[i] = c[i].high
         /\ low(c) \in Seq(Int) /\ Len(low(c)) = Len(c) /\ \A i \in 1..Len(c) : low(c)[i] = c[i].low
         /\ typical(c) \in Seq(Int) /\ Len(typical(c)) = Len(c)
         /\ \A i \in 1..Len(c) : typical(c)[i] = c[i].high + c[i].low + c[i].close
<1>1. Len(c) \in Nat /\ DOMAIN c = 1..Len(c) /\ \A i \in 1..Len(c) : c[i] \in Priced
  OBVIOUS
<1>2. \A i \in 1..Len(c) : c[i].high \in Int /\ c[i].low \in Int /\ c[i].close \in Int
  BY <1>1 DEF Priced
<1>3. close(c) = [i \in 1..Len(c) |-> c[i].close]
  BY <1>1 DEF close, Each
<1>4. high(c) = [i \in 1..Len(c) |-> c[i].high]
  BY <1>1 DEF high, Each
<1>5. low(c) = [i \in 1..Len(c) |-> c[i].low]
  BY <1>1 DEF low, Each
<1>6. typical(c) = [i \in 1..Len(c) |-> c[i].high + c[i].low + c[i].close]
  BY <1>1 DEF typical, Each
<1> QED BY <1>1, <1>2, <1>3, <1>4, <1>5, <1>6

LEMMA Moved ==
  ASSUME NEW v \in Seq(Int), Len(v) > 0
  PROVE  /\ Changes(v) \in Seq(Int) /\ Len(Changes(v)) = Len(v) - 1
         /\ \A i \in 1..(Len(v) - 1) : Changes(v)[i] = v[i + 1] - v[i]
<1>1. Len(v) - 1 \in Nat /\ \A i \in 1..Len(v) : v[i] \in Int
  OBVIOUS
<1>2. \A i \in 1..(Len(v) - 1) : v[i + 1] - v[i] \in Int
  BY <1>1
<1> QED BY <1>1, <1>2 DEF Changes

LEMMA GreatestOfThree ==
  ASSUME NEW x \in Int, NEW y \in Int, NEW z \in Int
  PROVE  Max({x, y, z}) \in Int /\ Max({x, y, z}) >= x
<1> DEFINE t == {x, y, z}
<1>1. PICK n \in t : \A k \in t : k <= n
  <2>1. CASE x >= y /\ x >= z
    BY <2>1
  <2>2. CASE y >= x /\ y >= z
    BY <2>2
  <2>3. CASE z >= x /\ z >= y
    BY <2>3
  <2> QED BY <2>1, <2>2, <2>3
<1>2. t \in SUBSET Int /\ x \in t
  OBVIOUS
<1>3. Max(t) = n
  <2> HIDE DEF t
  <2> QED BY <1>1, <1>2, MaxIs
<1> QED BY <1>1, <1>3

LEMMA MagnitudeIs == ASSUME NEW x \in Int PROVE Magnitude(x) \in Nat
BY DEF Magnitude

LEMMA TrueRanges ==
  ASSUME NEW c \in Seq(Priced)
  PROVE  /\ _true_ranges(c) \in Seq(Nat) /\ Len(_true_ranges(c)) = Len(c)
         /\ \A i \in 1..Len(c) :
              _true_ranges(c)[i] =
                IF i = 1 THEN c[1].high - c[1].low
                ELSE Max({c[i].high - c[i].low, Magnitude(c[i].high - c[i - 1].close),
                          Magnitude(c[i].low - c[i - 1].close)})
<1>1. Len(c) \in Nat /\ DOMAIN c = 1..Len(c) /\ \A i \in 1..Len(c) : c[i] \in Priced
  OBVIOUS
<1>2. \A i \in 1..Len(c) : /\ c[i].high \in Int /\ c[i].low \in Int /\ c[i].close \in Int
                           /\ c[i].low <= c[i].close /\ c[i].close <= c[i].high
  BY <1>1 DEF Priced
<1> DEFINE term(i) == IF i = 1 THEN c[1].high - c[1].low
                      ELSE Max({c[i].high - c[i].low, Magnitude(c[i].high - c[i - 1].close),
                                Magnitude(c[i].low - c[i - 1].close)})
<1>3. ASSUME NEW i \in 1..Len(c) PROVE term(i) \in Nat
  <2>1. CASE i = 1
    BY <1>2, <2>1
  <2>2. CASE i # 1
    <3>1. i - 1 \in 1..Len(c)
      BY <2>2
    <3>2. /\ c[i].high - c[i].low \in Nat
          /\ Magnitude(c[i].high - c[i - 1].close) \in Int
          /\ Magnitude(c[i].low - c[i - 1].close) \in Int
      <4>1. PICK j \in 1..Len(c) : j = i - 1
        BY <3>1
      <4>2. c[j].close \in Int
        BY <1>2
      <4>3. /\ c[i].high \in Int /\ c[i].low \in Int /\ c[i].low <= c[i].high
        BY <1>2
      <4>4. c[i].high - c[j].close \in Int /\ c[i].low - c[j].close \in Int /\ c[i].high - c[i].low \in Nat
        BY <4>2, <4>3
      <4> QED BY <4>1, <4>4, MagnitudeIs
    <3>3. PICK x, y, z : /\ x = c[i].high - c[i].low
                         /\ y = Magnitude(c[i].high - c[i - 1].close)
                         /\ z = Magnitude(c[i].low - c[i - 1].close)
      OBVIOUS
    <3>4. Max({x, y, z}) \in Int /\ Max({x, y, z}) >= x
      BY <3>2, <3>3, GreatestOfThree
    <3> QED BY <2>2, <3>2, <3>3, <3>4
  <2> QED BY <2>1, <2>2
<1>4. _true_ranges(c) = [i \in 1..Len(c) |-> term(i)]
  BY <1>1 DEF _true_ranges
<1> HIDE DEF term
<1>5. _true_ranges(c) \in Seq(Nat) /\ Len(_true_ranges(c)) = Len(c)
      /\ \A i \in 1..Len(c) : _true_ranges(c)[i] = term(i)
  BY <1>1, <1>3, <1>4
<1> QED BY <1>5 DEF term

\* What the windowed indicators are calculated from.
LEMMA SameWindows ==
  ASSUME NEW c \in Seq(Priced), NEW k \in (Period + 1)..Len(c)
  PROVE  LET d == Newest(c, k) IN
         /\ d \in Seq(Priced) /\ Len(d) = k /\ \A i \in 1..k : d[i] = c[Len(c) - k + i]
         /\ Newest(d, Period) = Newest(c, Period) /\ Newest(d, Period + 1) = Newest(c, Period + 1)
         /\ Newest(close(d), Period) = Newest(close(c), Period)
         /\ Newest(typical(d), Period) = Newest(typical(c), Period)
         /\ Newest(Changes(close(d)), Period) = Newest(Changes(close(c)), Period)
         /\ Newest(_true_ranges(d), Period) = Newest(_true_ranges(c), Period)
<1>1. /\ Period \in Nat /\ Period >= 1 /\ Len(c) \in Nat /\ k \in Nat /\ k > Period /\ k <= Len(c)
      /\ Period + 1 \in Nat
  BY IndicatorsAssumption
<1>2. PICK P : P = Period
  OBVIOUS
<1>3. PICK d : d = Newest(c, k)
  OBVIOUS
<1>4. d \in Seq(Priced) /\ Len(d) = k
      /\ \A i \in 1..k : d[i] = c[Len(c) - k + i] /\ Len(c) - k + i \in 1..Len(c)
  BY <1>1, <1>3, NewestIs
<1>5. ASSUME NEW n \in Nat, n <= k PROVE Newest(d, n) = Newest(c, n)
  <2>1. ASSUME NEW i \in 1..n PROVE d[Len(d) - n + i] = c[Len(c) - n + i]
    <3>1. Len(d) - n + i \in 1..k /\ Len(c) - k + (Len(d) - n + i) = Len(c) - n + i
      BY <1>1, <1>4, <1>5
    <3> QED BY <1>4, <3>1
  <2>2. n <= Len(d) /\ n <= Len(c)
    BY <1>1, <1>4, <1>5
  <2> QED BY <1>4, <2>1, <2>2, SameWindow
<1>6. ASSUME NEW i \in 1..P
      PROVE  /\ k - P + i \in 1..k /\ Len(c) - P + i \in 1..Len(c)
             /\ k - P + i - 1 \in 1..k /\ Len(c) - P + i - 1 \in 1..Len(c)
             /\ d[k - P + i] = c[Len(c) - P + i] /\ d[k - P + i - 1] = c[Len(c) - P + i - 1]
             /\ k - P + i # 1 /\ Len(c) - P + i # 1
  <2>1. /\ k - P + i \in 1..k /\ Len(c) - P + i \in 1..Len(c)
        /\ k - P + i - 1 \in 1..k /\ Len(c) - P + i - 1 \in 1..Len(c)
        /\ Len(c) - k + (k - P + i) = Len(c) - P + i
        /\ Len(c) - k + (k - P + i - 1) = Len(c) - P + i - 1
        /\ k - P + i # 1 /\ Len(c) - P + i # 1
    BY <1>1, <1>2
  <2> QED BY <1>4, <2>1
<1>7. P \in Nat /\ P <= k /\ P <= Len(c)
  BY <1>1, <1>2
<1>8. Newest(close(d), P) = Newest(close(c), P)
  <2>1. close(d) \in Seq(Int) /\ Len(close(d)) = k /\ \A i \in 1..k : close(d)[i] = d[i].close
    BY <1>4, Prices
  <2>2. close(c) \in Seq(Int) /\ Len(close(c)) = Len(c) /\ \A i \in 1..Len(c) : close(c)[i] = c[i].close
    BY Prices
  <2>3. \A i \in 1..P : close(d)[k - P + i] = close(c)[Len(c) - P + i]
    BY <1>6, <2>1, <2>2
  <2> QED BY <1>7, <2>1, <2>2, <2>3, SameWindow
<1>9. Newest(typical(d), P) = Newest(typical(c), P)
  <2>1. typical(d) \in Seq(Int) /\ Len(typical(d)) = k
        /\ \A i \in 1..k : typical(d)[i] = d[i].high + d[i].low + d[i].close
    BY <1>4, Prices
  <2>2. typical(c) \in Seq(Int) /\ Len(typical(c)) = Len(c)
        /\ \A i \in 1..Len(c) : typical(c)[i] = c[i].high + c[i].low + c[i].close
    BY Prices
  <2>3. ASSUME NEW i \in 1..P PROVE typical(d)[k - P + i] = typical(c)[Len(c) - P + i]
    <3>1. PICK x, y : x = k - P + i /\ y = Len(c) - P + i
      OBVIOUS
    <3>2. x \in 1..k /\ y \in 1..Len(c) /\ d[x] = c[y]
      BY <1>6, <3>1
    <3>3. typical(d)[x] = d[x].high + d[x].low + d[x].close
      BY <2>1, <3>2
    <3>4. typical(c)[y] = c[y].high + c[y].low + c[y].close
      BY <2>2, <3>2
    <3> QED BY <3>1, <3>2, <3>3, <3>4
  <2> QED BY <1>7, <2>1, <2>2, <2>3, SameWindow
<1>10. Newest(Changes(close(d)), P) = Newest(Changes(close(c)), P)
  <2>1. close(d) \in Seq(Int) /\ Len(close(d)) = k /\ \A i \in 1..k : close(d)[i] = d[i].close
    BY <1>4, Prices
  <2>2. close(c) \in Seq(Int) /\ Len(close(c)) = Len(c) /\ \A i \in 1..Len(c) : close(c)[i] = c[i].close
    BY Prices
  <2>3. /\ Changes(close(d)) \in Seq(Int) /\ Len(Changes(close(d))) = k - 1
        /\ \A i \in 1..(k - 1) : Changes(close(d))[i] = close(d)[i + 1] - close(d)[i]
    <3>1. PICK v : v = close(d)
      OBVIOUS
    <3>2. v \in Seq(Int) /\ Len(v) = k /\ Len(v) > 0
      BY <1>1, <2>1, <3>1
    <3>3. /\ Changes(v) \in Seq(Int) /\ Len(Changes(v)) = Len(v) - 1
          /\ \A i \in 1..(Len(v) - 1) : Changes(v)[i] = v[i + 1] - v[i]
      BY <3>2, Moved
    <3> QED BY <3>1, <3>2, <3>3
  <2>4. /\ Changes(close(c)) \in Seq(Int) /\ Len(Changes(close(c))) = Len(c) - 1
        /\ \A i \in 1..(Len(c) - 1) : Changes(close(c))[i] = close(c)[i + 1] - close(c)[i]
    <3>1. PICK v : v = close(c)
      OBVIOUS
    <3>2. v \in Seq(Int) /\ Len(v) = Len(c) /\ Len(v) > 0
      BY <1>1, <2>2, <3>1
    <3>3. /\ Changes(v) \in Seq(Int) /\ Len(Changes(v)) = Len(v) - 1
          /\ \A i \in 1..(Len(v) - 1) : Changes(v)[i] = v[i + 1] - v[i]
      BY <3>2, Moved
    <3> QED BY <3>1, <3>2, <3>3
  <2>5. ASSUME NEW i \in 1..P
        PROVE  Changes(close(d))[(k - 1) - P + i] = Changes(close(c))[(Len(c) - 1) - P + i]
    <3>1. /\ (k - 1) - P + i \in 1..(k - 1) /\ (Len(c) - 1) - P + i \in 1..(Len(c) - 1)
          /\ (k - 1) - P + i + 1 = k - P + i /\ (Len(c) - 1) - P + i + 1 = Len(c) - P + i
          /\ (k - 1) - P + i = k - P + i - 1 /\ (Len(c) - 1) - P + i = Len(c) - P + i - 1
      <4>1. PICK L, p : L = Len(c) /\ p = i
        OBVIOUS
      <4>2. L \in Nat /\ p \in Nat /\ p >= 1 /\ p <= P /\ k > P /\ k <= L
        BY <1>1, <1>2, <1>7, <4>1
      <4>3. /\ (k - 1) - P + p \in 1..(k - 1) /\ (L - 1) - P + p \in 1..(L - 1)
            /\ (k - 1) - P + p + 1 = k - P + p /\ (L - 1) - P + p + 1 = L - P + p
            /\ (k - 1) - P + p = k - P + p - 1 /\ (L - 1) - P + p = L - P + p - 1
        BY <1>1, <1>7, <4>2
      <4> QED BY <4>1, <4>3
    <3>2. Changes(close(d))[(k - 1) - P + i] = close(d)[k - P + i] - close(d)[k - P + i - 1]
      BY <2>3, <3>1
    <3>3. Changes(close(c))[(Len(c) - 1) - P + i] = close(c)[Len(c) - P + i] - close(c)[Len(c) - P + i - 1]
      BY <2>4, <3>1
    <3>4. close(d)[k - P + i] = close(c)[Len(c) - P + i]
          /\ close(d)[k - P + i - 1] = close(c)[Len(c) - P + i - 1]
      BY <1>6, <2>1, <2>2
    <3> QED BY <3>2, <3>3, <3>4
  <2>6. P <= k - 1 /\ P <= Len(c) - 1
    BY <1>1, <1>2
  <2> QED BY <1>7, <2>3, <2>4, <2>5, <2>6, SameWindow
<1>11. Newest(_true_ranges(d), P) = Newest(_true_ranges(c), P)
  <2>1. /\ _true_ranges(d) \in Seq(Nat) /\ Len(_true_ranges(d)) = k
        /\ \A i \in 1..k : i # 1 =>
              _true_ranges(d)[i] = Max({d[i].high - d[i].low, Magnitude(d[i].high - d[i - 1].close),
                                        Magnitude(d[i].low - d[i - 1].close)})
    BY <1>4, TrueRanges
  <2>2. /\ _true_ranges(c) \in Seq(Nat) /\ Len(_true_ranges(c)) = Len(c)
        /\ \A i \in 1..Len(c) : i # 1 =>
              _true_ranges(c)[i] = Max({c[i].high - c[i].low, Magnitude(c[i].high - c[i - 1].close),
                                        Magnitude(c[i].low - c[i - 1].close)})
    BY TrueRanges
  <2>3. ASSUME NEW i \in 1..P
        PROVE  _true_ranges(d)[k - P + i] = _true_ranges(c)[Len(c) - P + i]
    <3>1. PICK x, y : x = k - P + i /\ y = Len(c) - P + i
      OBVIOUS
    <3>5. PICK a, b : a = d[x] /\ b = d[x - 1]
      OBVIOUS
    <3>6. x \in 1..k /\ y \in 1..Len(c) /\ x # 1 /\ y # 1 /\ a = c[y] /\ b = c[y - 1]
      <4>1. /\ k - P + i \in 1..k /\ Len(c) - P + i \in 1..Len(c) /\ k - P + i # 1
            /\ Len(c) - P + i # 1 /\ d[k - P + i] = c[Len(c) - P + i]
            /\ d[k - P + i - 1] = c[Len(c) - P + i - 1]
        BY <1>6
      <4>2. x - 1 = k - P + i - 1 /\ y - 1 = Len(c) - P + i - 1
        <5>1. x = k - P + i /\ y = Len(c) - P + i /\ Len(c) \in Nat /\ k \in Nat /\ P \in Nat /\ i \in Nat
          BY <1>1, <1>2, <3>1
        <5> QED BY <5>1
      <4>3. d[x - 1] = c[y - 1]
        BY <4>1, <4>2
      <4>4. x \in 1..k /\ y \in 1..Len(c) /\ x # 1 /\ y # 1 /\ d[x] = c[y]
        BY <3>1, <4>1
      <4> QED BY <3>5, <4>3, <4>4
    <3>2. _true_ranges(d)[x] =
            Max({a.high - a.low, Magnitude(a.high - b.close), Magnitude(a.low - b.close)})
      <4>1. _true_ranges(d)[x] = Max({d[x].high - d[x].low, Magnitude(d[x].high - d[x - 1].close),
                                      Magnitude(d[x].low - d[x - 1].close)})
        BY <2>1, <3>6
      <4> QED BY <3>5, <4>1
    <3>4. _true_ranges(c)[y] =
            Max({a.high - a.low, Magnitude(a.high - b.close), Magnitude(a.low - b.close)})
      <4>1. _true_ranges(c)[y] = Max({c[y].high - c[y].low, Magnitude(c[y].high - c[y - 1].close),
                                      Magnitude(c[y].low - c[y - 1].close)})
        BY <2>2, <3>6
      <4> QED BY <3>6, <4>1
    <3> QED BY <3>1, <3>2, <3>4
  <2> QED BY <1>7, <2>1, <2>2, <2>3, SameWindow
<1>12. Newest(d, P) = Newest(c, P) /\ Newest(d, P + 1) = Newest(c, P + 1)
  BY <1>1, <1>2, <1>5
<1> QED BY <1>2, <1>3, <1>4, <1>8, <1>9, <1>10, <1>11, <1>12

LEMMA WholeSequence ==
  ASSUME NEW E, NEW s \in Seq(E) PROVE SubSeq(s, 1, Len(s)) = s
OBVIOUS

\* An indicator of a window, whatever came before the window.
LEMMA Forgets ==
  ASSUME NEW c \in Seq(Priced), NEW k \in (Period + 1)..Len(c)
  PROVE  \A n \in {"sma", "rsi", "atr", "stochastic_k", "mfi", "vwap", "cci", "deviation", "tenkan",
                   "donchian_high", "donchian_low", "momentum"} : Of(Newest(c, k))[n] = Of(c)[n]
<1>1. PICK d : d = Newest(c, k)
  OBVIOUS
<1>2. /\ d \in Seq(Priced) /\ Len(d) = k /\ \A i \in 1..k : d[i] = c[Len(c) - k + i]
      /\ Newest(d, Period) = Newest(c, Period) /\ Newest(d, Period + 1) = Newest(c, Period + 1)
      /\ Newest(close(d), Period) = Newest(close(c), Period)
      /\ Newest(typical(d), Period) = Newest(typical(c), Period)
      /\ Newest(Changes(close(d)), Period) = Newest(Changes(close(c)), Period)
      /\ Newest(_true_ranges(d), Period) = Newest(_true_ranges(c), Period)
  BY <1>1, SameWindows
<1>3. /\ Period \in Nat /\ Period >= 1 /\ Len(c) \in Nat /\ k \in Nat /\ k > Period /\ k <= Len(c)
      /\ ~(Len(d) < Period) /\ ~(Len(d) < Period + 1) /\ ~(Len(c) < Period) /\ ~(Len(c) < Period + 1)
  <2>1. /\ Period \in Nat /\ Period >= 1 /\ Len(c) \in Nat /\ k \in Nat /\ k > Period /\ k <= Len(c)
    BY IndicatorsAssumption
  <2> QED BY <1>2, <2>1
<1>4. /\ Len(close(d)) = Len(d) /\ Len(close(c)) = Len(c)
      /\ Len(_true_ranges(d)) = Len(d) /\ Len(_true_ranges(c)) = Len(c)
  BY <1>2, Prices, TrueRanges
<1>5. _sma(close(d), Period) = _sma(close(c), Period)
  BY <1>2, <1>3, <1>4 DEF _sma
<1>6. _rsi(close(d)) = _rsi(close(c))
  BY <1>2, <1>3, <1>4 DEF _rsi
<1>7. _atr(d) = _atr(c)
  BY <1>2, <1>3, <1>4 DEF _atr, _sma
<1>8. Highest(d) = Highest(c) /\ Lowest(d) = Lowest(c)
  BY <1>2 DEF Highest, Lowest
<1>9. _stochastic_k(d) = _stochastic_k(c)
  <2>1. SubSeq(d, 1, Len(d)) = d /\ SubSeq(c, 1, Len(c)) = c
    BY <1>2, WholeSequence
  <2>2. d[Len(d)] = c[Len(c)]
    BY <1>2, <1>3
  <2>3. InRange(d, Len(d)) = InRange(c, Len(c))
    BY <1>8, <2>1, <2>2 DEF InRange
  <2> QED BY <1>3, <2>3 DEF _stochastic_k
<1>10. _mfi(d) = _mfi(c)
  BY <1>2, <1>3 DEF _mfi
<1>11. _vwap(d) = _vwap(c)
  BY <1>2, <1>3 DEF _vwap
<1>12. _cci(d) = _cci(c)
  BY <1>2, <1>3 DEF _cci
<1>13. Deviation(close(d)) = Deviation(close(c))
  BY <1>2, <1>3, <1>4 DEF Deviation
<1>14. midpoint(d) = midpoint(c)
  BY <1>3, <1>8 DEF midpoint
<1>15. Of(d)["donchian_high"] = Of(c)["donchian_high"] /\ Of(d)["donchian_low"] = Of(c)["donchian_low"]
  BY <1>3, <1>8 DEF Of
<1>16. Of(d)["momentum"] = Of(c)["momentum"]
  <2>1. d[Len(d)] = c[Len(c)] /\ d[Len(d) - Period] = c[Len(c) - Period]
    <3>1. k \in 1..k /\ k - Period \in 1..k /\ Len(c) - k + k = Len(c)
          /\ Len(c) - k + (k - Period) = Len(c) - Period
      BY <1>3
    <3> QED BY <1>2, <3>1
  <2> QED BY <1>3, <2>1 DEF Of
<1>17. /\ Of(d)["sma"] = Of(c)["sma"] /\ Of(d)["rsi"] = Of(c)["rsi"] /\ Of(d)["atr"] = Of(c)["atr"]
       /\ Of(d)["stochastic_k"] = Of(c)["stochastic_k"] /\ Of(d)["mfi"] = Of(c)["mfi"]
       /\ Of(d)["vwap"] = Of(c)["vwap"] /\ Of(d)["cci"] = Of(c)["cci"]
       /\ Of(d)["deviation"] = Of(c)["deviation"] /\ Of(d)["tenkan"] = Of(c)["tenkan"]
  BY <1>5, <1>6, <1>7, <1>9, <1>10, <1>11, <1>12, <1>13, <1>14 DEF Of
<1> QED BY <1>1, <1>15, <1>16, <1>17

-----------------------------------------------------------------------------
(* The indicators are those of the chart.                                  *)

IndicatorsInv == chart \in Seq(Bars) /\ (indicators = Unavailable \/ (Bars # {} /\ indicators = Of(chart)))

LEMMA IndicatorsStart == IndicatorsInit => IndicatorsInv
BY DEF IndicatorsInit, IndicatorsInv

LEMMA IndicatorsKept == ASSUME IndicatorsInv, UNCHANGED indicatorVars PROVE IndicatorsInv'
BY DEF IndicatorsInv, indicatorVars

LEMMA IndicatorsStep == ASSUME IndicatorsInv, calculate_technical_indicators PROVE IndicatorsInv'
<1>1. PICK b \in Bars : LET all == Append(chart, b)
                        IN  /\ chart' = IF Len(all) > MaxChart THEN Newest(all, MaxChart) ELSE all
                            /\ indicators' = Calculated(chart')
  BY DEF calculate_technical_indicators
<1>2. Append(chart, b) \in Seq(Bars)
  BY DEF IndicatorsInv
<1>3. PICK all : all = Append(chart, b)
  OBVIOUS
<1>4. chart' \in Seq(Bars)
  <2>1. CASE Len(all) > MaxChart
    <3>1. MaxChart \in Nat /\ MaxChart <= Len(all) /\ all \in Seq(Bars)
      BY <1>2, <1>3, <2>1, IndicatorsAssumption
    <3>2. Newest(all, MaxChart) \in Seq(Bars)
      BY <3>1, NewestIs
    <3> QED BY <1>1, <1>3, <2>1, <3>2
  <2>2. CASE ~(Len(all) > MaxChart)
    BY <1>1, <1>2, <1>3, <2>2
  <2> QED BY <2>1, <2>2
<1>5. indicators' = Unavailable \/ (Bars # {} /\ indicators' = Of(chart'))
  BY <1>1 DEF Calculated
<1> QED BY <1>4, <1>5 DEF IndicatorsInv, Unavailable, Of

LEMMA WindowsForget == IndicatorsInv => WindowedForget
BY Forgets, BarsAreCandles DEF IndicatorsInv, WindowedForget

-----------------------------------------------------------------------------
(* Sums.                                                                   *)

Summing == [x \in Int \X Int |-> x[1] + x[2]]

LEMMA SumRuns ==
  ASSUME NEW s \in Seq(Int)
  PROVE  \E f : /\ Runs(f, Summing, 0, s) /\ SumOf(s) = f[Len(s)]
                /\ \A k \in 0..Len(s) : f[k] \in Int
<1> DEFINE One(a, b) == a + b
           G(g) == g = [t \in SUBSET DOMAIN s |->
                          IF t = {} THEN 0 ELSE One(g[t \ {Max(t)}], s[Max(t)])]
           h == CHOOSE g : G(g)
<1>1. SumOf(s) = h[DOMAIN s]
  BY DEF SumOf, FoldLeft, MapThenFoldSet
<1>2. DOMAIN s = 1..Len(s) /\ Len(s) \in Nat
  OBVIOUS
<1>3. Summing \in [Int \X Int -> Int] /\ 0 \in Int
  BY DEF Summing
<1>4. PICK g \in [SUBSET (1..Len(s)) -> Int] : Iterates(g, Summing, 0, s)
  BY <1>3, IteratesExist
<1>5. ASSUME NEW t \in SUBSET (1..Len(s))
      PROVE  g[t] = IF t = {} THEN 0 ELSE One(g[t \ {Max(t)}], s[Max(t)])
  <2>1. CASE t = {}
    BY <1>4, <2>1 DEF Iterates, IteratesTo
  <2>2. CASE t # {}
    <3>1. Max(t) \in t /\ g[t] = Summing[<<g[t \ {Max(t)}], s[Max(t)]>>]
      BY <1>4, <2>2 DEF Iterates, IteratesTo
    <3>2. t \ {Max(t)} \in SUBSET (1..Len(s)) /\ Max(t) \in 1..Len(s)
      BY <3>1
    <3>3. g[t \ {Max(t)}] \in Int /\ s[Max(t)] \in Int
      BY <1>2, <3>2
    <3> QED BY <2>2, <3>1, <3>3 DEF Summing
  <2> QED BY <2>1, <2>2
<1> HIDE DEF One
<1>6. G(h)
  <2>1. G(g)
    BY <1>2, <1>5
  <2> HIDE DEF G
  <2> QED BY <2>1
<1>7. \A t \in SUBSET (1..Len(s)) :
        h[t] = IF t = {} THEN 0 ELSE One(h[t \ {Max(t)}], s[Max(t)])
  <2> HIDE DEF h
  <2> QED BY <1>2, <1>6
<1> HIDE DEF h
<1>8. ASSUME NEW k \in 1..Len(s), h[1..(k - 1)] \in Int
      PROVE  h[1..k] = Summing[<<h[1..(k - 1)], s[k]>>]
  <2>1. h[1..k] = One(h[1..(k - 1)], s[k])
    BY <1>2, <1>7, Segments
  <2>2. s[k] \in Int
    BY <1>2
  <2> QED BY <1>8, <2>1, <2>2 DEF Summing, One
<1>9. h[{}] = 0
  BY <1>7
<1>10. Moves(Summing, 0, s, Int, Int)
  BY <1>3 DEF Moves
<1>11. Folds(h, Summing, 0, s, Int)
  BY <1>8, <1>9 DEF Folds
<1>12. PICK f : /\ Runs(f, Summing, 0, s) /\ f[Len(s)] = h[1..Len(s)]
               /\ \A k \in 0..Len(s) : f[k] \in Int
  BY <1>10, <1>11, SegmentsRun
<1> QED BY <1>1, <1>2, <1>12

LEMMA SumInt == ASSUME NEW s \in Seq(Int) PROVE SumOf(s) \in Int
<1>1. PICK f : /\ Runs(f, Summing, 0, s) /\ SumOf(s) = f[Len(s)]
               /\ \A k \in 0..Len(s) : f[k] \in Int
  BY SumRuns
<1>2. PICK n \in Nat : n = Len(s)
  OBVIOUS
<1>3. n \in 0..n
  OBVIOUS
<1>4. f[n] \in Int
  BY <1>1, <1>2, <1>3
<1> QED BY <1>1, <1>2, <1>4

LEMMA Linear ==
  ASSUME NEW A \in Int, NEW B \in Int, NEW D \in Int, NEW k \in Int,
         NEW f \in Int, NEW g \in Int, NEW x \in Int, NEW y \in Int
  PROVE  (k - 1) * A + B * f + D * g + (A + B * x + D * y) = k * A + B * (f + x) + D * (g + y)
OBVIOUS

Combines(z, A, B, x, D, y) ==
  /\ {A, B, D} \subseteq Int /\ {x, y, z} \subseteq Seq(Int) /\ Len(y) = Len(x) /\ Len(z) = Len(x)
  /\ \A i \in 1..Len(x) : z[i] = A + B * x[i] + D * y[i]

LEMMA SumLinear ==
  ASSUME NEW A, NEW B, NEW D, NEW x, NEW y, NEW z, Combines(z, A, B, x, D, y)
  PROVE  SumOf(z) = Len(x) * A + B * SumOf(x) + D * SumOf(y)
<1> USE DEF Combines
<1>1. PICK f : /\ Runs(f, Summing, 0, x) /\ SumOf(x) = f[Len(x)]
               /\ \A k \in 0..Len(x) : f[k] \in Int
  BY SumRuns
<1>2. PICK g : /\ Runs(g, Summing, 0, y) /\ SumOf(y) = g[Len(y)]
               /\ \A k \in 0..Len(y) : g[k] \in Int
  BY SumRuns
<1>3. PICK h : /\ Runs(h, Summing, 0, z) /\ SumOf(z) = h[Len(z)]
               /\ \A k \in 0..Len(z) : h[k] \in Int
  BY SumRuns
<1>4. PICK n \in Nat : n = Len(x) /\ n = Len(y) /\ n = Len(z)
  OBVIOUS
<1> DEFINE T == {k \in 0..n : h[k] = k * A + B * f[k] + D * g[k]}
<1>5. 0 \in T
  <2>1. f[0] = 0 /\ g[0] = 0 /\ h[0] = 0 /\ 0 \in 0..n
    BY <1>1, <1>2, <1>3, <1>4 DEF Runs
  <2>2. 0 = 0 * A + B * 0 + D * 0
    OBVIOUS
  <2> QED BY <2>1, <2>2
<1>6. ASSUME NEW k \in 1..n, k - 1 \in T PROVE k \in T
  <2>1. /\ k \in 0..n /\ k - 1 \in 0..n
        /\ f[k] = Summing[<<f[k - 1], x[k]>>] /\ g[k] = Summing[<<g[k - 1], y[k]>>]
        /\ h[k] = Summing[<<h[k - 1], z[k]>>]
    <3>1. k \in 0..n /\ k - 1 \in 0..n
      OBVIOUS
    <3>2. f[k] = Summing[<<f[k - 1], x[k]>>]
      BY <1>1, <1>4 DEF Runs
    <3>3. g[k] = Summing[<<g[k - 1], y[k]>>]
      BY <1>2, <1>4 DEF Runs
    <3>4. h[k] = Summing[<<h[k - 1], z[k]>>]
      BY <1>3, <1>4 DEF Runs
    <3> QED BY <3>1, <3>2, <3>3, <3>4
  <2>2. x[k] \in Int /\ y[k] \in Int /\ z[k] \in Int /\ z[k] = A + B * x[k] + D * y[k]
    BY <1>4
  <2>3. f[k - 1] \in Int /\ g[k - 1] \in Int /\ h[k - 1] \in Int
    BY <1>1, <1>2, <1>3, <1>4, <2>1
  <2>4. f[k] = f[k - 1] + x[k] /\ g[k] = g[k - 1] + y[k] /\ h[k] = h[k - 1] + z[k]
    BY <2>1, <2>2, <2>3 DEF Summing
  <2>5. h[k - 1] = (k - 1) * A + B * f[k - 1] + D * g[k - 1]
    BY <1>6
  <2>6. PICK a \in Int, b \in Int, u \in Int, v \in Int :
          a = f[k - 1] /\ b = g[k - 1] /\ u = x[k] /\ v = y[k]
    BY <2>2, <2>3
  <2>7. h[k] = (k - 1) * A + B * a + D * b + (A + B * u + D * v)
    BY <2>2, <2>4, <2>5, <2>6
  <2>8. k \in Int
    OBVIOUS
  <2>9. (k - 1) * A + B * a + D * b + (A + B * u + D * v) = k * A + B * (a + u) + D * (b + v)
    BY ONLY <2>8, Linear, A \in Int, B \in Int, D \in Int, a \in Int, b \in Int, u \in Int, v \in Int
  <2> QED BY <2>1, <2>4, <2>6, <2>7, <2>9
<1>7. n \in T
  <2> HIDE DEF T
  <2> QED BY <1>5, <1>6, ReachesAll
<1> QED BY <1>1, <1>2, <1>3, <1>4, <1>7

LEMMA SumNegated ==
  ASSUME NEW x \in Seq(Int), NEW z \in Seq(Int), Len(z) = Len(x), \A i \in 1..Len(x) : z[i] = -x[i]
  PROVE  SumOf(z) = -SumOf(x)
<1>1. PICK n \in Nat, t \in Int, m \in Int : n = Len(x) /\ t = SumOf(x) /\ m = -1
  <2>1. SumOf(x) \in Int
    BY SumInt
  <2> QED BY <2>1
<1>2. PICK o \in Int : o = 0
  OBVIOUS
<1>3. \A i \in 1..Len(x) : z[i] = o + m * x[i] + o * x[i]
  <2>1. \A i \in 1..Len(x) : x[i] \in Int
    OBVIOUS
  <2> QED BY <1>1, <1>2, <2>1
<1>4. SumOf(z) = Len(x) * o + m * SumOf(x) + o * SumOf(x)
  <2>1. Combines(z, o, m, x, o, x)
    BY <1>1, <1>2, <1>3 DEF Combines
  <2> HIDE <1>1, <1>2
  <2> QED BY ONLY <2>1, SumLinear
<1>5. SumOf(z) = n * o + m * t + o * t
  BY <1>1, <1>4
<1> QED BY <1>1, <1>2, <1>5

-----------------------------------------------------------------------------
(* Sums of fractions, and averages, of reflected values.                   *)

Pairs == Int \X Int

Reflect(H, x) == <<H * x[2] - x[1], x[2]>>

Adding == [x \in Pairs \X Pairs |-> Add(x[1], x[2])]

Added(s) == FoldLeft(Add, <<0, 1>>, s)

LEMMA AsPair == ASSUME NEW x \in Pairs PROVE \E p \in Int, q \in Int : x = <<p, q>>
BY DEF Pairs

LEMMA AddTyped == Adding \in [Pairs \X Pairs -> Pairs] /\ <<0, 1>> \in Pairs
<1>1. ASSUME NEW a \in Pairs, NEW b \in Pairs PROVE Add(a, b) \in Pairs
  <2>1. PICK p \in Int, q \in Int, r \in Int, t \in Int : a = <<p, q>> /\ b = <<r, t>>
    BY DEF Pairs
  <2>2. p * t \in Int /\ r * q \in Int /\ q * t \in Int
    OBVIOUS
  <2>3. Add(a, b) = <<p * t + r * q, q * t>>
    BY <2>1 DEF Add
  <2> QED BY <2>2, <2>3 DEF Pairs
<1>2. \A x \in Pairs \X Pairs : Add(x[1], x[2]) \in Pairs
  BY <1>1
<1> QED BY <1>2 DEF Adding, Pairs

LEMMA AddRuns ==
  ASSUME NEW s \in Seq(Pairs)
  PROVE  \E f : /\ Runs(f, Adding, <<0, 1>>, s) /\ Added(s) = f[Len(s)]
                /\ \A k \in 0..Len(s) : f[k] \in Pairs
<1> DEFINE G(g) == g = [t \in SUBSET DOMAIN s |->
                          IF t = {} THEN <<0, 1>> ELSE Add(g[t \ {Max(t)}], s[Max(t)])]
           h == CHOOSE g : G(g)
<1>1. Added(s) = h[DOMAIN s]
  BY DEF Added, FoldLeft, MapThenFoldSet
<1>2. DOMAIN s = 1..Len(s) /\ Len(s) \in Nat
  OBVIOUS
<1>3. PICK g \in [SUBSET (1..Len(s)) -> Pairs] : Iterates(g, Adding, <<0, 1>>, s)
  BY AddTyped, IteratesExist
<1>4. ASSUME NEW t \in SUBSET (1..Len(s))
      PROVE  g[t] = IF t = {} THEN <<0, 1>> ELSE Add(g[t \ {Max(t)}], s[Max(t)])
  <2>1. CASE t = {}
    BY <1>3, <2>1 DEF Iterates, IteratesTo
  <2>2. CASE t # {}
    <3>1. Max(t) \in t /\ g[t] = Adding[<<g[t \ {Max(t)}], s[Max(t)]>>]
      BY <1>3, <2>2 DEF Iterates, IteratesTo
    <3>2. t \ {Max(t)} \in SUBSET (1..Len(s)) /\ Max(t) \in 1..Len(s)
      BY <3>1
    <3>3. g[t \ {Max(t)}] \in Pairs /\ s[Max(t)] \in Pairs
      BY <1>2, <3>2
    <3> QED BY <2>2, <3>1, <3>3 DEF Adding
  <2> QED BY <2>1, <2>2
<1>5. G(h)
  <2>1. G(g)
    BY <1>2, <1>4
  <2> HIDE DEF G
  <2> QED BY <2>1
<1>6. \A t \in SUBSET (1..Len(s)) :
        h[t] = IF t = {} THEN <<0, 1>> ELSE Add(h[t \ {Max(t)}], s[Max(t)])
  <2> HIDE DEF h
  <2> QED BY <1>2, <1>5
<1> HIDE DEF h
<1>7. ASSUME NEW k \in 1..Len(s), h[1..(k - 1)] \in Pairs
      PROVE  h[1..k] = Adding[<<h[1..(k - 1)], s[k]>>]
  <2>1. h[1..k] = Add(h[1..(k - 1)], s[k])
    BY <1>2, <1>6, Segments
  <2>2. s[k] \in Pairs
    BY <1>2
  <2> QED BY <1>7, <2>1, <2>2 DEF Adding
<1>8. h[{}] = <<0, 1>>
  BY <1>6
<1>9. Moves(Adding, <<0, 1>>, s, Pairs, Pairs)
  BY AddTyped DEF Moves
<1>10. Folds(h, Adding, <<0, 1>>, s, Pairs)
  BY <1>7, <1>8 DEF Folds
<1>11. PICK f : /\ Runs(f, Adding, <<0, 1>>, s) /\ f[Len(s)] = h[1..Len(s)]
               /\ \A k \in 0..Len(s) : f[k] \in Pairs
  BY <1>9, <1>10, SegmentsRun
<1> QED BY <1>1, <1>2, <1>11

\* The sums of n values each, and of the values reflected at H.
LEMMA AddReflects ==
  ASSUME NEW H \in Int, NEW k \in Int, NEW p \in Int, NEW q \in Int, NEW r \in Int, NEW t \in Int
  PROVE  ((k - 1) * H * q - p) * t + (H * t - r) * q = k * H * (q * t) - (p * t + r * q)
OBVIOUS

LEMMA AddReflected ==
  ASSUME NEW H \in Int, NEW s \in Seq(Pairs), NEW u \in Seq(Pairs), Len(u) = Len(s),
         \A i \in 1..Len(s) : u[i] = Reflect(H, s[i])
  PROVE  /\ Added(s) \in Pairs /\ Added(u) \in Pairs
         /\ Added(u) = <<Len(s) * H * Added(s)[2] - Added(s)[1], Added(s)[2]>>
<1>1. PICK f : /\ Runs(f, Adding, <<0, 1>>, s) /\ Added(s) = f[Len(s)]
               /\ \A k \in 0..Len(s) : f[k] \in Pairs
  BY AddRuns
<1>2. PICK g : /\ Runs(g, Adding, <<0, 1>>, u) /\ Added(u) = g[Len(u)]
               /\ \A k \in 0..Len(u) : g[k] \in Pairs
  BY AddRuns
<1>3. PICK n \in Nat : n = Len(s) /\ n = Len(u)
  OBVIOUS
<1> DEFINE T == {k \in 0..n : g[k] = <<k * H * f[k][2] - f[k][1], f[k][2]>>}
<1>4. 0 \in T
  <2>1. f[0] = <<0, 1>> /\ g[0] = <<0, 1>> /\ 0 \in 0..n
    BY <1>1, <1>2, <1>3 DEF Runs
  <2>2. 0 * H * 1 - 0 = 0
    OBVIOUS
  <2> QED BY <2>1, <2>2
<1>5. ASSUME NEW k \in 1..n, k - 1 \in T PROVE k \in T
  <2>1. /\ k \in 0..n /\ k - 1 \in 0..n
        /\ f[k] = Adding[<<f[k - 1], s[k]>>] /\ g[k] = Adding[<<g[k - 1], u[k]>>]
    BY <1>1, <1>2, <1>3 DEF Runs
  <2>2. s[k] \in Pairs /\ u[k] \in Pairs /\ u[k] = Reflect(H, s[k])
    BY <1>3
  <2>3. f[k - 1] \in Pairs /\ g[k - 1] \in Pairs
    BY <1>1, <1>2, <1>3, <2>1
  <2>4. f[k] = Add(f[k - 1], s[k]) /\ g[k] = Add(g[k - 1], u[k])
    BY <2>1, <2>2, <2>3 DEF Adding
  <2>5. PICK p \in Int, q \in Int, r \in Int, t \in Int : f[k - 1] = <<p, q>> /\ s[k] = <<r, t>>
    <3>1. \E p \in Int, q \in Int : f[k - 1] = <<p, q>>
      BY <2>3, AsPair
    <3>2. \E r \in Int, t \in Int : s[k] = <<r, t>>
      BY <2>2, AsPair
    <3> QED BY <3>1, <3>2
  <2>6. g[k - 1] = <<(k - 1) * H * q - p, q>>
    BY <1>5, <2>5
  <2>7. u[k] = <<H * t - r, t>>
    BY <2>2, <2>5 DEF Reflect
  <2>8. f[k] = <<p * t + r * q, q * t>>
    BY <2>4, <2>5 DEF Add
  <2>9. g[k] = <<((k - 1) * H * q - p) * t + (H * t - r) * q, q * t>>
    BY <2>4, <2>6, <2>7 DEF Add
  <2>10. ((k - 1) * H * q - p) * t + (H * t - r) * q = k * H * (q * t) - (p * t + r * q)
    <3>1. k \in Int
      OBVIOUS
    <3> QED BY <3>1, AddReflects
  <2> QED BY <2>1, <2>8, <2>9, <2>10
<1>6. n \in T
  <2> HIDE DEF T
  <2> QED BY <1>4, <1>5, ReachesAll
<1>7. n \in 0..Len(s) /\ n \in 0..Len(u)
  BY <1>3
<1> QED BY <1>1, <1>2, <1>3, <1>6, <1>7

Reflects(H, s, u) ==
  /\ s \in Seq(Pairs) /\ u \in Seq(Pairs) /\ Len(u) = Len(s)
  /\ \A i \in 1..Len(s) : u[i] = Reflect(H, s[i])

Averages == {e \in Seq(Pairs) : Len(e) > 0}

Blending(n) == [x \in Averages \X Pairs |-> Append(x[1], Blend(x[1][Len(x[1])], x[2], n))]

Blended(base, s, n) == FoldLeft(LAMBDA e, x : Append(e, Blend(e[Len(e)], x, n)), base, s)

LEMMA BlendIs ==
  ASSUME NEW n \in Int, NEW e \in Pairs, NEW x \in Pairs, NEW H \in Int
  PROVE  Blend(e, x, n) \in Pairs /\ Blend(Reflect(H, e), Reflect(H, x), n) = Reflect(H, Blend(e, x, n))
<1>1. PICK p \in Int, q \in Int : e = <<p, q>>
  BY AsPair
<1>2. PICK r \in Int, t \in Int : x = <<r, t>>
  BY AsPair
<1>3. Blend(e, x, n) = <<2 * r * q + (n - 1) * p * t, (n + 1) * q * t>>
  BY <1>1, <1>2 DEF Blend
<1>4. 2 * r * q + (n - 1) * p * t \in Int /\ (n + 1) * q * t \in Int
  OBVIOUS
<1>5. Reflect(H, e) = <<H * q - p, q>> /\ Reflect(H, x) = <<H * t - r, t>>
  BY <1>1, <1>2 DEF Reflect
<1>6. Blend(Reflect(H, e), Reflect(H, x), n)
        = <<2 * (H * t - r) * q + (n - 1) * (H * q - p) * t, (n + 1) * q * t>>
  BY <1>5 DEF Blend
<1>7. 2 * (H * t - r) * q + (n - 1) * (H * q - p) * t
        = H * ((n + 1) * q * t) - (2 * r * q + (n - 1) * p * t)
  OBVIOUS
<1>8. Reflect(H, Blend(e, x, n))
        = <<H * ((n + 1) * q * t) - (2 * r * q + (n - 1) * p * t), (n + 1) * q * t>>
  BY <1>3 DEF Reflect
<1>9. Blend(e, x, n) \in Pairs
  BY <1>3, <1>4 DEF Pairs
<1> QED BY <1>6, <1>7, <1>8, <1>9

LEMMA BlendingTyped ==
  ASSUME NEW n \in Int
  PROVE  Blending(n) \in [Averages \X Pairs -> Averages]
<1>1. ASSUME NEW e \in Averages, NEW x \in Pairs
      PROVE  Append(e, Blend(e[Len(e)], x, n)) \in Averages
  <2>1. PICK last \in Pairs : last = e[Len(e)]
    BY DEF Averages
  <2>2. Blend(last, x, n) \in Pairs
    <3>1. 0 \in Int
      OBVIOUS
    <3> QED BY <3>1, BlendIs
  <2>3. PICK y \in Pairs : y = Blend(e[Len(e)], x, n)
    BY <2>1, <2>2
  <2>4. Append(e, y) \in Averages
    BY DEF Averages
  <2> QED BY <2>3, <2>4
<1>2. \A x \in Averages \X Pairs : Append(x[1], Blend(x[1][Len(x[1])], x[2], n)) \in Averages
  BY <1>1
<1> QED BY <1>2 DEF Blending

LEMMA BlendRuns ==
  ASSUME NEW n \in Int, NEW base \in Averages, NEW s \in Seq(Pairs)
  PROVE  \E f : /\ Runs(f, Blending(n), base, s) /\ Blended(base, s, n) = f[Len(s)]
                /\ \A k \in 0..Len(s) : f[k] \in Averages
<1> DEFINE One(e, x) == Append(e, Blend(e[Len(e)], x, n))
           G(g) == g = [t \in SUBSET DOMAIN s |->
                          IF t = {} THEN base ELSE One(g[t \ {Max(t)}], s[Max(t)])]
           h == CHOOSE g : G(g)
<1>1. Blended(base, s, n) = h[DOMAIN s]
  BY DEF Blended, FoldLeft, MapThenFoldSet
<1>2. DOMAIN s = 1..Len(s) /\ Len(s) \in Nat
  OBVIOUS
<1>3. PICK move : move = Blending(n)
  OBVIOUS
<1>4. move \in [Averages \X Pairs -> Averages]
  BY <1>3, BlendingTyped
<1>5. ASSUME NEW e \in Averages, NEW x \in Pairs PROVE move[<<e, x>>] = One(e, x)
  BY <1>3 DEF Blending
<1> HIDE DEF One
<1>6. PICK g \in [SUBSET (1..Len(s)) -> Averages] : Iterates(g, move, base, s)
  BY <1>4, IteratesExist
<1>7. ASSUME NEW t \in SUBSET (1..Len(s))
      PROVE  g[t] = IF t = {} THEN base ELSE One(g[t \ {Max(t)}], s[Max(t)])
  <2>1. CASE t = {}
    BY <1>6, <2>1 DEF Iterates, IteratesTo
  <2>2. CASE t # {}
    <3>1. Max(t) \in t /\ g[t] = move[<<g[t \ {Max(t)}], s[Max(t)]>>]
      BY <1>6, <2>2 DEF Iterates, IteratesTo
    <3>2. t \ {Max(t)} \in SUBSET (1..Len(s)) /\ Max(t) \in 1..Len(s)
      BY <3>1
    <3>3. g[t \ {Max(t)}] \in Averages /\ s[Max(t)] \in Pairs
      BY <1>2, <3>2
    <3> QED BY <1>5, <2>2, <3>1, <3>3
  <2> QED BY <2>1, <2>2
<1>8. G(h)
  <2>1. G(g)
    BY <1>2, <1>7
  <2> HIDE DEF G
  <2> QED BY <2>1
<1>9. \A t \in SUBSET (1..Len(s)) :
        h[t] = IF t = {} THEN base ELSE One(h[t \ {Max(t)}], s[Max(t)])
  <2> HIDE DEF h
  <2> QED BY <1>2, <1>8
<1> HIDE DEF h
<1>10. ASSUME NEW k \in 1..Len(s), h[1..(k - 1)] \in Averages
       PROVE  h[1..k] = move[<<h[1..(k - 1)], s[k]>>]
  <2>1. h[1..k] = One(h[1..(k - 1)], s[k])
    BY <1>2, <1>9, Segments
  <2>2. s[k] \in Pairs
    BY <1>2
  <2> QED BY <1>5, <1>10, <2>1, <2>2
<1>11. h[{}] = base
  BY <1>9
<1>12. Moves(move, base, s, Averages, Pairs)
  BY <1>4 DEF Moves
<1>13. Folds(h, move, base, s, Averages)
  BY <1>10, <1>11 DEF Folds
<1>14. PICK f : /\ Runs(f, move, base, s) /\ f[Len(s)] = h[1..Len(s)]
               /\ \A k \in 0..Len(s) : f[k] \in Averages
  BY <1>12, <1>13, SegmentsRun
<1> QED BY <1>1, <1>2, <1>3, <1>14

LEMMA ReflectsMore ==
  ASSUME NEW H, NEW s, NEW u, Reflects(H, s, u), NEW x \in Pairs, NEW y \in Pairs, y = Reflect(H, x)
  PROVE  Reflects(H, Append(s, x), Append(u, y)) /\ Len(Append(s, x)) = Len(s) + 1
<1>1. s \in Seq(Pairs) /\ u \in Seq(Pairs) /\ Len(u) = Len(s) /\ Len(s) \in Nat
  BY DEF Reflects
<1>2. PICK a, b : a = Append(s, x) /\ b = Append(u, y)
  OBVIOUS
<1>3. /\ a \in Seq(Pairs) /\ Len(a) = Len(s) + 1 /\ a[Len(s) + 1] = x
      /\ \A i \in 1..Len(s) : a[i] = s[i]
  BY <1>1, <1>2
<1>4. /\ b \in Seq(Pairs) /\ Len(b) = Len(s) + 1 /\ b[Len(s) + 1] = y
      /\ \A i \in 1..Len(s) : b[i] = u[i]
  BY <1>1, <1>2
<1>5. ASSUME NEW i \in 1..(Len(s) + 1) PROVE b[i] = Reflect(H, a[i])
  <2>1. CASE i \in 1..Len(s)
    BY <1>3, <1>4, <2>1 DEF Reflects
  <2>2. CASE i = Len(s) + 1
    BY <1>3, <1>4, <2>2
  <2> QED BY <1>1, <2>1, <2>2
<1> QED BY <1>2, <1>3, <1>4, <1>5 DEF Reflects

BlendsFrom(H, n, b, d, s, u) ==
  H \in Int /\ n \in Int /\ Reflects(H, b, d) /\ Len(b) = 1 /\ Reflects(H, s, u)

LEMMA BlendReflected ==
  ASSUME NEW H, NEW n, NEW b, NEW d, NEW s, NEW u, BlendsFrom(H, n, b, d, s, u)
  PROVE  /\ Reflects(H, Blended(b, s, n), Blended(d, u, n))
         /\ Len(Blended(b, s, n)) = Len(s) + 1
<1> USE DEF BlendsFrom
<1>1. /\ s \in Seq(Pairs) /\ u \in Seq(Pairs) /\ b \in Averages /\ d \in Averages
      /\ \A i \in 1..Len(s) : u[i] = Reflect(H, s[i])
  <2>1. b \in Seq(Pairs) /\ d \in Seq(Pairs) /\ Len(b) > 0 /\ Len(d) > 0
    BY DEF Reflects
  <2>2. b \in Averages /\ d \in Averages
    BY <2>1 DEF Averages
  <2> QED BY <2>2 DEF Reflects
<1>2. PICK m \in Nat : m = Len(s) /\ m = Len(u)
  BY DEF Reflects
<1>3. PICK f : /\ Runs(f, Blending(n), b, s) /\ Blended(b, s, n) = f[Len(s)]
               /\ \A k \in 0..Len(s) : f[k] \in Averages
  BY <1>1, BlendRuns
<1>4. PICK g : /\ Runs(g, Blending(n), d, u) /\ Blended(d, u, n) = g[Len(u)]
               /\ \A k \in 0..Len(u) : g[k] \in Averages
  BY <1>1, BlendRuns
<1> DEFINE T == {k \in 0..m : Reflects(H, f[k], g[k]) /\ Len(f[k]) = k + 1}
<1>5. 0 \in T
  <2>1. f[0] = b /\ g[0] = d /\ 0 \in 0..m
    BY <1>2, <1>3, <1>4 DEF Runs
  <2> QED BY <2>1
<1>6. ASSUME NEW k \in 1..m, k - 1 \in T PROVE k \in T
  <2>1. k \in 0..m /\ k - 1 \in 0..m /\ Reflects(H, f[k - 1], g[k - 1]) /\ Len(f[k - 1]) = k
    BY <1>6
  <2>2. f[k] = Blending(n)[<<f[k - 1], s[k]>>] /\ g[k] = Blending(n)[<<g[k - 1], u[k]>>]
    BY <1>2, <1>3, <1>4 DEF Runs
  <2>3. PICK e, a, x, y : e = f[k - 1] /\ a = g[k - 1] /\ x = s[k] /\ y = u[k]
    OBVIOUS
  <2>4. e \in Averages /\ a \in Averages /\ x \in Pairs /\ y \in Pairs /\ y = Reflect(H, x)
    <3>1. e \in Averages /\ a \in Averages
      BY <1>2, <1>3, <1>4, <2>1, <2>3
    <3>2. x \in Pairs /\ y \in Pairs /\ y = Reflect(H, x)
      <4>1. k \in 1..Len(s) /\ k \in 1..Len(u)
        BY <1>2
      <4>2. s[k] \in Pairs /\ u[k] \in Pairs /\ u[k] = Reflect(H, s[k])
        BY <1>1, <4>1
      <4> QED BY <2>3, <4>2
    <3> QED BY <3>1, <3>2
  <2>5. f[k] = Append(e, Blend(e[Len(e)], x, n)) /\ g[k] = Append(a, Blend(a[Len(a)], y, n))
    BY <2>2, <2>3, <2>4 DEF Blending
  <2>6. PICK last \in Pairs : last = e[Len(e)] /\ a[Len(a)] = Reflect(H, last)
    BY <2>1, <2>3, <2>4 DEF Reflects, Averages
  <2>7. PICK z, w : z = Blend(last, x, n) /\ w = Blend(Reflect(H, last), y, n)
    OBVIOUS
  <2>8. z \in Pairs /\ w = Reflect(H, z)
    BY <2>4, <2>7, BlendIs
  <2>9. w \in Pairs
    <3>1. PICK p \in Int, q \in Int : z = <<p, q>>
      BY <2>8, AsPair
    <3>2. w = <<H * q - p, q>> /\ H * q - p \in Int
      BY <2>8, <3>1 DEF Reflect
    <3> QED BY <3>2 DEF Pairs
  <2>10. Reflects(H, e, a) /\ Len(e) = k
    BY <2>1, <2>3
  <2>11. Reflects(H, Append(e, z), Append(a, w)) /\ Len(Append(e, z)) = Len(e) + 1
    BY <2>8, <2>9, <2>10, ReflectsMore
  <2>12. f[k] = Append(e, z) /\ g[k] = Append(a, w)
    BY <2>5, <2>6, <2>7
  <2> QED BY <2>1, <2>10, <2>11, <2>12
<1>7. m \in T
  <2> HIDE DEF T
  <2> QED BY <1>5, <1>6, ReachesAll
<1> QED BY <1>2, <1>3, <1>4, <1>7

LEMMA ReflectsPart ==
  ASSUME NEW H, NEW s, NEW u, Reflects(H, s, u), NEW a \in Int, NEW b \in Int,
         1 <= a, b <= Len(s), a <= b + 1
  PROVE  Reflects(H, SubSeq(s, a, b), SubSeq(u, a, b)) /\ Len(SubSeq(s, a, b)) = b - a + 1
<1>1. s \in Seq(Pairs) /\ u \in Seq(Pairs) /\ Len(u) = Len(s) /\ Len(s) \in Nat
  BY DEF Reflects
<1>2. PICK x, y : x = SubSeq(s, a, b) /\ y = SubSeq(u, a, b)
  OBVIOUS
<1>3. x \in Seq(Pairs) /\ Len(x) = b - a + 1 /\ \A i \in 1..(b - a + 1) : x[i] = s[a + i - 1]
  BY <1>1, <1>2
<1>4. y \in Seq(Pairs) /\ Len(y) = b - a + 1 /\ \A i \in 1..(b - a + 1) : y[i] = u[a + i - 1]
  BY <1>1, <1>2
<1>5. ASSUME NEW i \in 1..(b - a + 1) PROVE y[i] = Reflect(H, x[i])
  <2>1. PICK j \in 1..Len(s) : j = a + i - 1
    BY <1>1
  <2>2. u[j] = Reflect(H, s[j])
    BY DEF Reflects
  <2> QED BY <1>3, <1>4, <2>1, <2>2
<1> QED BY <1>2, <1>3, <1>4, <1>5 DEF Reflects

LEMMA EmaReflected ==
  ASSUME NEW H \in Int, NEW n \in Nat, NEW s, NEW u, Reflects(H, s, u)
  PROVE  /\ Reflects(H, _ema_series(s, n), _ema_series(u, n))
         /\ Len(_ema_series(s, n)) = IF Len(s) < n THEN 0 ELSE Len(s) - n + 1
<1>1. s \in Seq(Pairs) /\ u \in Seq(Pairs) /\ Len(u) = Len(s) /\ Len(s) \in Nat
  BY DEF Reflects
<1>2. CASE Len(s) < n
  <2>1. _ema_series(s, n) = <<>> /\ _ema_series(u, n) = <<>>
    BY <1>1, <1>2 DEF _ema_series
  <2>2. <<>> \in Seq(Pairs) /\ Len(<<>>) = 0
    OBVIOUS
  <2> QED BY <1>2, <2>1, <2>2 DEF Reflects
<1>3. CASE ~(Len(s) < n)
  <2>1. PICK l \in Nat : l = Len(s) /\ l = Len(u) /\ n <= l
    BY <1>1, <1>3
  <2>2. PICK x, y, v, w : /\ x = SubSeq(s, 1, n) /\ y = SubSeq(u, 1, n)
                          /\ v = SubSeq(s, n + 1, l) /\ w = SubSeq(u, n + 1, l)
    OBVIOUS
  <2>3. Reflects(H, x, y) /\ Len(x) = n
    <3>1. 1 \in Int /\ n \in Int /\ 1 <= 1 /\ n <= Len(s) /\ 1 <= n + 1 /\ n - 1 + 1 = n
      BY <2>1
    <3> QED BY <2>2, <3>1, ReflectsPart
  <2>4. Reflects(H, v, w) /\ Len(v) = l - n
    <3>1. n + 1 \in Int /\ l \in Int /\ 1 <= n + 1 /\ l <= Len(s) /\ n + 1 <= l + 1
          /\ l - (n + 1) + 1 = l - n
      BY <2>1
    <3> QED BY <2>2, <3>1, ReflectsPart
  <2>5. PICK first, mirror : first = Added(x) /\ mirror = Added(y)
    OBVIOUS
  <2>6. first \in Pairs /\ mirror \in Pairs
        /\ mirror = <<n * H * first[2] - first[1], first[2]>>
    BY <2>3, <2>5, AddReflected DEF Reflects
  <2>7. PICK b, d : b = <<<<first[1], n * first[2]>>>> /\ d = <<<<mirror[1], n * mirror[2]>>>>
    OBVIOUS
  <2>8. Reflects(H, b, d) /\ Len(b) = 1
    <3>1. PICK p \in Int, q \in Int : first = <<p, q>>
      BY <2>6, AsPair
    <3>2. b = <<<<p, n * q>>>> /\ d = <<<<n * H * q - p, n * q>>>>
      BY <2>6, <2>7, <3>1
    <3>3. n * q \in Int /\ n * H * q - p \in Int /\ n * H * q = H * (n * q)
      OBVIOUS
    <3>4. <<p, n * q>> \in Pairs /\ <<n * H * q - p, n * q>> \in Pairs
          /\ <<n * H * q - p, n * q>> = Reflect(H, <<p, n * q>>)
      BY <3>3 DEF Pairs, Reflect
    <3>5. PICK f, g : f = <<p, n * q>> /\ g = <<n * H * q - p, n * q>>
      OBVIOUS
    <3>6. /\ <<f>> \in Seq(Pairs) /\ <<g>> \in Seq(Pairs) /\ Len(<<f>>) = 1 /\ Len(<<g>>) = 1
          /\ \A i \in 1..1 : <<g>>[i] = Reflect(H, <<f>>[i])
      BY <3>4, <3>5
    <3> QED BY <3>2, <3>5, <3>6 DEF Reflects
  <2>9. _ema_series(s, n) = Blended(b, v, n) /\ _ema_series(u, n) = Blended(d, w, n)
    BY <1>1, <1>3, <2>1, <2>2, <2>5, <2>7 DEF _ema_series, Added, Blended
  <2>11. Reflects(H, Blended(b, v, n), Blended(d, w, n)) /\ Len(Blended(b, v, n)) = Len(v) + 1
    <3>1. PICK i \in Int : i = n
      OBVIOUS
    <3>2. Reflects(H, Blended(b, v, i), Blended(d, w, i)) /\ Len(Blended(b, v, i)) = Len(v) + 1
      <4>1. BlendsFrom(H, i, b, d, v, w)
        BY <2>4, <2>8 DEF BlendsFrom
      <4> QED BY ONLY <4>1, BlendReflected
    <3> QED BY <3>1, <3>2
  <2> QED BY <1>3, <2>1, <2>4, <2>9, <2>11
<1> QED BY <1>2, <1>3

-----------------------------------------------------------------------------
(* The greatest and the least of a finite set of numbers.                  *)

LEMMA MinIs ==
  ASSUME NEW t \in SUBSET Int, NEW n \in t, \A k \in t : n <= k
  PROVE  Min(t) = n
<1>1. Min(t) \in t /\ \A k \in t : Min(t) <= k
  BY DEF Min
<1>2. Min(t) \in Int /\ n \in Int /\ Min(t) <= n /\ n <= Min(t)
  BY <1>1
<1> QED BY <1>2

LEMMA GreatestExists ==
  ASSUME NEW t \in SUBSET Int, IsFiniteSet(t), t # {}
  PROVE  Max(t) \in t /\ \A k \in t : k <= Max(t)
<1> DEFINE R == {x \in t \X t : x[1] < x[2]}
<1>1. ASSUME NEW x \in t, NEW y \in t PROVE x \in Int /\ y \in Int /\ (<<x, y>> \in R <=> x < y)
  OBVIOUS
<1> HIDE DEF R
<1>2. Orders(R, t)
  <2>1. \A x \in t : <<x, x>> \notin R
    BY <1>1
  <2>2. \A x, y, z \in t : <<x, y>> \in R /\ <<y, z>> \in R => <<x, z>> \in R
    BY <1>1
  <2>3. \A x, y \in t : x # y => <<x, y>> \in R \/ <<y, x>> \in R
    BY <1>1
  <2> QED BY <2>1, <2>2, <2>3 DEF Orders
<1>3. Cardinality(t) \in Nat /\ Cardinality(t) # 0
  BY FS_CardinalityType, FS_EmptySet
<1>4. PICK n \in 0..(Cardinality(t) - 1) : n = Cardinality(t) - 1
  BY <1>3
<1>5. PICK x \in t : Cardinality(Below(R, t, x)) = n
  BY <1>2, RankExists
<1>6. ASSUME NEW y \in t PROVE y <= x
  <2>1. CASE <<x, y>> \in R
    <3>1. Cardinality(Below(R, t, x)) < Cardinality(Below(R, t, y))
      BY <1>2, <2>1, RankGrows
    <3>2. Cardinality(Below(R, t, y)) \in 0..(Cardinality(t) - 1)
      BY <1>2, RankTyped
    <3> QED BY <1>3, <1>4, <1>5, <3>1, <3>2
  <2>2. CASE ~(<<x, y>> \in R)
    BY <1>1, <2>2
  <2> QED BY <2>1, <2>2
<1>7. Max(t) = x
  BY <1>6, MaxIs
<1> QED BY <1>6, <1>7

LEMMA Reaches ==
  ASSUME NEW t \in SUBSET Int, IsFiniteSet(t), t # {}, NEW H \in Int,
         NEW r \in SUBSET Int, \A x \in Int : x \in r <=> H - x \in t
  PROVE  /\ Max(t) \in Int /\ Min(r) = H - Max(t)
<1>1. Max(t) \in t /\ \A k \in t : k <= Max(t)
  BY GreatestExists
<1>2. PICK m \in Int : m = Max(t)
  BY <1>1
<1>3. H - m \in r
  <2>1. H - m \in Int /\ H - (H - m) = m
    OBVIOUS
  <2> QED BY <1>1, <1>2, <2>1
<1>4. ASSUME NEW k \in r PROVE H - m <= k
  <2>1. k \in Int /\ H - k \in t
    OBVIOUS
  <2>2. H - k <= m
    BY <1>1, <1>2, <2>1
  <2> QED BY <2>1, <2>2
<1>5. Min(r) = H - m
  BY <1>3, <1>4, MinIs
<1> QED BY <1>2, <1>5

\* A finite set and its reflection have each other's extremes.
LEMMA ExtremesReflected ==
  ASSUME NEW t \in SUBSET Int, IsFiniteSet(t), t # {}, NEW H \in Int,
         NEW r \in SUBSET Int, \A x \in Int : x \in r <=> H - x \in t
  PROVE  /\ Max(t) \in Int /\ Min(t) \in Int /\ Max(r) = H - Min(t) /\ Min(r) = H - Max(t)
<1>1. Max(t) \in Int /\ Min(r) = H - Max(t)
  BY Reaches
<1> DEFINE g == [x \in t |-> H - x]
<1>2. g \in Surjection(t, r)
  <2>1. ASSUME NEW x \in t PROVE H - x \in r
    <3>1. H - x \in Int /\ H - (H - x) = x
      OBVIOUS
    <3> QED BY <3>1
  <2>2. ASSUME NEW y \in r PROVE \E x \in t : g[x] = y
    <3>1. H - y \in t /\ H - (H - y) = y
      OBVIOUS
    <3> QED BY <3>1
  <2> QED BY <2>1, <2>2 DEF Surjection
<1>3. IsFiniteSet(r)
  <2> HIDE DEF g
  <2> QED BY <1>2, FS_Surjection
<1>4. r # {}
  BY <1>2 DEF Surjection
<1>5. \A x \in Int : x \in t <=> H - x \in r
  <2> SUFFICES ASSUME NEW x \in Int PROVE x \in t <=> H - x \in r
    OBVIOUS
  <2>1. H - x \in Int /\ H - (H - x) = x
    OBVIOUS
  <2> QED BY <2>1
<1>6. Max(r) \in Int /\ Min(t) = H - Max(r)
  BY <1>3, <1>4, <1>5, Reaches
<1> QED BY <1>1, <1>6

LEMMA RangeIs ==
  ASSUME NEW s \in Seq(Int), Len(s) > 0
  PROVE  Range(s) \in SUBSET Int /\ IsFiniteSet(Range(s)) /\ Range(s) # {}
<1>1. Len(s) \in Nat /\ DOMAIN s = 1..Len(s) /\ 1 \in 1..Len(s) /\ \A i \in 1..Len(s) : s[i] \in Int
  OBVIOUS
<1>2. Range(s) = {s[i] : i \in 1..Len(s)}
  BY <1>1 DEF Range
<1>3. PICK n \in Nat : n = Len(s)
  BY <1>1
<1>4. IsFiniteSet(1..n)
  <2>1. 1 \in Int /\ n \in Int
    OBVIOUS
  <2> QED BY <2>1, FS_Interval
<1>5. [i \in 1..n |-> s[i]] \in Surjection(1..n, Range(s))
  BY <1>2, <1>3 DEF Surjection
<1>6. IsFiniteSet(Range(s))
  BY <1>4, <1>5, FS_Surjection
<1> QED BY <1>1, <1>2, <1>6

-----------------------------------------------------------------------------
(* A chart upside down.                                                    *)

\* The same numbers, seen from A.
Flips(A, s, u) ==
  /\ A \in Int /\ s \in Seq(Int) /\ u \in Seq(Int) /\ Len(u) = Len(s)
  /\ \A i \in 1..Len(s) : u[i] = A - s[i]

LEMMA FlipsNewest ==
  ASSUME NEW A, NEW s, NEW u, NEW n \in Nat, Flips(A, s, u), n <= Len(s)
  PROVE  Flips(A, Newest(s, n), Newest(u, n)) /\ Len(Newest(s, n)) = n
<1>1. s \in Seq(Int) /\ u \in Seq(Int) /\ Len(u) = Len(s) /\ n <= Len(u) /\ A \in Int
  BY DEF Flips
<1>2. /\ Newest(s, n) \in Seq(Int) /\ Len(Newest(s, n)) = n
      /\ \A i \in 1..n : Newest(s, n)[i] = s[Len(s) - n + i] /\ Len(s) - n + i \in 1..Len(s)
  BY <1>1, NewestIs
<1>3. /\ Newest(u, n) \in Seq(Int) /\ Len(Newest(u, n)) = n
      /\ \A i \in 1..n : Newest(u, n)[i] = u[Len(s) - n + i]
  <2>1. /\ Newest(u, n) \in Seq(Int) /\ Len(Newest(u, n)) = n
        /\ \A i \in 1..n : Newest(u, n)[i] = u[Len(u) - n + i]
    BY <1>1, NewestIs
  <2> QED BY <1>1, <2>1
<1>4. ASSUME NEW i \in 1..n PROVE Newest(u, n)[i] = A - Newest(s, n)[i]
  <2>1. PICK j \in 1..Len(s) : j = Len(s) - n + i
    BY <1>2
  <2>2. u[j] = A - s[j]
    BY DEF Flips
  <2> QED BY <1>2, <1>3, <2>1, <2>2
<1> QED BY <1>1, <1>2, <1>3, <1>4 DEF Flips

LEMMA FlipsSum ==
  ASSUME NEW A, NEW s, NEW u, Flips(A, s, u)
  PROVE  /\ SumOf(s) \in Int /\ SumOf(u) \in Int /\ A \in Int /\ Len(s) \in Nat
         /\ SumOf(u) = Len(s) * A - SumOf(s)
<1>1. s \in Seq(Int) /\ u \in Seq(Int) /\ Len(u) = Len(s) /\ A \in Int
  BY DEF Flips
<1>2. PICK m \in Int, o \in Int : m = -1 /\ o = 0
  OBVIOUS
<1>3. Combines(u, A, m, s, o, s)
  <2>1. \A i \in 1..Len(s) : s[i] \in Int /\ u[i] = A - s[i]
    BY <1>1 DEF Flips
  <2>2. \A i \in 1..Len(s) : u[i] = A + m * s[i] + o * s[i]
    BY <1>1, <1>2, <2>1
  <2> QED BY <1>1, <2>2 DEF Combines
<1>4. SumOf(u) = Len(s) * A + m * SumOf(s) + o * SumOf(s)
  BY ONLY <1>3, SumLinear
<1>5. SumOf(s) \in Int /\ SumOf(u) \in Int
  BY <1>1, SumInt
<1>6. PICK p \in Int, q \in Nat : p = SumOf(s) /\ q = Len(s)
  BY <1>1, <1>5
<1>7. SumOf(u) = q * A - p
  BY <1>1, <1>2, <1>4, <1>6
<1> QED BY <1>1, <1>5, <1>6, <1>7

Turned(b) == [b EXCEPT !.high = Height - b.low, !.low = Height - b.high, !.close = Height - b.close]

LEMMA TurnedIs ==
  ASSUME NEW b \in Priced, Height \in Int
  PROVE  /\ Turned(b) \in Priced /\ Turned(b).high = Height - b.low /\ Turned(b).low = Height - b.high
         /\ Turned(b).close = Height - b.close /\ Turned(b).volume = b.volume
<1>1. /\ b \in [high : Int, low : Int, close : Int, volume : Nat, readable : BOOLEAN]
      /\ b.high \in Int /\ b.low \in Int /\ b.close \in Int /\ b.low <= b.close /\ b.close <= b.high
  BY DEF Priced
<1>2. PICK h \in Int, l \in Int, k \in Int : h = Height - b.low /\ l = Height - b.high /\ k = Height - b.close
  BY <1>1
<1>3. l <= k /\ k <= h
  BY <1>1, <1>2
<1>4. PICK t : t = [b EXCEPT !.high = h, !.low = l, !.close = k]
  OBVIOUS
<1>5. t = Turned(b)
  BY <1>2, <1>4 DEF Turned
<1>6. t \in [high : Int, low : Int, close : Int, volume : Nat, readable : BOOLEAN]
  BY <1>1, <1>4
<1>7. t.high = h /\ t.low = l /\ t.close = k /\ t.volume = b.volume
  BY <1>1, <1>4
<1> QED BY <1>2, <1>3, <1>5, <1>6, <1>7 DEF Priced

LEMMA Turns ==
  ASSUME NEW c \in Seq(Priced), Height \in Int
  PROVE  /\ UpsideDown(c) \in Seq(Priced) /\ Len(UpsideDown(c)) = Len(c)
         /\ \A i \in 1..Len(c) : UpsideDown(c)[i] = Turned(c[i])
<1>1. Len(c) \in Nat /\ DOMAIN c = 1..Len(c) /\ \A i \in 1..Len(c) : c[i] \in Priced
  OBVIOUS
<1>2. UpsideDown(c) = [i \in 1..Len(c) |-> Turned(c[i])]
  BY <1>1 DEF UpsideDown, Turned
<1>3. \A i \in 1..Len(c) : Turned(c[i]) \in Priced
  BY <1>1, TurnedIs
<1> QED BY <1>1, <1>2, <1>3

LEMMA NewestTurned ==
  ASSUME NEW c \in Seq(Priced), NEW n \in Nat, n <= Len(c), Height \in Int
  PROVE  Newest(UpsideDown(c), n) = UpsideDown(Newest(c, n))
<1>1. PICK u : u = UpsideDown(c)
  OBVIOUS
<1>2. u \in Seq(Priced) /\ Len(u) = Len(c) /\ \A i \in 1..Len(c) : u[i] = Turned(c[i])
  BY <1>1, Turns
<1>3. PICK w, x : w = Newest(c, n) /\ x = Newest(u, n)
  OBVIOUS
<1>4. w \in Seq(Priced) /\ Len(w) = n
      /\ \A i \in 1..n : w[i] = c[Len(c) - n + i] /\ Len(c) - n + i \in 1..Len(c)
  BY <1>3, NewestIs
<1>5. x \in Seq(Priced) /\ Len(x) = n /\ \A i \in 1..n : x[i] = u[Len(c) - n + i]
  <2>1. n <= Len(u) /\ u \in Seq(Priced)
    BY <1>2
  <2>2. x \in Seq(Priced) /\ Len(x) = n /\ \A i \in 1..n : x[i] = u[Len(u) - n + i]
    BY <1>3, <2>1, NewestIs
  <2> QED BY <1>2, <2>2
<1>6. PICK y : y = UpsideDown(w)
  OBVIOUS
<1>7. y \in Seq(Priced) /\ Len(y) = n /\ \A i \in 1..n : y[i] = Turned(w[i])
  BY <1>4, <1>6, Turns
<1>8. ASSUME NEW i \in 1..n PROVE x[i] = y[i]
  <2>1. PICK j \in 1..Len(c) : j = Len(c) - n + i
    BY <1>4
  <2>2. w[i] = c[j] /\ x[i] = u[j] /\ u[j] = Turned(c[j])
    BY <1>2, <1>4, <1>5, <2>1
  <2> QED BY <1>7, <2>2
<1>9. x = y
  BY <1>5, <1>7, <1>8, SeqEqual
<1> QED BY <1>1, <1>3, <1>6, <1>9

LEMMA PricesFlip ==
  ASSUME NEW c \in Seq(Priced), Height \in Int
  PROVE  /\ Flips(Height, close(c), close(UpsideDown(c))) /\ Len(close(c)) = Len(c)
         /\ Flips(Height, low(c), high(UpsideDown(c))) /\ Len(low(c)) = Len(c)
         /\ Flips(Height, high(c), low(UpsideDown(c))) /\ Len(high(c)) = Len(c)
         /\ Flips(3 * Height, typical(c), typical(UpsideDown(c))) /\ Len(typical(c)) = Len(c)
<1>1. PICK u : u = UpsideDown(c)
  OBVIOUS
<1>2. u \in Seq(Priced) /\ Len(u) = Len(c) /\ \A i \in 1..Len(c) : u[i] = Turned(c[i])
  BY <1>1, Turns
<1>3. ASSUME NEW i \in 1..Len(c)
      PROVE  /\ u[i].high = Height - c[i].low /\ u[i].low = Height - c[i].high
             /\ u[i].close = Height - c[i].close
             /\ c[i].high \in Int /\ c[i].low \in Int /\ c[i].close \in Int
  <2>1. c[i] \in Priced
    OBVIOUS
  <2>2. c[i].high \in Int /\ c[i].low \in Int /\ c[i].close \in Int
    BY <2>1 DEF Priced
  <2> QED BY <1>2, <2>1, <2>2, TurnedIs
<1>4. Flips(Height, close(c), close(u)) /\ Len(close(c)) = Len(c)
  <2>1. /\ close(c) \in Seq(Int) /\ Len(close(c)) = Len(c) /\ close(u) \in Seq(Int) /\ Len(close(u)) = Len(c)
        /\ \A i \in 1..Len(c) : close(c)[i] = c[i].close /\ close(u)[i] = u[i].close
    BY <1>2, Prices
  <2> QED BY <1>3, <2>1 DEF Flips
<1>5. Flips(Height, low(c), high(u)) /\ Len(low(c)) = Len(c)
  <2>1. /\ low(c) \in Seq(Int) /\ Len(low(c)) = Len(c) /\ high(u) \in Seq(Int) /\ Len(high(u)) = Len(c)
        /\ \A i \in 1..Len(c) : low(c)[i] = c[i].low /\ high(u)[i] = u[i].high
    BY <1>2, Prices
  <2> QED BY <1>3, <2>1 DEF Flips
<1>6. Flips(Height, high(c), low(u)) /\ Len(high(c)) = Len(c)
  <2>1. /\ high(c) \in Seq(Int) /\ Len(high(c)) = Len(c) /\ low(u) \in Seq(Int) /\ Len(low(u)) = Len(c)
        /\ \A i \in 1..Len(c) : high(c)[i] = c[i].high /\ low(u)[i] = u[i].low
    BY <1>2, Prices
  <2> QED BY <1>3, <2>1 DEF Flips
<1>7. Flips(3 * Height, typical(c), typical(u)) /\ Len(typical(c)) = Len(c)
  <2>1. typical(c) \in Seq(Int) /\ Len(typical(c)) = Len(c)
        /\ \A i \in 1..Len(c) : typical(c)[i] = c[i].high + c[i].low + c[i].close
    BY Prices
  <2>2. typical(u) \in Seq(Int) /\ Len(typical(u)) = Len(c)
        /\ \A i \in 1..Len(c) : typical(u)[i] = u[i].high + u[i].low + u[i].close
    BY <1>2, Prices
  <2>3. ASSUME NEW i \in 1..Len(c) PROVE typical(u)[i] = 3 * Height - typical(c)[i]
    <3>1. PICK h \in Int, l \in Int, k \in Int : h = c[i].high /\ l = c[i].low /\ k = c[i].close
      BY <1>3
    <3>2. u[i].high = Height - l /\ u[i].low = Height - h /\ u[i].close = Height - k
      BY <1>3, <3>1
    <3>3. typical(u)[i] = Height - l + (Height - h) + (Height - k)
      BY <2>2, <3>2
    <3>4. typical(c)[i] = h + l + k
      BY <2>1, <3>1
    <3> QED BY <3>3, <3>4
  <2>4. 3 * Height \in Int
    OBVIOUS
  <2> QED BY <2>1, <2>2, <2>3, <2>4 DEF Flips
<1> QED BY <1>1, <1>4, <1>5, <1>6, <1>7

-----------------------------------------------------------------------------
(* The indicators of a chart upside down: averages, levels, distances.     *)

LEMMA Something == \A a, b : <<a, b>> # <<>>
OBVIOUS

LEMMA SequenceOf ==
  ASSUME NEW n \in Nat, NEW S, NEW p, p = [i \in 1..n |-> p[i]], \A i \in 1..n : p[i] \in S
  PROVE  p \in Seq(S) /\ Len(p) = n
OBVIOUS

LEMMA SmaFlipped ==
  ASSUME NEW s, NEW u, Flips(Height, s, u)
  PROVE  _sma(u, Period) = Reflected(_sma(s, Period))
<1>1. Period \in Nat /\ Len(s) \in Nat /\ Len(u) = Len(s) /\ Height \in Int
  BY IndicatorsAssumption DEF Flips
<1>2. CASE Len(s) < Period
  BY <1>1, <1>2 DEF _sma, Reflected, None
<1>3. CASE ~(Len(s) < Period)
  <2>1. PICK w, x, p, q : w = Newest(s, Period) /\ x = Newest(u, Period) /\ p = SumOf(w) /\ q = SumOf(x)
    OBVIOUS
  <2>2. Flips(Height, w, x) /\ Len(w) = Period
    BY <1>1, <1>3, <2>1, FlipsNewest
  <2>3. p \in Int /\ q = Period * Height - p
    BY <2>1, <2>2, FlipsSum
  <2>4. _sma(s, Period) = <<p, Period>> /\ _sma(u, Period) = <<q, Period>>
    BY <1>1, <1>3, <2>1 DEF _sma
  <2>5. Reflected(<<p, Period>>) = <<Height * Period - p, Period>>
    BY Something DEF Reflected, None
  <2>6. Height * Period - p = Period * Height - p
    BY <1>1, <2>3
  <2> QED BY <2>3, <2>4, <2>5, <2>6
<1> QED BY <1>2, <1>3

LEMMA EmaOfReflected ==
  ASSUME NEW H \in Int, NEW n \in Nat, NEW s, NEW u, Reflects(H, s, u)
  PROVE  \/ _ema(s, n) = None /\ _ema(u, n) = None
         \/ /\ _ema(s, n) \in Pairs /\ _ema(s, n) # None
            /\ _ema(u, n) = Reflect(H, _ema(s, n))
<1>1. PICK e, d : e = _ema_series(s, n) /\ d = _ema_series(u, n)
  OBVIOUS
<1>2. Reflects(H, e, d)
  BY <1>1, EmaReflected
<1>3. e \in Seq(Pairs) /\ d \in Seq(Pairs) /\ Len(d) = Len(e) /\ Len(e) \in Nat
  BY <1>2 DEF Reflects
<1>4. CASE Len(e) = 0
  <2>1. e = <<>> /\ d = <<>>
    BY <1>3, <1>4
  <2> QED BY <1>1, <2>1 DEF _ema
<1>5. CASE Len(e) # 0
  <2>1. e # <<>> /\ d # <<>> /\ Len(e) \in 1..Len(e)
    BY <1>3, <1>5
  <2>2. PICK x, y : x = e[Len(e)] /\ y = d[Len(e)]
    OBVIOUS
  <2>3. x \in Pairs /\ y = Reflect(H, x)
    BY <1>2, <2>1, <2>2 DEF Reflects
  <2>4. _ema(s, n) = x /\ _ema(u, n) = y
    BY <1>1, <1>3, <2>1, <2>2 DEF _ema
  <2>5. x # None
    BY <2>3, AsPair, Something DEF None
  <2> QED BY <2>3, <2>4, <2>5
<1> QED BY <1>4, <1>5

LEMMA WholeReflects ==
  ASSUME NEW H, NEW s, NEW u, Flips(H, s, u)
  PROVE  Reflects(H, Whole(s), Whole(u)) /\ Len(Whole(s)) = Len(s)
<1>1. /\ s \in Seq(Int) /\ u \in Seq(Int) /\ Len(u) = Len(s) /\ H \in Int /\ Len(s) \in Nat
      /\ \A i \in 1..Len(s) : u[i] = H - s[i] /\ s[i] \in Int /\ u[i] \in Int
  BY DEF Flips
<1>2. Whole(s) = [i \in 1..Len(s) |-> <<s[i], 1>>] /\ Whole(u) = [i \in 1..Len(s) |-> <<u[i], 1>>]
  BY <1>1 DEF Whole
<1>3. \A i \in 1..Len(s) : <<s[i], 1>> \in Pairs /\ <<u[i], 1>> \in Pairs
  BY <1>1 DEF Pairs
<1>4. /\ Whole(s) \in Seq(Pairs) /\ Len(Whole(s)) = Len(s) /\ Whole(u) \in Seq(Pairs)
      /\ Len(Whole(u)) = Len(s)
  BY <1>1, <1>2, <1>3
<1>5. ASSUME NEW i \in 1..Len(s) PROVE Whole(u)[i] = Reflect(H, Whole(s)[i])
  <2>1. Whole(s)[i] = <<s[i], 1>> /\ Whole(u)[i] = <<H - s[i], 1>>
    BY <1>1, <1>2
  <2>2. Reflect(H, <<s[i], 1>>) = <<H * 1 - s[i], 1>>
    BY DEF Reflect
  <2>3. H * 1 - s[i] = H - s[i]
    BY <1>1
  <2> QED BY <2>1, <2>2, <2>3
<1> QED BY <1>4, <1>5 DEF Reflects

LEMMA AsReflected ==
  ASSUME NEW x \in Pairs
  PROVE  /\ Reflected(x) = Reflect(Height, x)
         /\ Negated(x) = Reflect(0, x) /\ Negated(x) = <<-x[1], x[2]>>
<1>1. PICK p \in Int, q \in Int : x = <<p, q>>
  BY AsPair
<1>2. x # None
  BY <1>1, Something DEF None
<1>3. Reflected(x) = Reflect(Height, x)
  BY <1>2 DEF Reflected, Reflect
<1>4. Negated(x) = <<-p, q>> /\ Negated(x) = <<-x[1], x[2]>>
  BY <1>1, <1>2 DEF Negated
<1>5. Reflect(0, x) = <<0 * q - p, q>>
  BY <1>1 DEF Reflect
<1>6. 0 * q - p = -p
  OBVIOUS
<1> QED BY <1>3, <1>4, <1>5, <1>6

LEMMA EmaFlipped ==
  ASSUME NEW s, NEW u, Flips(Height, s, u)
  PROVE  _ema(Whole(u), Period) = Reflected(_ema(Whole(s), Period))
<1>1. Period \in Nat /\ Height \in Int
  BY IndicatorsAssumption DEF Flips
<1>2. PICK v, w : v = Whole(s) /\ w = Whole(u)
  OBVIOUS
<1>3. Reflects(Height, v, w)
  BY <1>2, WholeReflects
<1>4. PICK x, y : x = _ema(v, Period) /\ y = _ema(w, Period)
  OBVIOUS
<1>5. \/ x = None /\ y = None
      \/ x \in Pairs /\ y = Reflect(Height, x)
  BY <1>1, <1>3, <1>4, EmaOfReflected
<1>6. CASE x = None /\ y = None
  BY <1>2, <1>4, <1>6 DEF Reflected
<1>7. CASE x \in Pairs /\ y = Reflect(Height, x)
  BY <1>2, <1>4, <1>7, AsReflected
<1> QED BY <1>5, <1>6, <1>7

\* The lines of a chart are those of its image, negated: the heights cancel.
LEMMA MacdReflects ==
  ASSUME NEW H, NEW s, NEW u, Flips(H, s, u)
  PROVE  Reflects(0, MacdLines(s), MacdLines(u))
<1>1. H \in Int /\ Len(s) \in Nat
  BY DEF Flips
<1>2. PICK v, w : v = Whole(s) /\ w = Whole(u)
  OBVIOUS
<1>3. Reflects(H, v, w) /\ Len(v) = Len(s)
  BY <1>2, WholeReflects
<1>4. PICK m \in Nat \ {0}, n \in Nat \ {0} : m = Macd[1] /\ n = Macd[2] /\ m <= n
  <2>1. (\A i \in 1..3 : Macd[i] \in Nat \ {0}) /\ Macd[1] <= Macd[2]
    BY IndicatorsAssumption
  <2>2. 1 \in 1..3 /\ 2 \in 1..3
    OBVIOUS
  <2>3. Macd[1] \in Nat \ {0} /\ Macd[2] \in Nat \ {0}
    BY ONLY <2>1, <2>2
  <2> QED BY ONLY <2>1, <2>3
<1>5. PICK a, b, f, g : /\ a = _ema_series(v, n) /\ b = _ema_series(w, n)
                        /\ f = _ema_series(v, m) /\ g = _ema_series(w, m)
  OBVIOUS
<1>6. Reflects(H, a, b) /\ Len(a) = IF Len(v) < n THEN 0 ELSE Len(v) - n + 1
  BY <1>1, <1>3, <1>5, EmaReflected
<1>7. Reflects(H, f, g) /\ Len(f) = IF Len(v) < m THEN 0 ELSE Len(v) - m + 1
  BY <1>1, <1>3, <1>5, EmaReflected
<1>8. PICK l \in Nat : l = Len(a) /\ l = Len(b) /\ l <= Len(f) /\ Len(g) = Len(f) /\ Len(f) \in Nat
  <2>1. PICK k \in Nat, i \in Nat, j \in Nat : k = Len(v) /\ i = Len(a) /\ j = Len(f)
    <3>1. Len(v) \in Nat
      BY ONLY <1>1, <1>3
    <3>2. Len(a) \in Nat
      BY ONLY <1>4, <1>6, <3>1
    <3>3. Len(f) \in Nat
      BY ONLY <1>4, <1>7, <3>1
    <3> QED BY ONLY <3>1, <3>2, <3>3
  <2>2. Len(b) = i /\ Len(g) = j
    <3>1. Len(b) = Len(a)
      BY ONLY <1>6 DEF Reflects
    <3>2. Len(g) = Len(f)
      BY ONLY <1>7 DEF Reflects
    <3> QED BY ONLY <2>1, <3>1, <3>2
  <2>3. (i = IF k < n THEN 0 ELSE k - n + 1) /\ (j = IF k < m THEN 0 ELSE k - m + 1)
    BY ONLY <1>6, <1>7, <2>1
  <2>4. i <= j
    BY ONLY <1>4, <2>1, <2>3
  <2> QED BY ONLY <2>1, <2>2, <2>4
<1>9. PICK x, y : x = Newest(f, l) /\ y = Newest(g, l)
  OBVIOUS
<1>10. Reflects(H, x, y) /\ Len(x) = l
  <2>1. PICK k \in Nat : k = Len(f) /\ k = Len(g) /\ l <= k
    BY <1>8
  <2>2. k - l + 1 \in Int /\ k \in Int /\ 1 <= k - l + 1 /\ k <= Len(f) /\ k - l + 1 <= k + 1
        /\ k - (k - l + 1) + 1 = l
    BY <2>1
  <2>3. Reflects(H, SubSeq(f, k - l + 1, k), SubSeq(g, k - l + 1, k)) /\ Len(SubSeq(f, k - l + 1, k)) = l
    BY <1>7, <2>2, ReflectsPart
  <2> QED BY <1>9, <2>1, <2>3 DEF Newest
<1>11. PICK p, q : p = MacdLines(s) /\ q = MacdLines(u)
  OBVIOUS
<1>12. a \in Seq(Pairs) /\ b \in Seq(Pairs) /\ DOMAIN a = 1..l /\ DOMAIN b = 1..l
  BY <1>6, <1>8 DEF Reflects
<1>13. p = [i \in 1..l |-> <<x[i][1] * a[i][2] - a[i][1] * x[i][2], x[i][2] * a[i][2]>>]
  BY <1>2, <1>4, <1>5, <1>8, <1>9, <1>11, <1>12 DEF MacdLines
<1>14. q = [i \in 1..l |-> <<y[i][1] * b[i][2] - b[i][1] * y[i][2], y[i][2] * b[i][2]>>]
  BY <1>2, <1>4, <1>5, <1>8, <1>9, <1>11, <1>12 DEF MacdLines
<1>15. ASSUME NEW i \in 1..l
       PROVE  p[i] \in Pairs /\ q[i] \in Pairs /\ q[i] = Reflect(0, p[i])
  <2>1. a[i] \in Pairs /\ b[i] = Reflect(H, a[i])
    BY <1>6, <1>8 DEF Reflects
  <2>2. x[i] \in Pairs /\ y[i] = Reflect(H, x[i])
    BY <1>10 DEF Reflects
  <2>3. PICK a1 \in Int, a2 \in Int : a[i] = <<a1, a2>>
    BY <2>1, AsPair
  <2>4. PICK x1 \in Int, x2 \in Int : x[i] = <<x1, x2>>
    BY <2>2, AsPair
  <2>5. b[i] = <<H * a2 - a1, a2>> /\ y[i] = <<H * x2 - x1, x2>>
    BY <2>1, <2>2, <2>3, <2>4 DEF Reflect
  <2>6. p[i] = <<x1 * a2 - a1 * x2, x2 * a2>>
    BY <1>13, <2>3, <2>4
  <2>7. q[i] = <<(H * x2 - x1) * a2 - (H * a2 - a1) * x2, x2 * a2>>
    BY <1>14, <2>5
  <2>8. x1 * a2 - a1 * x2 \in Int /\ x2 * a2 \in Int
    OBVIOUS
  <2>9. (H * x2 - x1) * a2 - (H * a2 - a1) * x2 = 0 * (x2 * a2) - (x1 * a2 - a1 * x2)
    BY <1>1
  <2>10. 0 * (x2 * a2) - (x1 * a2 - a1 * x2) \in Int
    BY <2>8
  <2>11. p[i] \in Pairs
    BY <2>6, <2>8 DEF Pairs
  <2>12. Reflect(0, p[i]) = <<0 * (x2 * a2) - (x1 * a2 - a1 * x2), x2 * a2>>
    BY <2>6 DEF Reflect
  <2>13. Reflect(0, p[i]) \in Pairs
    BY <2>8, <2>10, <2>12 DEF Pairs
  <2> QED BY <2>7, <2>9, <2>11, <2>12, <2>13
<1>16. p \in Seq(Pairs) /\ Len(p) = l
  <2>1. p = [i \in 1..l |-> p[i]]
    BY <1>13
  <2> QED BY ONLY <1>15, <2>1, l \in Nat, SequenceOf
<1>17. q \in Seq(Pairs) /\ Len(q) = l
  <2>1. q = [i \in 1..l |-> q[i]]
    BY <1>14
  <2> QED BY ONLY <1>15, <2>1, l \in Nat, SequenceOf
<1> QED BY <1>11, <1>15, <1>16, <1>17 DEF Reflects

Newer(v) == IF MacdLines(v) = <<>> THEN None ELSE MacdLines(v)[Len(MacdLines(v))]

LEMMA MacdFlipped ==
  ASSUME NEW H, NEW s, NEW u, Flips(H, s, u)
  PROVE  /\ Newer(u) = Negated(Newer(s))
         /\ _ema(MacdLines(u), Macd[3]) = Negated(_ema(MacdLines(s), Macd[3]))
<1>1. PICK p, q : p = MacdLines(s) /\ q = MacdLines(u)
  OBVIOUS
<1>2. PICK o \in Int : o = 0
  OBVIOUS
<1>3. Reflects(o, p, q)
  BY <1>1, <1>2, MacdReflects
<1>4. p \in Seq(Pairs) /\ q \in Seq(Pairs) /\ Len(q) = Len(p) /\ Len(p) \in Nat
  BY <1>3 DEF Reflects
<1>5. Newer(u) = Negated(Newer(s))
  <2>1. CASE Len(p) = 0
    <3>1. p = <<>> /\ q = <<>>
      BY <1>4, <2>1
    <3> QED BY <1>1, <3>1 DEF Newer, Negated
  <2>2. CASE Len(p) # 0
    <3>1. p # <<>> /\ q # <<>> /\ Len(p) \in 1..Len(p)
      BY <1>4, <2>2
    <3>2. PICK x, y : x = p[Len(p)] /\ y = q[Len(p)]
      OBVIOUS
    <3>3. x \in Pairs /\ y = Reflect(o, x)
      BY <1>3, <3>1, <3>2 DEF Reflects
    <3>4. Newer(s) = x /\ Newer(u) = y
      BY <1>1, <1>4, <3>1, <3>2 DEF Newer
    <3> QED BY <1>2, <3>3, <3>4, AsReflected
  <2> QED BY <2>1, <2>2
<1>6. PICK n \in Nat : n = Macd[3]
  BY IndicatorsAssumption
<1>7. PICK x, y : x = _ema(p, n) /\ y = _ema(q, n)
  OBVIOUS
<1>8. \/ x = None /\ y = None
      \/ x \in Pairs /\ y = Reflect(o, x)
  BY <1>3, <1>7, EmaOfReflected
<1>9. y = Negated(x)
  <2>1. CASE x = None /\ y = None
    BY <2>1 DEF Negated
  <2>2. CASE x \in Pairs /\ y = Reflect(o, x)
    BY <1>2, <2>2, AsReflected
  <2> QED BY <1>8, <2>1, <2>2
<1> QED BY <1>1, <1>5, <1>6, <1>7, <1>9

-----------------------------------------------------------------------------
(* Levels and ranges.                                                      *)

LEMMA LevelsFlip ==
  ASSUME NEW c \in Seq(Priced), Height \in Int, Period <= Len(c)
  PROVE  /\ Highest(c) \in Int /\ Lowest(c) \in Int
         /\ Highest(UpsideDown(c)) = Height - Lowest(c) /\ Lowest(UpsideDown(c)) = Height - Highest(c)
<1>1. PICK P \in Nat : P = Period /\ P > 0 /\ P <= Len(c)
  BY IndicatorsAssumption
<1>2. PICK w, x : w = Newest(c, P) /\ x = Newest(UpsideDown(c), P)
  OBVIOUS
<1>3. w \in Seq(Priced) /\ Len(w) = P
  BY <1>1, <1>2, NewestIs
<1>4. x = UpsideDown(w)
  BY <1>1, <1>2, NewestTurned
<1>5. /\ Flips(Height, low(w), high(x)) /\ Len(low(w)) = P
      /\ Flips(Height, high(w), low(x)) /\ Len(high(w)) = P
  BY <1>3, <1>4, PricesFlip
<1>6. ASSUME NEW s, NEW u, Flips(Height, s, u), Len(s) = P
      PROVE  /\ Max(Range(s)) \in Int /\ Min(Range(s)) \in Int
             /\ Max(Range(u)) = Height - Min(Range(s)) /\ Min(Range(u)) = Height - Max(Range(s))
  <2>1. /\ s \in Seq(Int) /\ u \in Seq(Int) /\ Len(u) = P
        /\ \A i \in 1..P : u[i] = Height - s[i] /\ s[i] \in Int /\ u[i] \in Int
    BY <1>6 DEF Flips
  <2>2. PICK t, r : t = Range(s) /\ r = Range(u)
    OBVIOUS
  <2>3. t \in SUBSET Int /\ IsFiniteSet(t) /\ t # {} /\ r \in SUBSET Int
    BY <1>1, <1>6, <2>1, <2>2, RangeIs
  <2>4. t = {s[i] : i \in 1..P} /\ r = {u[i] : i \in 1..P}
    <3>1. DOMAIN s = 1..P /\ DOMAIN u = 1..P
      BY <1>6, <2>1
    <3> QED BY <2>2, <3>1 DEF Range
  <2>5. ASSUME NEW k \in Int PROVE k \in r <=> Height - k \in t
    <3>1. ASSUME k \in r PROVE Height - k \in t
      <4>1. PICK i \in 1..P : k = u[i]
        BY <2>4, <3>1
      <4>2. Height - k = s[i]
        BY <2>1, <4>1
      <4> QED BY <2>4, <4>2
    <3>2. ASSUME Height - k \in t PROVE k \in r
      <4>1. PICK i \in 1..P : Height - k = s[i]
        BY <2>4, <3>2
      <4>2. k = u[i]
        BY <2>1, <4>1
      <4> QED BY <2>4, <4>2
    <3> QED BY <3>1, <3>2
  <2>6. Max(t) \in Int /\ Min(t) \in Int /\ Max(r) = Height - Min(t) /\ Min(r) = Height - Max(t)
    BY <2>3, <2>5, ExtremesReflected
  <2> QED BY <2>2, <2>6
<1>7. PICK s, t, u, v : s = low(w) /\ u = high(x) /\ t = high(w) /\ v = low(x)
  OBVIOUS
<1>8. /\ Min(Range(s)) \in Int /\ Max(Range(u)) = Height - Min(Range(s))
  BY <1>5, <1>6, <1>7
<1>9. /\ Max(Range(t)) \in Int /\ Min(Range(v)) = Height - Max(Range(t))
  BY <1>5, <1>6, <1>7
<1>10. Highest(c) = Max(Range(t)) /\ Lowest(c) = Min(Range(s))
  BY <1>1, <1>2, <1>7 DEF Highest, Lowest
<1>11. Highest(UpsideDown(c)) = Max(Range(u)) /\ Lowest(UpsideDown(c)) = Min(Range(v))
  BY <1>1, <1>2, <1>7 DEF Highest, Lowest
<1> QED BY <1>8, <1>9, <1>10, <1>11

LEMMA MidpointFlipped ==
  ASSUME NEW c \in Seq(Priced), Height \in Int
  PROVE  midpoint(UpsideDown(c)) = Reflected(midpoint(c))
<1>1. PICK u : u = UpsideDown(c)
  OBVIOUS
<1>2. Len(u) = Len(c) /\ Len(c) \in Nat /\ Period \in Nat
  BY <1>1, Turns, IndicatorsAssumption
<1>3. CASE Len(c) < Period
  BY <1>1, <1>2, <1>3 DEF midpoint, Reflected, None
<1>4. CASE ~(Len(c) < Period)
  <2>1. PICK h \in Int, l \in Int : /\ h = Highest(c) /\ l = Lowest(c)
                                    /\ Highest(u) = Height - l /\ Lowest(u) = Height - h
    BY <1>1, <1>2, <1>4, LevelsFlip
  <2>2. midpoint(c) = <<h + l, 2>> /\ midpoint(u) = <<(Height - l) + (Height - h), 2>>
    BY <1>2, <1>4, <2>1 DEF midpoint
  <2>3. Reflected(<<h + l, 2>>) = <<Height * 2 - (h + l), 2>>
    BY Something DEF Reflected, None
  <2>4. (Height - l) + (Height - h) = Height * 2 - (h + l)
    OBVIOUS
  <2> QED BY <1>1, <2>2, <2>3, <2>4
<1> QED BY <1>3, <1>4

LEMMA DonchianFlipped ==
  ASSUME NEW c \in Seq(Priced), Height \in Int
  PROVE  /\ Of(UpsideDown(c))["donchian_high"] = Reflected(Of(c)["donchian_low"])
         /\ Of(UpsideDown(c))["donchian_low"] = Reflected(Of(c)["donchian_high"])
<1>1. PICK u : u = UpsideDown(c)
  OBVIOUS
<1>2. Len(u) = Len(c) /\ Len(c) \in Nat /\ Period \in Nat
  BY <1>1, Turns, IndicatorsAssumption
<1>3. \A x \in Seq(Priced) :
        /\ Of(x)["donchian_high"] = IF Len(x) < Period THEN None ELSE <<Highest(x), 1>>
        /\ Of(x)["donchian_low"] = IF Len(x) < Period THEN None ELSE <<Lowest(x), 1>>
  BY DEF Of
<1>4. u \in Seq(Priced)
  BY <1>1, Turns
<1>5. CASE Len(c) < Period
  BY <1>1, <1>2, <1>3, <1>4, <1>5 DEF Reflected, None
<1>6. CASE ~(Len(c) < Period)
  <2>1. PICK h \in Int, l \in Int : /\ h = Highest(c) /\ l = Lowest(c)
                                    /\ Highest(u) = Height - l /\ Lowest(u) = Height - h
    BY <1>1, <1>2, <1>6, LevelsFlip
  <2>2. /\ Of(c)["donchian_high"] = <<h, 1>> /\ Of(c)["donchian_low"] = <<l, 1>>
        /\ Of(u)["donchian_high"] = <<Height - l, 1>> /\ Of(u)["donchian_low"] = <<Height - h, 1>>
    BY <1>2, <1>3, <1>4, <1>6, <2>1
  <2>3. Reflected(<<h, 1>>) = <<Height * 1 - h, 1>> /\ Reflected(<<l, 1>>) = <<Height * 1 - l, 1>>
    BY Something DEF Reflected, None
  <2>4. Height * 1 - h = Height - h /\ Height * 1 - l = Height - l
    OBVIOUS
  <2> QED BY <1>1, <2>2, <2>3, <2>4
<1> QED BY <1>5, <1>6

LEMMA StochasticFlipped ==
  ASSUME NEW c \in Seq(Priced), Height \in Int
  PROVE  _stochastic_k(UpsideDown(c)) = Remainder(_stochastic_k(c))
<1>1. PICK u : u = UpsideDown(c)
  OBVIOUS
<1>2. Len(u) = Len(c) /\ Len(c) \in Nat /\ Period \in Nat /\ Period > 0 /\ u \in Seq(Priced)
  BY <1>1, Turns, IndicatorsAssumption
<1>3. CASE Len(c) < Period
  BY <1>1, <1>2, <1>3 DEF _stochastic_k, Remainder, None
<1>4. CASE ~(Len(c) < Period)
  <2>1. PICK h \in Int, l \in Int : /\ h = Highest(c) /\ l = Lowest(c)
                                    /\ Highest(u) = Height - l /\ Lowest(u) = Height - h
    BY <1>1, <1>2, <1>4, LevelsFlip
  <2>2. SubSeq(u, 1, Len(c)) = u /\ SubSeq(c, 1, Len(c)) = c
    BY <1>2, WholeSequence
  <2>3. Len(c) \in 1..Len(c)
    BY <1>2, <1>4
  <2>4. PICK k \in Int : k = c[Len(c)].close /\ u[Len(c)].close = Height - k
    <3>1. c[Len(c)] \in Priced /\ u[Len(c)] = Turned(c[Len(c)])
      BY <1>1, <2>3, Turns
    <3>2. c[Len(c)].close \in Int
      BY <3>1 DEF Priced
    <3> QED BY <3>1, <3>2, TurnedIs
  <2>5. _stochastic_k(c) = IF h = l THEN <<1, 2>> ELSE <<k - l, h - l>>
    BY <1>2, <1>4, <2>1, <2>2, <2>4 DEF _stochastic_k, InRange
  <2>6. _stochastic_k(u) = IF Height - l = Height - h THEN <<1, 2>>
                           ELSE <<(Height - k) - (Height - h), (Height - l) - (Height - h)>>
    BY <1>2, <1>4, <2>1, <2>2, <2>4 DEF _stochastic_k, InRange
  <2>7. CASE h = l
    <3>1. Remainder(<<1, 2>>) = <<2 - 1, 2>>
      BY Something DEF Remainder, None
    <3>2. 2 - 1 = 1
      OBVIOUS
    <3> QED BY <1>1, <2>5, <2>6, <2>7, <3>1, <3>2
  <2>8. CASE h # l
    <3>1. Remainder(<<k - l, h - l>>) = <<(h - l) - (k - l), h - l>>
      BY Something DEF Remainder, None
    <3>2. /\ (Height - k) - (Height - h) = (h - l) - (k - l)
          /\ (Height - l) - (Height - h) = h - l /\ Height - l # Height - h
      BY <2>8
    <3> QED BY <1>1, <2>5, <2>6, <2>8, <3>1, <3>2
  <2> QED BY <2>7, <2>8
<1> QED BY <1>3, <1>4

\* Down moves of a chart are up moves of its image, and a range is a range.
LEMMA RangesStay ==
  ASSUME NEW c \in Seq(Priced), Height \in Int
  PROVE  _true_ranges(UpsideDown(c)) = _true_ranges(c)
<1>1. PICK u : u = UpsideDown(c)
  OBVIOUS
<1>2. u \in Seq(Priced) /\ Len(u) = Len(c) /\ \A i \in 1..Len(c) : u[i] = Turned(c[i])
  BY <1>1, Turns
<1>3. \A i \in 1..Len(c) : /\ c[i].high \in Int /\ c[i].low \in Int /\ c[i].close \in Int
                           /\ u[i].high = Height - c[i].low /\ u[i].low = Height - c[i].high
                           /\ u[i].close = Height - c[i].close
  <2> SUFFICES ASSUME NEW i \in 1..Len(c)
               PROVE  /\ c[i].high \in Int /\ c[i].low \in Int /\ c[i].close \in Int
                      /\ u[i].high = Height - c[i].low /\ u[i].low = Height - c[i].high
                      /\ u[i].close = Height - c[i].close
    OBVIOUS
  <2>1. c[i] \in Priced
    OBVIOUS
  <2>2. c[i].high \in Int /\ c[i].low \in Int /\ c[i].close \in Int
    BY <2>1 DEF Priced
  <2> QED BY <1>2, <2>1, <2>2, TurnedIs
<1>4. PICK t, r : t = _true_ranges(c) /\ r = _true_ranges(u)
  OBVIOUS
<1>5. /\ t \in Seq(Nat) /\ Len(t) = Len(c)
      /\ \A i \in 1..Len(c) :
           t[i] = IF i = 1 THEN c[1].high - c[1].low
                  ELSE Max({c[i].high - c[i].low, Magnitude(c[i].high - c[i - 1].close),
                            Magnitude(c[i].low - c[i - 1].close)})
  BY <1>4, TrueRanges
<1>6. /\ r \in Seq(Nat) /\ Len(r) = Len(u)
      /\ \A i \in 1..Len(u) :
           r[i] = IF i = 1 THEN u[1].high - u[1].low
                  ELSE Max({u[i].high - u[i].low, Magnitude(u[i].high - u[i - 1].close),
                            Magnitude(u[i].low - u[i - 1].close)})
  BY <1>2, <1>4, TrueRanges
<1>7. ASSUME NEW i \in 1..Len(c) PROVE r[i] = t[i]
  <2>1. i \in 1..Len(u)
    BY <1>2
  <2>2. CASE i = 1
    <3>1. 1 \in 1..Len(c)
      BY <2>2
    <3>2. PICK h \in Int, l \in Int : /\ h = c[1].high /\ l = c[1].low
                                      /\ u[1].high = Height - l /\ u[1].low = Height - h
      BY <1>3, <3>1
    <3>3. (Height - l) - (Height - h) = h - l
      OBVIOUS
    <3>4. t[1] = h - l /\ r[1] = (Height - l) - (Height - h)
      BY <1>5, <1>6, <2>1, <2>2, <3>2
    <3> QED BY <2>2, <3>3, <3>4
  <2>3. CASE i # 1
    <3>1. PICK j \in 1..Len(c) : j = i - 1
      BY <2>3
    <3>2. PICK h \in Int, l \in Int, k \in Int :
            /\ h = c[i].high /\ l = c[i].low /\ k = c[j].close
            /\ u[i].high = Height - l /\ u[i].low = Height - h /\ u[j].close = Height - k
      BY <1>3
    <3>3. t[i] = Max({h - l, Magnitude(h - k), Magnitude(l - k)})
      BY <1>5, <2>3, <3>1, <3>2
    <3>4. r[i] = Max({(Height - l) - (Height - h), Magnitude((Height - l) - (Height - k)),
                      Magnitude((Height - h) - (Height - k))})
      BY <1>6, <2>1, <2>3, <3>1, <3>2
    <3>5. /\ (Height - l) - (Height - h) = h - l
          /\ Magnitude((Height - l) - (Height - k)) = Magnitude(l - k)
          /\ Magnitude((Height - h) - (Height - k)) = Magnitude(h - k)
      BY DEF Magnitude
    <3>6. {h - l, Magnitude(h - k), Magnitude(l - k)} = {h - l, Magnitude(l - k), Magnitude(h - k)}
      OBVIOUS
    <3> QED BY <3>3, <3>4, <3>5, <3>6
  <2> QED BY <2>2, <2>3
<1>8. r = t
  BY <1>2, <1>5, <1>6, <1>7, SeqEqual
<1> QED BY <1>1, <1>4, <1>8

LEMMA Directional ==
  ASSUME NEW c \in Seq(Priced)
  PROVE  /\ plus_dm(c) \in Seq(Int) /\ Len(plus_dm(c)) = Len(c)
         /\ \A i \in 1..Len(c) : plus_dm(c)[i] = IF i > 1 /\ Up(c, i) > Down(c, i) /\ Up(c, i) > 0
                                                 THEN Up(c, i) ELSE 0
         /\ minus_dm(c) \in Seq(Int) /\ Len(minus_dm(c)) = Len(c)
         /\ \A i \in 1..Len(c) : minus_dm(c)[i] = IF i > 1 /\ Down(c, i) > Up(c, i) /\ Down(c, i) > 0
                                                  THEN Down(c, i) ELSE 0
<1>1. Len(c) \in Nat /\ DOMAIN c = 1..Len(c) /\ \A i \in 1..Len(c) : c[i] \in Priced
  OBVIOUS
<1>2. ASSUME NEW i \in 1..Len(c), i > 1 PROVE Up(c, i) \in Int /\ Down(c, i) \in Int
  <2>1. PICK j \in 1..Len(c) : j = i - 1
    BY <1>1, <1>2
  <2>2. c[i].high \in Int /\ c[i].low \in Int /\ c[j].high \in Int /\ c[j].low \in Int
    BY <1>1 DEF Priced
  <2> QED BY <2>1, <2>2 DEF Up, Down
<1>3. plus_dm(c) = [i \in 1..Len(c) |-> IF i > 1 /\ Up(c, i) > Down(c, i) /\ Up(c, i) > 0
                                        THEN Up(c, i) ELSE 0]
  BY <1>1 DEF plus_dm
<1>4. minus_dm(c) = [i \in 1..Len(c) |-> IF i > 1 /\ Down(c, i) > Up(c, i) /\ Down(c, i) > 0
                                         THEN Down(c, i) ELSE 0]
  BY <1>1 DEF minus_dm
<1> QED BY <1>1, <1>2, <1>3, <1>4

LEMMA DirectionsTurn ==
  ASSUME NEW c \in Seq(Priced), Height \in Int
  PROVE  plus_dm(UpsideDown(c)) = minus_dm(c) /\ minus_dm(UpsideDown(c)) = plus_dm(c)
<1>1. PICK u : u = UpsideDown(c)
  OBVIOUS
<1>2. u \in Seq(Priced) /\ Len(u) = Len(c) /\ \A i \in 1..Len(c) : u[i] = Turned(c[i])
  BY <1>1, Turns
<1>3. ASSUME NEW i \in 1..Len(c), i > 1 PROVE Up(u, i) = Down(c, i) /\ Down(u, i) = Up(c, i)
  <2>1. PICK j \in 1..Len(c) : j = i - 1
    BY <1>3
  <2>2. c[i] \in Priced /\ c[j] \in Priced
    OBVIOUS
  <2>3. PICK h \in Int, l \in Int, g \in Int, k \in Int :
          h = c[i].high /\ l = c[i].low /\ g = c[j].high /\ k = c[j].low
    BY <2>2 DEF Priced
  <2>4. /\ u[i].high = Height - l /\ u[i].low = Height - h
        /\ u[j].high = Height - k /\ u[j].low = Height - g
    BY <1>2, <2>2, <2>3, TurnedIs
  <2>5. /\ Up(u, i) = (Height - l) - (Height - k) /\ Down(u, i) = (Height - g) - (Height - h)
        /\ Up(c, i) = h - g /\ Down(c, i) = k - l
    BY <2>1, <2>3, <2>4 DEF Up, Down
  <2> QED BY <2>5
<1>4. PICK p, m, q, n : p = plus_dm(c) /\ m = minus_dm(c) /\ q = plus_dm(u) /\ n = minus_dm(u)
  OBVIOUS
<1>5. /\ p \in Seq(Int) /\ Len(p) = Len(c)
      /\ \A i \in 1..Len(c) : p[i] = IF i > 1 /\ Up(c, i) > Down(c, i) /\ Up(c, i) > 0
                                     THEN Up(c, i) ELSE 0
      /\ m \in Seq(Int) /\ Len(m) = Len(c)
      /\ \A i \in 1..Len(c) : m[i] = IF i > 1 /\ Down(c, i) > Up(c, i) /\ Down(c, i) > 0
                                     THEN Down(c, i) ELSE 0
  BY <1>4, Directional
<1>6. /\ q \in Seq(Int) /\ Len(q) = Len(u)
      /\ \A i \in 1..Len(u) : q[i] = IF i > 1 /\ Up(u, i) > Down(u, i) /\ Up(u, i) > 0
                                     THEN Up(u, i) ELSE 0
      /\ n \in Seq(Int) /\ Len(n) = Len(u)
      /\ \A i \in 1..Len(u) : n[i] = IF i > 1 /\ Down(u, i) > Up(u, i) /\ Down(u, i) > 0
                                     THEN Down(u, i) ELSE 0
  BY <1>2, <1>4, Directional
<1>7. ASSUME NEW i \in 1..Len(c) PROVE q[i] = m[i] /\ n[i] = p[i]
  <2>1. i \in 1..Len(u)
    BY <1>2
  <2>2. CASE i > 1
    BY <1>3, <1>5, <1>6, <2>1, <2>2
  <2>3. CASE ~(i > 1)
    BY <1>5, <1>6, <2>1, <2>3
  <2> QED BY <2>2, <2>3
<1>8. q = m
  BY <1>2, <1>5, <1>6, <1>7, SeqEqual
<1>9. n = p
  BY <1>2, <1>5, <1>6, <1>7, SeqEqual
<1> QED BY <1>1, <1>4, <1>8, <1>9

-----------------------------------------------------------------------------
(* Directions and flows.                                                   *)

LEMMA InTyped ==
  ASSUME NEW v \in Seq(Int), NEW end \in Period..Len(v)
  PROVE  In(v, end) \in Int
<1>1. /\ Period \in Nat /\ Period > 0 /\ Len(v) \in Nat /\ end \in Int /\ end - Period + 1 \in Int
      /\ end - Period + 1 >= 1 /\ end <= Len(v)
  BY IndicatorsAssumption
<1>2. PICK s : s = SubSeq(v, end - Period + 1, end)
  OBVIOUS
<1>3. s \in Seq(Int)
  BY <1>1, <1>2
<1>4. SumOf(s) \in Int
  BY <1>3, SumInt
<1> QED BY <1>2, <1>4 DEF In

LEMMA BeforeIs ==
  ASSUME NEW w \in SUBSET Int, IsFiniteSet(w), NEW n \in 0..(Cardinality(w) - 1)
  PROVE  Before(w, n) \in w
<1> DEFINE R == {x \in w \X w : x[1] > x[2]}
<1>1. ASSUME NEW x \in w, NEW y \in w PROVE x \in Int /\ y \in Int /\ (<<x, y>> \in R <=> x > y)
  OBVIOUS
<1> HIDE DEF R
<1>2. Orders(R, w)
  <2>1. \A x \in w : <<x, x>> \notin R
    BY <1>1
  <2>2. \A x, y, z \in w : <<x, y>> \in R /\ <<y, z>> \in R => <<x, z>> \in R
    BY <1>1
  <2>3. \A x, y \in w : x # y => <<x, y>> \in R \/ <<y, x>> \in R
    BY <1>1
  <2> QED BY <2>1, <2>2, <2>3 DEF Orders
<1>3. PICK x \in w : Cardinality(Below(R, w, x)) = n
  BY <1>2, RankExists
<1>4. Below(R, w, x) = {later \in w : later > x}
  BY <1>1 DEF Below
<1>5. \E end \in w : Cardinality({later \in w : later > end}) = n
  BY <1>3, <1>4
<1> QED BY <1>5 DEF Before

LEMMA DirectionFlipped ==
  ASSUME NEW c \in Seq(Priced), Height \in Int
  PROVE  /\ _di(UpsideDown(c), plus_dm(UpsideDown(c))) = _di(c, minus_dm(c))
         /\ _di(UpsideDown(c), minus_dm(UpsideDown(c))) = _di(c, plus_dm(c))
<1>1. PICK u : u = UpsideDown(c)
  OBVIOUS
<1>2. /\ Len(u) = Len(c) /\ _true_ranges(u) = _true_ranges(c)
      /\ plus_dm(u) = minus_dm(c) /\ minus_dm(u) = plus_dm(c)
  BY <1>1, Turns, RangesStay, DirectionsTurn
<1> QED BY <1>1, <1>2 DEF _di

LEMMA AdxStays ==
  ASSUME NEW c \in Seq(Priced), Height \in Int
  PROVE  _adx(UpsideDown(c)) = _adx(c)
<1>1. PICK u : u = UpsideDown(c)
  OBVIOUS
<1>2. /\ Len(u) = Len(c) /\ _true_ranges(u) = _true_ranges(c)
      /\ plus_dm(u) = minus_dm(c) /\ minus_dm(u) = plus_dm(c)
  BY <1>1, Turns, RangesStay, DirectionsTurn
<1>3. /\ plus_dm(c) \in Seq(Int) /\ Len(plus_dm(c)) = Len(c)
      /\ minus_dm(c) \in Seq(Int) /\ Len(minus_dm(c)) = Len(c)
  BY Directional
<1>4. PICK w : w = Windows(_true_ranges(c))
  OBVIOUS
<1>5. PICK P \in Nat, L \in Nat : P = Period /\ L = Len(c)
  BY IndicatorsAssumption
<1>6. w \in SUBSET (P..L)
  <2>1. Len(_true_ranges(c)) = L
    BY <1>5, TrueRanges
  <2> QED BY <1>4, <1>5, <2>1 DEF Windows
<1>7. IsFiniteSet(w) /\ w \in SUBSET Int
  <2>1. P \in Int /\ L \in Int
    OBVIOUS
  <2>2. IsFiniteSet(P..L)
    BY <2>1, FS_Interval
  <2>3. PICK S : S = P..L
    OBVIOUS
  <2>4. IsFiniteSet(S) /\ w \in SUBSET S
    BY <1>6, <2>2, <2>3
  <2>5. IsFiniteSet(w)
    BY ONLY <2>4, FS_Subset
  <2>6. w \in SUBSET Int
    BY <1>6, <2>1
  <2> QED BY <2>5, <2>6
<1>8. ASSUME NEW end \in w PROVE dx(u, end) = dx(c, end)
  <2>1. end \in Period..Len(plus_dm(c)) /\ end \in Period..Len(minus_dm(c))
    <3>1. end \in P..L
      BY <1>6
    <3>2. Len(plus_dm(c)) = L /\ Len(minus_dm(c)) = L
      BY <1>3, <1>5
    <3> QED BY <1>5, <3>1, <3>2
  <2>2. PICK p \in Int, q \in Int : p = In(plus_dm(c), end) /\ q = In(minus_dm(c), end)
    BY <1>3, <2>1, InTyped
  <2>3. dx(c, end) = IF p + q = 0 THEN <<0, 1>> ELSE <<Magnitude(p - q), p + q>>
    BY <2>2 DEF dx
  <2>4. dx(u, end) = IF q + p = 0 THEN <<0, 1>> ELSE <<Magnitude(q - p), q + p>>
    BY <1>2, <2>2 DEF dx
  <2>5. q + p = p + q /\ Magnitude(q - p) = Magnitude(p - q)
    BY DEF Magnitude
  <2> QED BY <2>3, <2>4, <2>5
<1>9. CASE Len(c) < Period + 1 \/ Cardinality(w) < Period
  BY <1>1, <1>2, <1>4, <1>9 DEF _adx
<1>10. CASE ~(Len(c) < Period + 1 \/ Cardinality(w) < Period)
  <2>1. _adx(c) = [i \in 1..Period |-> dx(c, Before(w, Period - i))]
    BY <1>4, <1>10 DEF _adx
  <2>2. _adx(u) = [i \in 1..Period |-> dx(u, Before(w, Period - i))]
    BY <1>2, <1>4, <1>10 DEF _adx
  <2>3. ASSUME NEW i \in 1..Period PROVE dx(u, Before(w, Period - i)) = dx(c, Before(w, Period - i))
    <3>1. Cardinality(w) \in Nat
      BY <1>7, FS_CardinalityType
    <3>2. PICK n \in 0..(Cardinality(w) - 1) : n = Period - i
      BY <1>5, <1>10, <3>1
    <3>3. Before(w, n) \in w
      BY <1>7, BeforeIs
    <3> QED BY <1>8, <3>2, <3>3
  <2> QED BY <1>1, <2>1, <2>2, <2>3
<1> QED BY <1>9, <1>10

\* Volumes stay, and the turnover is seen from three times the height.
LEMMA VwapFlipped ==
  ASSUME NEW c \in Seq(Priced), Height \in Int
  PROVE  _vwap(UpsideDown(c)) = Reflected(_vwap(c))
<1>1. PICK u : u = UpsideDown(c)
  OBVIOUS
<1>2. Len(u) = Len(c) /\ Len(c) \in Nat /\ Period \in Nat
  BY <1>1, Turns, IndicatorsAssumption
<1>3. CASE Len(c) < Period
  BY <1>1, <1>2, <1>3 DEF _vwap, Reflected, None
<1>4. CASE ~(Len(c) < Period)
  <2>1. PICK w, x : w = Newest(c, Period) /\ x = Newest(u, Period)
    OBVIOUS
  <2>2. w \in Seq(Priced) /\ Len(w) \in Nat
    BY <1>2, <1>4, <2>1, NewestIs
  <2>3. x = UpsideDown(w)
    BY <1>1, <1>2, <1>4, <2>1, NewestTurned
  <2>4. x \in Seq(Priced) /\ Len(x) = Len(w) /\ \A i \in 1..Len(w) : x[i] = Turned(w[i])
    BY <2>2, <2>3, Turns
  <2>5. \A i \in 1..Len(w) : x[i].volume = w[i].volume /\ w[i].volume \in Int
    <3> SUFFICES ASSUME NEW i \in 1..Len(w) PROVE x[i].volume = w[i].volume /\ w[i].volume \in Int
      OBVIOUS
    <3>1. w[i] \in Priced
      BY <2>2
    <3>2. w[i].volume \in Int
      BY <3>1 DEF Priced
    <3> QED BY <2>4, <3>1, <3>2, TurnedIs
  <2>6. Flips(3 * Height, typical(w), typical(x)) /\ Len(typical(w)) = Len(w)
    BY <2>2, <2>3, PricesFlip
  <2>7. \A i \in 1..Len(w) : /\ typical(w)[i] \in Int /\ typical(x)[i] \in Int
                             /\ typical(x)[i] = 3 * Height - typical(w)[i]
    BY <2>6 DEF Flips
  <2> DEFINE v == [i \in 1..Len(w) |-> w[i].volume]
             t == [i \in 1..Len(w) |-> typical(w)[i] * w[i].volume]
             r == [i \in 1..Len(w) |-> typical(x)[i] * x[i].volume]
  <2>8. v \in Seq(Int) /\ Len(v) = Len(w) /\ t \in Seq(Int) /\ Len(t) = Len(w)
        /\ r \in Seq(Int) /\ Len(r) = Len(w)
    <3>1. PICK n \in Nat : n = Len(w)
      BY <2>2
    <3>2. ASSUME NEW i \in 1..n
          PROVE  /\ w[i].volume \in Int /\ typical(w)[i] * w[i].volume \in Int
                 /\ typical(x)[i] * x[i].volume \in Int
      <4>1. PICK p \in Int, q \in Int, k \in Int : p = typical(w)[i] /\ q = typical(x)[i] /\ k = w[i].volume
        BY <2>5, <2>7, <3>1
      <4>2. x[i].volume = k
        BY <2>5, <3>1, <4>1
      <4>3. p * k \in Int /\ q * k \in Int
        OBVIOUS
      <4> QED BY <4>1, <4>2, <4>3
    <3>3. v \in Seq(Int) /\ Len(v) = n
      BY <3>1, <3>2
    <3>4. t \in Seq(Int) /\ Len(t) = n
      <4>1. t = [i \in 1..n |-> typical(w)[i] * w[i].volume]
        BY <3>1
      <4> HIDE DEF t
      <4>2. t \in [1..n -> Int]
        BY <3>2, <4>1
      <4> QED BY <4>2
    <3>5. r \in Seq(Int) /\ Len(r) = n
      <4>1. r = [i \in 1..n |-> typical(x)[i] * x[i].volume]
        BY <3>1
      <4> HIDE DEF r
      <4>2. r \in [1..n -> Int]
        BY <3>2, <4>1
      <4> QED BY <4>2
    <3> QED BY <3>1, <3>3, <3>4, <3>5
  <2>30. DOMAIN w = 1..Len(w) /\ DOMAIN x = 1..Len(w)
    BY <2>2, <2>4
  <2>9. Volume(w) = SumOf(v) /\ Turnover(w) = SumOf(t)
    BY <2>30 DEF Volume, Turnover
  <2>10. Turnover(x) = SumOf(r)
    BY <2>30 DEF Turnover
  <2>11. Volume(x) = Volume(w)
    <3> DEFINE z == [i \in 1..Len(w) |-> x[i].volume]
    <3>1. Volume(x) = SumOf(z)
      BY <2>30 DEF Volume
    <3>2. z = v
      BY <2>5
    <3> QED BY <2>9, <3>1, <3>2
  <2>12. PICK o \in Int, A \in Int, m \in Int : o = 0 /\ A = 3 * Height /\ m = -1
    <3>1. 3 * Height \in Int
      OBVIOUS
    <3> QED BY <3>1
  <2>13. ASSUME NEW i \in 1..Len(w) PROVE r[i] = o + A * v[i] + m * t[i]
    <3>1. PICK p \in Int, q \in Int : p = typical(w)[i] /\ q = w[i].volume
      BY <2>5, <2>7
    <3>2. v[i] = q /\ t[i] = p * q /\ r[i] = (A - p) * q
      BY <2>5, <2>7, <2>12, <3>1
    <3>3. p * q \in Int /\ (A - p) * q = A * q - p * q
      OBVIOUS
    <3> QED BY <2>12, <3>2, <3>3
  <2> HIDE DEF v, t, r
  <2>14. Combines(r, o, A, v, m, t)
    BY <2>8, <2>13 DEF Combines
  <2>15. SumOf(r) = Len(v) * o + A * SumOf(v) + m * SumOf(t)
    BY ONLY <2>14, SumLinear
  <2>16. PICK V \in Int, T \in Int : V = SumOf(v) /\ T = SumOf(t)
    BY <2>8, SumInt
  <2>17. Turnover(x) = A * V - T
    <3>1. PICK n \in Nat : n = Len(v)
      BY <2>2, <2>8
    <3>2. SumOf(r) = n * o + A * V + m * T
      BY <2>15, <2>16, <3>1
    <3> QED BY <2>10, <2>12, <3>2
  <2>18. _vwap(c) = IF V <= 0 THEN None ELSE <<T, 3 * V>>
    BY <1>2, <1>4, <2>1, <2>9, <2>16 DEF _vwap
  <2>19. _vwap(u) = IF V <= 0 THEN None ELSE <<A * V - T, 3 * V>>
    BY <1>2, <1>4, <2>1, <2>9, <2>11, <2>16, <2>17 DEF _vwap
  <2>20. CASE V <= 0
    BY <1>1, <2>18, <2>19, <2>20 DEF Reflected
  <2>21. CASE ~(V <= 0)
    <3>1. Reflected(<<T, 3 * V>>) = <<Height * (3 * V) - T, 3 * V>>
      BY Something DEF Reflected, None
    <3>2. A * V - T = Height * (3 * V) - T
      BY <2>12
    <3> QED BY <1>1, <2>18, <2>19, <2>21, <3>1, <3>2
  <2> QED BY <2>20, <2>21
<1> QED BY <1>3, <1>4

LEMMA MomentumFlipped ==
  ASSUME NEW c \in Seq(Priced), Height \in Int
  PROVE  Of(UpsideDown(c))["momentum"] = Negated(Of(c)["momentum"])
<1>1. PICK u : u = UpsideDown(c)
  OBVIOUS
<1>2. /\ Len(u) = Len(c) /\ Len(c) \in Nat /\ Period \in Nat
      /\ \A i \in 1..Len(c) : u[i] = Turned(c[i])
  BY <1>1, Turns, IndicatorsAssumption
<1>3. \A x : Of(x)["momentum"] = IF Len(x) < Period + 1 THEN None
                                 ELSE <<x[Len(x)].close - x[Len(x) - Period].close, 1>>
  BY DEF Of
<1>4. CASE Len(c) < Period + 1
  BY <1>1, <1>2, <1>3, <1>4 DEF Negated, None
<1>5. CASE ~(Len(c) < Period + 1)
  <2>1. PICK i \in 1..Len(c), j \in 1..Len(c) : i = Len(c) /\ j = Len(c) - Period
    <3>1. Len(c) \in 1..Len(c)
      BY <1>2, <1>5
    <3>2. Len(c) - Period \in 1..Len(c)
      BY <1>2, <1>5
    <3> QED BY ONLY <3>1, <3>2
  <2>2. c[i] \in Priced /\ c[j] \in Priced
    OBVIOUS
  <2>3. PICK p \in Int, q \in Int : p = c[i].close /\ q = c[j].close
    BY <2>2 DEF Priced
  <2>4. u[i].close = Height - p /\ u[j].close = Height - q
    BY <1>2, <2>2, <2>3, TurnedIs
  <2>5. Of(c)["momentum"] = <<p - q, 1>>
    BY <1>3, <1>5, <2>1, <2>3
  <2>6. Of(u)["momentum"] = <<(Height - p) - (Height - q), 1>>
    BY <1>2, <1>3, <1>5, <2>1, <2>4
  <2>7. Negated(<<p - q, 1>>) = <<-(p - q), 1>>
    BY Something DEF Negated, None
  <2>8. (Height - p) - (Height - q) = -(p - q)
    OBVIOUS
  <2> QED BY <1>1, <2>5, <2>6, <2>7, <2>8
<1> QED BY <1>4, <1>5

-----------------------------------------------------------------------------
(* Gains, distances from the mean, the signed volume.                      *)

LEMMA GainTyped == ASSUME NEW s \in Seq(Int) PROVE Gain(s) \in Int
<1>1. PICK n \in Nat : n = Len(s)
  OBVIOUS
<1>2. DOMAIN s = 1..n /\ \A i \in 1..n : s[i] \in Int
  BY <1>1
<1>3. PICK p : p = [i \in 1..n |-> IF s[i] > 0 THEN s[i] ELSE 0]
  OBVIOUS
<1>4. p = [i \in 1..n |-> p[i]] /\ \A i \in 1..n : p[i] \in Int
  BY <1>2, <1>3
<1>5. p \in Seq(Int)
  BY <1>4, SequenceOf
<1>6. Gain(s) = SumOf(p)
  BY <1>2, <1>3 DEF Gain
<1> QED BY <1>5, <1>6, SumInt

\* Upside down a gain is a loss.
LEMMA GainsTurn ==
  ASSUME NEW s, NEW u, Flips(0, s, u)
  PROVE  /\ Gain(s) \in Int /\ Loss(s) \in Int
         /\ Gain(u) = Loss(s) /\ Loss(u) = Gain(s)
<1>1. /\ s \in Seq(Int) /\ u \in Seq(Int) /\ Len(u) = Len(s)
      /\ \A i \in 1..Len(s) : u[i] = 0 - s[i]
  BY DEF Flips
<1>2. PICK n \in Nat : n = Len(s)
  BY <1>1
<1>3. DOMAIN s = 1..n /\ DOMAIN u = 1..n /\ \A i \in 1..n : s[i] \in Int /\ u[i] \in Int /\ u[i] = -s[i]
  BY <1>1, <1>2
<1>4. u = [i \in DOMAIN s |-> -s[i]]
  <2>1. PICK p : p = [i \in 1..n |-> -s[i]]
    OBVIOUS
  <2>2. u = [i \in 1..n |-> u[i]]
    BY <1>1, <1>2
  <2>3. u = p
    BY <1>3, <2>1, <2>2
  <2> QED BY <1>3, <2>1, <2>3
<1>5. s = [i \in DOMAIN u |-> -u[i]]
  <2>1. PICK p : p = [i \in 1..n |-> -u[i]]
    OBVIOUS
  <2>2. s = [i \in 1..n |-> s[i]]
    BY <1>1, <1>2
  <2>3. \A i \in 1..n : -u[i] = s[i]
    BY <1>3
  <2>4. s = p
    BY <2>1, <2>2, <2>3
  <2> QED BY <1>3, <2>1, <2>4
<1>6. Loss(s) = Gain(u)
  BY <1>4 DEF Loss
<1>7. Loss(u) = Gain(s)
  BY <1>5 DEF Loss
<1> QED BY <1>1, <1>6, <1>7, GainTyped

LEMMA StrengthTurned ==
  ASSUME NEW p \in Int, NEW q \in Int
  PROVE  Strength(q, p) = Remainder(Strength(p, q))
<1>1. q + p = p + q
  OBVIOUS
<1>2. PICK t \in Int : t = p + q
  OBVIOUS
<1>3. CASE t = 0
  <2>1. Strength(q, p) = <<1, 2>> /\ Strength(p, q) = <<1, 2>>
    BY <1>1, <1>2, <1>3 DEF Strength
  <2>2. Remainder(<<1, 2>>) = <<2 - 1, 2>>
    BY Something DEF Remainder, None
  <2>3. 2 - 1 = 1
    OBVIOUS
  <2> QED BY <2>1, <2>2, <2>3
<1>4. CASE t # 0
  <2>1. Strength(q, p) = <<q, t>> /\ Strength(p, q) = <<p, t>>
    BY <1>1, <1>2, <1>4 DEF Strength
  <2>2. Remainder(<<p, t>>) = <<t - p, t>>
    BY Something DEF Remainder, None
  <2>3. t - p = q
    BY <1>2
  <2> QED BY <2>1, <2>2, <2>3
<1> QED BY <1>3, <1>4

LEMMA ChangesFlip ==
  ASSUME NEW A, NEW v, NEW x, Flips(A, v, x), Len(v) > 0
  PROVE  Flips(0, Changes(v), Changes(x)) /\ Len(Changes(v)) = Len(v) - 1
<1>1. /\ A \in Int /\ v \in Seq(Int) /\ x \in Seq(Int) /\ Len(x) = Len(v)
      /\ \A i \in 1..Len(v) : x[i] = A - v[i]
  BY DEF Flips
<1>2. /\ Changes(v) \in Seq(Int) /\ Len(Changes(v)) = Len(v) - 1
      /\ \A i \in 1..(Len(v) - 1) : Changes(v)[i] = v[i + 1] - v[i]
  BY <1>1, Moved
<1>3. /\ Changes(x) \in Seq(Int) /\ Len(Changes(x)) = Len(v) - 1
      /\ \A i \in 1..(Len(v) - 1) : Changes(x)[i] = x[i + 1] - x[i]
  BY <1>1, Moved
<1>4. ASSUME NEW i \in 1..(Len(v) - 1) PROVE Changes(x)[i] = 0 - Changes(v)[i]
  <2>1. Len(v) \in Nat /\ i \in 1..Len(v) /\ i + 1 \in 1..Len(v)
    BY <1>1
  <2>2. PICK p \in Int, q \in Int : p = v[i] /\ q = v[i + 1]
    BY <1>1, <2>1
  <2>3. x[i] = A - p /\ x[i + 1] = A - q
    BY <1>1, <2>1, <2>2
  <2>4. (A - q) - (A - p) = 0 - (q - p)
    BY <1>1
  <2> QED BY <1>2, <1>3, <2>2, <2>3, <2>4
<1> QED BY <1>2, <1>3, <1>4 DEF Flips

LEMMA RsiFlipped ==
  ASSUME NEW A, NEW v, NEW x, Flips(A, v, x)
  PROVE  _rsi(x) = Remainder(_rsi(v))
<1>1. Len(x) = Len(v) /\ Len(v) \in Nat /\ Period \in Nat
  BY IndicatorsAssumption DEF Flips
<1>2. CASE Len(v) < Period + 1
  BY <1>1, <1>2 DEF _rsi, Remainder, None
<1>3. CASE ~(Len(v) < Period + 1)
  <2>1. PICK a, b : a = Changes(v) /\ b = Changes(x)
    OBVIOUS
  <2>2. Len(v) > 0 /\ Period <= Len(v) - 1
    BY <1>1, <1>3
  <2>3. Flips(0, a, b) /\ Len(a) = Len(v) - 1
    BY <2>1, <2>2, ChangesFlip
  <2>4. PICK s, u : s = Newest(a, Period) /\ u = Newest(b, Period)
    OBVIOUS
  <2>5. Period <= Len(a)
    BY <2>2, <2>3
  <2>6. Flips(0, s, u)
    BY <1>1, <2>3, <2>4, <2>5, FlipsNewest
  <2>7. PICK p \in Int, q \in Int : p = Gain(s) /\ q = Loss(s) /\ q = Gain(u) /\ p = Loss(u)
    BY <2>6, GainsTurn
  <2>8. _rsi(v) = Strength(p, q)
    BY <1>3, <2>1, <2>4, <2>7 DEF _rsi
  <2>9. _rsi(x) = Strength(q, p)
    BY <1>1, <1>3, <2>1, <2>4, <2>7 DEF _rsi
  <2> QED BY <2>8, <2>9, StrengthTurned
<1> QED BY <1>2, <1>3

LEMMA AtrStays ==
  ASSUME NEW c \in Seq(Priced), Height \in Int
  PROVE  _atr(UpsideDown(c)) = _atr(c)
BY RangesStay DEF _atr

\* A volume counts for the rise that was a fall, and against the fall that was a rise.
LEMMA ObvFlipped ==
  ASSUME NEW c \in Seq(Priced), Height \in Int
  PROVE  _obv(UpsideDown(c)) = Negated(_obv(c))
<1>1. PICK u : u = UpsideDown(c)
  OBVIOUS
<1>2. /\ u \in Seq(Priced) /\ Len(u) = Len(c) /\ \A i \in 1..Len(c) : u[i] = Turned(c[i])
  BY <1>1, Turns
<1>3. PICK n \in Nat : n = Len(c)
  OBVIOUS
<1>4. DOMAIN c = 1..n /\ DOMAIN u = 1..n
  BY <1>2, <1>3
<1>5. PICK s : s = [i \in 1..n |-> IF i = 1 \/ c[i].close = c[i - 1].close THEN 0
                                   ELSE IF c[i].close > c[i - 1].close THEN c[i].volume ELSE -c[i].volume]
  OBVIOUS
<1>6. PICK r : r = [i \in 1..n |-> IF i = 1 \/ u[i].close = u[i - 1].close THEN 0
                                   ELSE IF u[i].close > u[i - 1].close THEN u[i].volume ELSE -u[i].volume]
  OBVIOUS
<1>7. ASSUME NEW i \in 1..n PROVE s[i] \in Int /\ r[i] \in Int /\ r[i] = -s[i]
  <2>1. CASE i = 1
    <3>1. s[i] = 0 /\ r[i] = 0
      BY <1>5, <1>6, <2>1
    <3>2. PICK o \in Int : o = 0 /\ o = -o
      OBVIOUS
    <3> QED BY <3>1, <3>2
  <2>2. CASE i # 1
    <3>1. i - 1 \in 1..n
      BY <2>2
    <3>2. c[i] \in Priced /\ c[i - 1] \in Priced
      BY <1>3, <3>1
    <3>9. ASSUME NEW b \in Priced PROVE b.close \in Int /\ b.volume \in Int
      <4>1. b.close \in Int /\ b.volume \in Nat
        BY DEF Priced
      <4> QED BY <4>1
    <3>10. c[i].close \in Int /\ c[i - 1].close \in Int /\ c[i].volume \in Int
      BY <3>2, <3>9
    <3>3. PICK p \in Int, q \in Int, k \in Int : p = c[i].close /\ q = c[i - 1].close /\ k = c[i].volume
      BY <3>10
    <3>4. u[i].close = Height - p /\ u[i - 1].close = Height - q /\ u[i].volume = k
      BY <1>2, <1>3, <3>1, <3>2, <3>3, TurnedIs
    <3>5. s[i] = IF p = q THEN 0 ELSE IF p > q THEN k ELSE -k
      BY <1>5, <2>2, <3>3
    <3>6. PICK y \in Int, z \in Int : y = Height - p /\ z = Height - q
      OBVIOUS
    <3>7. r[i] = IF y = z THEN 0 ELSE IF y > z THEN k ELSE -k
      BY <1>6, <2>2, <3>4, <3>6
    <3>8. (y = z <=> p = q) /\ (y > z <=> q > p)
      BY <3>6
    <3> QED BY <3>5, <3>7, <3>8
  <2> QED BY <2>1, <2>2
<1>8. s \in Seq(Int) /\ Len(s) = n
  BY <1>5, <1>7
<1>9. r \in Seq(Int) /\ Len(r) = n
  BY <1>6, <1>7
<1>10. SumOf(r) = -SumOf(s)
  BY <1>7, <1>8, <1>9, SumNegated
<1>11. _obv(c) = <<SumOf(s), 1>> /\ _obv(u) = <<SumOf(r), 1>>
  BY <1>4, <1>5, <1>6 DEF _obv
<1>12. Negated(<<SumOf(s), 1>>) = <<-SumOf(s), 1>>
  BY Something DEF Negated, None
<1> QED BY <1>1, <1>10, <1>11, <1>12

LEMMA Offset ==
  ASSUME NEW n \in Int, NEW A \in Int, NEW p \in Int, NEW t \in Int
  PROVE  /\ n * p - t \in Int
         /\ n * (A - p) - (n * A - t) = 0 - (n * p - t)
OBVIOUS

LEMMA OffsFlip ==
  ASSUME NEW A, NEW w, NEW x, Flips(A, w, x), Len(w) = Period
  PROVE  Flips(0, Off(w), Off(x)) /\ Len(Off(w)) = Period
<1>1. /\ w \in Seq(Int) /\ x \in Seq(Int) /\ Len(x) = Len(w)
      /\ \A i \in 1..Len(w) : x[i] = A - w[i]
  BY DEF Flips
<1>2. PICK n \in Nat : n = Period
  BY IndicatorsAssumption
<1>3. SumOf(w) \in Int /\ SumOf(x) \in Int /\ A \in Int /\ SumOf(x) = n * A - SumOf(w)
  BY <1>2, FlipsSum
<1>4. PICK t \in Int : t = SumOf(w)
  BY <1>3
<1>5. SumOf(x) = n * A - t
  BY <1>3, <1>4
<1>6. DOMAIN w = 1..n /\ DOMAIN x = 1..n
  BY <1>1, <1>2
<1>7. PICK r : r = n * A - t
  OBVIOUS
<1>8. Off(w) = [i \in 1..n |-> n * w[i] - t] /\ Off(x) = [i \in 1..n |-> n * x[i] - r]
  BY <1>2, <1>4, <1>5, <1>6, <1>7 DEF Off
<1>9. PICK a, b : a = Off(w) /\ b = Off(x)
  OBVIOUS
<1>10. ASSUME NEW i \in 1..n PROVE a[i] \in Int /\ b[i] \in Int /\ b[i] = 0 - a[i]
  <2>1. PICK p \in Int : p = w[i]
    BY <1>1, <1>2
  <2>2. x[i] = A - p
    BY <1>1, <1>2, <2>1
  <2>3. a[i] = n * p - t
    BY <1>8, <1>9, <2>1
  <2>4. b[i] = n * (A - p) - (n * A - t)
    BY <1>7, <1>8, <1>9, <2>2
  <2>5. n \in Int
    OBVIOUS
  <2>6. n * p - t \in Int /\ b[i] = 0 - (n * p - t)
    BY <1>3, <2>4, <2>5, Offset
  <2>7. PICK k \in Int : k = n * p - t
    BY <2>6
  <2> QED BY <2>3, <2>6, <2>7
<1>11. a = [i \in 1..n |-> a[i]] /\ b = [i \in 1..n |-> b[i]]
  BY <1>8, <1>9
<1>12. a \in Seq(Int) /\ Len(a) = n
  BY <1>10, <1>11, SequenceOf
<1>13. b \in Seq(Int) /\ Len(b) = n
  BY <1>10, <1>11, SequenceOf
<1>14. 0 \in Int
  OBVIOUS
<1> QED BY <1>2, <1>9, <1>10, <1>12, <1>13, <1>14 DEF Flips

LEMMA SizesStay ==
  ASSUME NEW s, NEW u, Flips(0, s, u)
  PROVE  Sizes(u) = Sizes(s)
<1>1. /\ s \in Seq(Int) /\ u \in Seq(Int) /\ Len(u) = Len(s)
      /\ \A i \in 1..Len(s) : u[i] = 0 - s[i]
  BY DEF Flips
<1>2. PICK n \in Nat : n = Len(s)
  BY <1>1
<1>3. DOMAIN s = 1..n /\ DOMAIN u = 1..n
  BY <1>1, <1>2
<1>4. ASSUME NEW i \in 1..n PROVE Magnitude(u[i]) = Magnitude(s[i])
  <2>1. PICK p \in Int : p = s[i]
    BY <1>1, <1>2
  <2>2. u[i] = 0 - p
    BY <1>1, <1>2, <2>1
  <2>3. Magnitude(0 - p) = Magnitude(p)
    BY DEF Magnitude
  <2> QED BY <2>1, <2>2, <2>3
<1> QED BY <1>3, <1>4 DEF Sizes

LEMMA CciFlipped ==
  ASSUME NEW c \in Seq(Priced), Height \in Int
  PROVE  _cci(UpsideDown(c)) = Negated(_cci(c))
<1>1. PICK u : u = UpsideDown(c)
  OBVIOUS
<1>2. PICK v, x : v = typical(c) /\ x = typical(u)
  OBVIOUS
<1>3. Flips(3 * Height, v, x) /\ Len(v) = Len(c) /\ Len(u) = Len(c) /\ Len(c) \in Nat
  BY <1>1, <1>2, PricesFlip, Turns
<1>4. Period \in Nat /\ Period \in 1..Period
  BY IndicatorsAssumption
<1>5. CASE Len(c) < Period
  BY <1>1, <1>3, <1>5 DEF _cci, Negated, None
<1>6. CASE ~(Len(c) < Period)
  <2>1. PICK A : A = 3 * Height
    OBVIOUS
  <2>2. PICK s, r : s = Newest(v, Period) /\ r = Newest(x, Period)
    OBVIOUS
  <2>3. Flips(A, s, r) /\ Len(s) = Period
    <3>1. Flips(A, v, x) /\ Period <= Len(v)
      BY <1>3, <1>4, <1>6, <2>1
    <3> QED BY <1>4, <2>2, <3>1, FlipsNewest
  <2>4. PICK a, b : a = Off(s) /\ b = Off(r)
    OBVIOUS
  <2>5. Flips(0, a, b) /\ Len(a) = Period
    BY <2>3, <2>4, OffsFlip
  <2>6. PICK d : d = SumOf(Sizes(a))
    OBVIOUS
  <2>7. SumOf(Sizes(b)) = d
    BY <2>5, <2>6, SizesStay
  <2>8. PICK k \in Int : k = a[Period] /\ b[Period] = -k
    <3>1. a[Period] \in Int /\ b[Period] = 0 - a[Period]
      BY <1>4, <2>5 DEF Flips
    <3>2. PICK k \in Int : k = a[Period]
      BY <3>1
    <3>3. 0 - k = -k
      OBVIOUS
    <3> QED BY <3>1, <3>2, <3>3
  <2>9. _cci(c) = IF d = 0 THEN <<0, 1>> ELSE <<Period * k, d>>
    BY <1>2, <1>6, <2>2, <2>4, <2>6, <2>8 DEF _cci
  <2>10. _cci(u) = IF d = 0 THEN <<0, 1>> ELSE <<Period * (-k), d>>
    BY <1>2, <1>3, <1>6, <2>2, <2>4, <2>7, <2>8 DEF _cci
  <2>11. CASE d = 0
    <3>1. PICK o \in Int : o = 0 /\ -o = 0
      OBVIOUS
    <3>2. Negated(<<0, 1>>) = <<-o, 1>>
      BY <3>1, Something DEF Negated, None
    <3> QED BY <1>1, <2>9, <2>10, <2>11, <3>1, <3>2
  <2>12. CASE d # 0
    <3>1. Negated(<<Period * k, d>>) = <<-(Period * k), d>>
      BY Something DEF Negated, None
    <3>2. Period * (-k) = -(Period * k)
      BY <1>4
    <3> QED BY <1>1, <2>9, <2>10, <2>12, <3>1, <3>2
  <2> QED BY <2>11, <2>12
<1> QED BY <1>5, <1>6

LEMMA Squared ==
  ASSUME NEW A \in Int, NEW p \in Int
  PROVE  /\ A * A \in Int /\ p * p \in Int /\ (A - p) * (A - p) \in Int /\ (-2) * A \in Int
         /\ (A - p) * (A - p) = A * A + ((-2) * A) * p + 1 * (p * p)
OBVIOUS

LEMMA Variance ==
  ASSUME NEW n \in Int, NEW A \in Int, NEW t \in Int, NEW q \in Int
  PROVE  n * (n * (A * A) + ((-2) * A) * t + 1 * q) - (n * A - t) * (n * A - t) = n * q - t * t
OBVIOUS

LEMMA DeviationFlipped ==
  ASSUME NEW A, NEW v, NEW x, Flips(A, v, x)
  PROVE  Deviation(x) = Negated(Deviation(v))
<1>1. Len(x) = Len(v) /\ Len(v) \in Nat /\ A \in Int
  BY DEF Flips
<1>2. Period \in Int /\ Period \in Nat /\ Period \in 1..Period
  BY IndicatorsAssumption
<1>3. CASE Len(v) < Period
  BY <1>1, <1>3 DEF Deviation, Negated, None
<1>4. CASE ~(Len(v) < Period)
  <2>1. PICK s, r : s = Newest(v, Period) /\ r = Newest(x, Period)
    OBVIOUS
  <2>2. Flips(A, s, r) /\ Len(s) = Period
    <3>1. Period <= Len(v)
      BY <1>1, <1>2, <1>4
    <3> QED BY <1>2, <2>1, <3>1, FlipsNewest
  <2>3. PICK k \in Int : k = Off(s)[Period] /\ Off(r)[Period] = -k
    <3>1. Flips(0, Off(s), Off(r)) /\ Len(Off(s)) = Period
      BY <2>2, OffsFlip
    <3>2. Off(s)[Period] \in Int /\ Off(r)[Period] = 0 - Off(s)[Period]
      BY <1>2, <3>1 DEF Flips
    <3>3. PICK k \in Int : k = Off(s)[Period]
      BY <3>2
    <3>4. 0 - k = -k
      OBVIOUS
    <3> QED BY <3>2, <3>3, <3>4
  <2>4. PICK y, z : y = Squares(s) /\ z = Squares(r)
    OBVIOUS
  <2>5. PICK B \in Int, D \in Int, o \in Int : B = A * A /\ D = (-2) * A /\ o = 1
    BY <1>1, Squared
  <2>6. /\ s \in Seq(Int) /\ r \in Seq(Int) /\ Len(r) = Period
        /\ \A i \in 1..Period : s[i] \in Int /\ r[i] = A - s[i]
    BY <2>2 DEF Flips
  <2>7. y = [i \in 1..Period |-> s[i] * s[i]] /\ z = [i \in 1..Period |-> r[i] * r[i]]
    <3>1. DOMAIN s = 1..Period /\ DOMAIN r = 1..Period
      BY <2>2, <2>6
    <3> QED BY <2>4, <3>1 DEF Squares
  <2>8. ASSUME NEW i \in 1..Period
        PROVE  y[i] \in Int /\ z[i] \in Int /\ z[i] = B + D * s[i] + o * y[i]
    <3>1. PICK p \in Int : p = s[i] /\ r[i] = A - p
      BY <2>6
    <3>2. y[i] = p * p /\ z[i] = (A - p) * (A - p)
      BY <2>7, <3>1
    <3>3. p * p \in Int /\ (A - p) * (A - p) \in Int /\ (A - p) * (A - p) = B + D * p + o * (p * p)
      BY <1>1, <2>5, Squared
    <3> QED BY <3>1, <3>2, <3>3
  <2>20. /\ y = [i \in 1..Period |-> y[i]] /\ \A i \in 1..Period : y[i] \in Int
         /\ z = [i \in 1..Period |-> z[i]] /\ \A i \in 1..Period : z[i] \in Int
    <3>1. y = [i \in 1..Period |-> y[i]]
      BY ONLY <2>7
    <3>2. z = [i \in 1..Period |-> z[i]]
      BY ONLY <2>7
    <3> QED BY <2>8, <3>1, <3>2
  <2>9. y \in Seq(Int) /\ Len(y) = Period
    BY ONLY <1>2, <2>20, SequenceOf
  <2>10. z \in Seq(Int) /\ Len(z) = Period
    BY ONLY <1>2, <2>20, SequenceOf
  <2>11. Combines(z, B, D, s, o, y)
    BY <2>2, <2>6, <2>8, <2>9, <2>10 DEF Combines
  <2>12. SumOf(z) = Len(s) * B + D * SumOf(s) + o * SumOf(y)
    BY ONLY <2>11, SumLinear
  <2>13. PICK n \in Int, t \in Int, q \in Int : n = Period /\ t = SumOf(s) /\ q = SumOf(y)
    BY <1>2, <2>6, <2>9, SumInt
  <2>14. SumOf(z) = n * (A * A) + ((-2) * A) * t + 1 * q
    BY <2>2, <2>5, <2>12, <2>13
  <2>15. SumOf(r) = n * A - t
    BY <2>2, <2>13, FlipsSum
  <2>16. n * SumOf(z) - SumOf(r) * SumOf(r) = n * q - t * t
    BY <1>1, <2>14, <2>15, Variance
  <2>17. Deviation(v) = <<k, n * q - t * t>>
    BY <1>4, <2>1, <2>3, <2>4, <2>13 DEF Deviation
  <2>18. Deviation(x) = <<-k, n * SumOf(z) - SumOf(r) * SumOf(r)>>
    BY <1>1, <1>4, <2>1, <2>3, <2>4, <2>13 DEF Deviation
  <2>19. Negated(<<k, n * q - t * t>>) = <<-k, n * q - t * t>>
    BY Something DEF Negated, None
  <2> QED BY <2>16, <2>17, <2>18, <2>19
<1> QED BY <1>3, <1>4

-----------------------------------------------------------------------------
(* The height at which a chart is turned, and the whole snapshot.          *)

LEMMA Pictured ==
  ASSUME NEW S, IsFiniteSet(S), S # {}, NEW f \in [S -> Int], NEW t \in SUBSET Int,
         \A y \in Int : y \in t <=> \E x \in S : y = f[x]
  PROVE  IsFiniteSet(t) /\ t # {}
<1>1. f \in [S -> t]
  <2>1. ASSUME NEW x \in S PROVE f[x] \in t
    <3>1. f[x] \in Int
      OBVIOUS
    <3> QED BY <3>1
  <2> QED BY <2>1
<1>2. f \in Surjection(S, t)
  <2>1. ASSUME NEW y \in t PROVE \E x \in S : f[x] = y
    <3>1. y \in Int
      OBVIOUS
    <3>2. PICK x \in S : y = f[x]
      BY <3>1
    <3> QED BY <3>2
  <2> QED BY <1>1, <2>1 DEF Surjection
<1>3. IsFiniteSet(t)
  BY <1>2, FS_Surjection
<1>4. t # {}
  BY <1>1
<1> QED BY <1>3, <1>4

LEMMA HeightIs == ASSUME Bars # {} PROVE Height \in Int
<1>1. /\ IsFiniteSet(Bars)
      /\ \A b \in Bars : b.high \in Int /\ b.low \in Int
  BY IndicatorsAssumption
<1>2. PICK h, l : h = {b.high : b \in Bars} /\ l = {b.low : b \in Bars}
  OBVIOUS
<1>3. h \in SUBSET Int /\ l \in SUBSET Int
  BY <1>1, <1>2
<1>4. IsFiniteSet(h) /\ h # {}
  <2>1. PICK f : f = [b \in Bars |-> b.high]
    OBVIOUS
  <2>2. f \in [Bars -> Int] /\ \A y \in Int : y \in h <=> \E x \in Bars : y = f[x]
    BY <1>1, <1>2, <2>1
  <2> QED BY <1>1, <1>3, <2>2, Pictured
<1>5. IsFiniteSet(l) /\ l # {}
  <2>1. PICK f : f = [b \in Bars |-> b.low]
    OBVIOUS
  <2>2. f \in [Bars -> Int] /\ \A y \in Int : y \in l <=> \E x \in Bars : y = f[x]
    BY <1>1, <1>2, <2>1
  <2> QED BY <1>1, <1>3, <2>2, Pictured
<1>6. Max(h) \in Int
  BY <1>3, <1>4, GreatestExists
<1>7. Min(l) \in Int
  <2>1. PICK r : r = {x \in Int : 0 - x \in l}
    OBVIOUS
  <2>2. r \in SUBSET Int /\ \A x \in Int : x \in r <=> 0 - x \in l
    BY <2>1
  <2>3. 0 \in Int
    OBVIOUS
  <2> QED BY <1>3, <1>5, <2>2, <2>3, ExtremesReflected
<1> QED BY <1>2, <1>6, <1>7 DEF Height

LEMMA FieldsOf ==
  ASSUME NEW c
  PROVE  /\ Of(c)["sma"] = _sma(close(c), Period)
         /\ Of(c)["ema"] = _ema(Whole(close(c)), Period)
         /\ Of(c)["atr"] = _atr(c) /\ Of(c)["adx"] = _adx(c)
         /\ Of(c)["macd"] = Newer(close(c))
         /\ Of(c)["macd_signal"] = _ema(MacdLines(close(c)), Macd[3])
         /\ Of(c)["rsi"] = _rsi(close(c))
         /\ Of(c)["plus_di"] = _di(c, plus_dm(c)) /\ Of(c)["minus_di"] = _di(c, minus_dm(c))
         /\ Of(c)["stochastic_k"] = _stochastic_k(c) /\ Of(c)["obv"] = _obv(c)
         /\ Of(c)["vwap"] = _vwap(c) /\ Of(c)["cci"] = _cci(c)
         /\ Of(c)["deviation"] = Deviation(close(c)) /\ Of(c)["tenkan"] = midpoint(c)
BY DEF Of, Newer

\* What is shown of the chart and of the chart upside down.
LEMMA SnapshotFlipped ==
  ASSUME NEW c \in Seq(Priced), Height \in Int
  PROVE  LET d == Of(UpsideDown(c))
             e == Of(c)
         IN  /\ d["atr"] = e["atr"] /\ d["adx"] = e["adx"]
             /\ d["plus_di"] = e["minus_di"] /\ d["minus_di"] = e["plus_di"]
             /\ \A n \in {"sma", "ema", "vwap", "tenkan"} : d[n] = Reflected(e[n])
             /\ d["donchian_high"] = Reflected(e["donchian_low"])
             /\ d["donchian_low"] = Reflected(e["donchian_high"])
             /\ \A n \in {"macd", "macd_signal", "momentum", "cci", "obv"} : d[n] = Negated(e[n])
             /\ d["deviation"] = Negated(e["deviation"])
             /\ \A n \in {"rsi", "stochastic_k"} : d[n] = Remainder(e[n])
<1>1. PICK u : u = UpsideDown(c)
  OBVIOUS
<1>2. PICK d, e : d = Of(u) /\ e = Of(c)
  OBVIOUS
<1>3. Flips(Height, close(c), close(u))
  BY <1>1, PricesFlip
<1>4. d["atr"] = e["atr"] /\ d["adx"] = e["adx"]
  BY <1>1, <1>2, FieldsOf, AtrStays, AdxStays
<1>5. d["plus_di"] = e["minus_di"] /\ d["minus_di"] = e["plus_di"]
  BY <1>1, <1>2, FieldsOf, DirectionFlipped
<1>6. d["sma"] = Reflected(e["sma"]) /\ d["ema"] = Reflected(e["ema"])
  BY <1>2, <1>3, FieldsOf, SmaFlipped, EmaFlipped
<1>7. d["vwap"] = Reflected(e["vwap"]) /\ d["tenkan"] = Reflected(e["tenkan"])
  BY <1>1, <1>2, FieldsOf, VwapFlipped, MidpointFlipped
<1>8. /\ d["donchian_high"] = Reflected(e["donchian_low"])
      /\ d["donchian_low"] = Reflected(e["donchian_high"])
  BY <1>1, <1>2, DonchianFlipped
<1>9. d["macd"] = Negated(e["macd"]) /\ d["macd_signal"] = Negated(e["macd_signal"])
  BY <1>2, <1>3, FieldsOf, MacdFlipped
<1>10. d["momentum"] = Negated(e["momentum"])
  BY <1>1, <1>2, MomentumFlipped
<1>11. d["cci"] = Negated(e["cci"]) /\ d["obv"] = Negated(e["obv"])
  BY <1>1, <1>2, FieldsOf, CciFlipped, ObvFlipped
<1>12. d["deviation"] = Negated(e["deviation"])
  BY <1>2, <1>3, FieldsOf, DeviationFlipped
<1>13. d["rsi"] = Remainder(e["rsi"])
  BY <1>2, <1>3, FieldsOf, RsiFlipped
<1>14. d["stochastic_k"] = Remainder(e["stochastic_k"])
  BY <1>1, <1>2, FieldsOf, StochasticFlipped
<1> QED BY <1>1, <1>2, <1>4, <1>5, <1>6, <1>7, <1>8, <1>9, <1>10, <1>11, <1>12, <1>13, <1>14

LEMMA IndicatorsMirrored == IndicatorsInv => IndicatorsMirror
<1> SUFFICES ASSUME IndicatorsInv, indicators # Unavailable PROVE IndicatorsMirror
  BY DEF IndicatorsMirror
<1>1. chart \in Seq(Priced) /\ indicators = Of(chart) /\ Bars # {}
  BY BarsAreCandles DEF IndicatorsInv
<1>2. Height \in Int
  BY <1>1, HeightIs
<1>3. PICK c, d, e : c = chart /\ e = Of(c) /\ d = Of(UpsideDown(c))
  OBVIOUS
<1>4. /\ d["atr"] = e["atr"] /\ d["adx"] = e["adx"]
      /\ d["plus_di"] = e["minus_di"] /\ d["minus_di"] = e["plus_di"]
      /\ \A n \in {"sma", "ema", "vwap", "tenkan"} : d[n] = Reflected(e[n])
      /\ d["donchian_high"] = Reflected(e["donchian_low"])
      /\ d["donchian_low"] = Reflected(e["donchian_high"])
      /\ \A n \in {"macd", "macd_signal", "momentum", "cci", "obv"} : d[n] = Negated(e[n])
      /\ d["deviation"] = Negated(e["deviation"])
      /\ \A n \in {"rsi", "stochastic_k"} : d[n] = Remainder(e[n])
  BY <1>1, <1>2, <1>3, SnapshotFlipped
<1>5. indicators = e /\ Of(UpsideDown(chart)) = d
  BY <1>1, <1>3
<1>6. \A n \in {"atr", "adx"} : d[n] = e[n]
  BY <1>4
<1> QED BY <1>4, <1>5, <1>6 DEF IndicatorsMirror

-----------------------------------------------------------------------------
(* The parts together: each step is one part's, and leaves the others.     *)

DecisionsInv ==
  /\ VenueInv /\ ConnectionInv /\ LimitsInv /\ ReportInv /\ HistoryInv /\ CampaignInv
  /\ FactorInv /\ EvidenceInv /\ IndicatorsInv

LEMMA DecisionsStart == Init => DecisionsInv
<1> SUFFICES ASSUME Init PROVE DecisionsInv
  OBVIOUS
<1>1. VenueInit /\ ConnectionInit /\ GateInit /\ ReportInit /\ HistoryInit /\ CampaignInit
      /\ FactorInit /\ EvidenceInit /\ IndicatorsInit
  BY DEF Init
<1> QED BY <1>1, VenueInitial, ConnectionStart, GateStart, ReportStart, HistoryStart,
           CampaignStart, FactorStart, EvidenceStart, IndicatorsStart DEF DecisionsInv

LEMMA DecisionsStep ==
  ASSUME DecisionsInv,
         [\/ Venue \/ Connection \/ Report \/ Factors \/ Evidence \/ Gates
          \/ Indicators \/ History \/ Campaign]_decisionVars
  PROVE  DecisionsInv'
<1>1. /\ VenueInv /\ ConnectionInv /\ LimitsInv
      /\ ReportInv /\ HistoryInv /\ CampaignInv /\ FactorInv /\ EvidenceInv /\ IndicatorsInv
  BY DEF DecisionsInv, LimitsInv, GateTyped
<1>2. UNCHANGED venueVars => VenueInv'
  BY <1>1, VenueSame DEF venueVars
<1>3. UNCHANGED connectionVars => ConnectionInv'
  BY <1>1, ConnectionSame DEF connectionVars
<1>4. UNCHANGED gateVars => LimitsInv'
  BY <1>1, LimitsSame DEF gateVars
<1>6. UNCHANGED historyVars => HistoryInv'
  BY <1>1, HistoryKept
<1>7. UNCHANGED campaignVars => CampaignInv'
  BY <1>1, CampaignKept
<1>8. (Venue \/ UNCHANGED venueVars) => VenueInv'
  BY <1>1, <1>2, VenueStep DEF Venue
<1>9. (Connection \/ UNCHANGED connectionVars) => ConnectionInv'
  BY <1>1, <1>3, ConnectionStep DEF Connection
<1>10. (Gates \/ UNCHANGED gateVars) => LimitsInv'
  BY <1>1, <1>4, GateStep DEF Gates
<1>11. (Report \/ UNCHANGED reportVars) => ReportInv'
  BY <1>1, ReportStep DEF Report
<1>12. (History \/ UNCHANGED historyVars) => HistoryInv'
  BY <1>1, <1>6, HistoryStep DEF History
<1>13. (Campaign \/ UNCHANGED campaignVars) => CampaignInv'
  BY <1>1, <1>7, CampaignStep DEF Campaign
<1>14. (Factors \/ UNCHANGED factorVars) => FactorInv'
  BY <1>1, FactorStep, FactorKept DEF Factors
<1>15. (Evidence \/ UNCHANGED evidenceVars) => EvidenceInv'
  BY <1>1, EvidenceStep, EvidenceKept DEF Evidence
<1>16. (Indicators \/ UNCHANGED indicatorVars) => IndicatorsInv'
  BY <1>1, IndicatorsStep, IndicatorsKept DEF Indicators
<1>17. /\ Venue \/ UNCHANGED venueVars
       /\ Connection \/ UNCHANGED connectionVars
       /\ Gates \/ UNCHANGED gateVars
       /\ Report \/ UNCHANGED reportVars
       /\ History \/ UNCHANGED historyVars
       /\ Campaign \/ UNCHANGED campaignVars
       /\ Factors \/ UNCHANGED factorVars
       /\ Evidence \/ UNCHANGED evidenceVars
       /\ Indicators \/ UNCHANGED indicatorVars
  BY DEF Venue, Connection, Report, Factors, Evidence, Gates, Indicators, History, Campaign,
         decisionVars
<1> QED BY <1>8, <1>9, <1>10, <1>11, <1>12, <1>13, <1>14, <1>15, <1>16, <1>17 DEF DecisionsInv

\* _request and the adapters' order calls, the validation of the keys: however requests are
\* repeated, lost or overtaken, OKX opens one order of an id and no venue has two of one id
\* working, a final status is the venue's, one validation at a time asks, and after a change of
\* the keys one verdict at most is shown that is of the keys that were replaced.
THEOREM VenueIsBelieved == Spec => []VenueAnswersAreTrue
<1>1. DecisionsInv => VenueAnswersAreTrue
  BY OneOrder DEF DecisionsInv, VenueInv, ConnectionInv, VenueAnswersAreTrue
<1> QED BY <1>1, DecisionsStart, DecisionsStep, PTL DEF Spec

\* process_signal and RiskEngine.check: any number of callers, on readings of any age, exceed
\* the limit on open orders by one order for each other caller, and that on the spot exposure
\* by the orders that may be open, one fill that is neither on order nor in the positions, and
\* two for each other caller.
THEOREM LimitsHold == Spec => []LimitsAreBounded
BY LimitsSafe, DecisionsStart, DecisionsStep, PTL DEF Spec, DecisionsInv

\* exploration_status, market_history and the dock, ShadowCampaign: in whatever parts, however
\* late and beyond what there is orders are filled, a reported trade of a decision is a round
\* trip that there was, under its own decision, and no round trip is left out that began at a
\* sum of 0; pages of candles meet without a hole, and a campaign is complete only when its days
\* were observed.
THEOREM RecordsStayWhole == Spec => []RecordsAreWhole
<1>1. DecisionsInv => RecordsAreWhole
  BY ReportSound, PagesJoin DEF DecisionsInv, CampaignInv, RecordsAreWhole
<1> QED BY <1>1, DecisionsStart, DecisionsStep, PTL DEF Spec

\* FactorSnapshotService, the evidence builder and the technical indicators: a snapshot names
\* every factor once, a failure stays in its group, its id resolves unless it says that it may
\* not, every candle with a price is one bar in the order of the time, and what an indicator
\* says of a window does not depend on the candles before it.
THEOREM SnapshotStaysTrue == Spec => []SnapshotIsTrue
<1>1. DecisionsInv => SnapshotIsTrue
  BY FactorsOnce, ErrorsConfined, CandlesCounted, WindowsForget
     DEF DecisionsInv, FactorInv, SnapshotIsTrue
<1> QED BY <1>1, DecisionsStart, DecisionsStep, PTL DEF Spec

\* The strategies of the evidence builder and the technical indicators: long and short are
\* weighed alike. Of the market upside down every strategy proposes the opposite side, the
\* strategies of one family never oppose each other, a candidate that trades dominates one that
\* does not, and every value shown is the mirror image of the one that was, for any candles,
\* any window and any lengths of the averages.
THEOREM EvidenceIsImpartial == Spec => []LongAndShortMirror
<1>1. DecisionsInv => LongAndShortMirror
  BY MirroredImage, FamilyAgrees, DominantTrades, IndicatorsMirrored
     DEF DecisionsInv, LongAndShortMirror
<1> QED BY <1>1, DecisionsStart, DecisionsStep, PTL DEF Spec

=============================================================================
