------------------------------ MODULE SumTheorems ------------------------------
(***************************************************************************)
(* Sums over finite sets, as SumFunctionOnSet of the community modules     *)
(* computes them: an element that CHOOSE picks, plus the sum of the rest.  *)
(*                                                                         *)
(* The induction theorems of the library take an operator, which no prover *)
(* here can instantiate.  Induction is done over a set instead, the set of *)
(* the numbers (NatInSteps) or finite sets (FiniteInSteps) for which a     *)
(* statement holds: a set of naturals with no least element outside it is  *)
(* Nat, since < is well-founded.                                           *)
(***************************************************************************)
EXTENDS Integers, FiniteSets, FiniteSetsExt, FiniteSetTheorems, TLAPS

\* Induction over the naturals.
LEMMA NatInSteps ==
  ASSUME NEW T \in SUBSET Nat, 0 \in T, \A n \in T : n + 1 \in T
  PROVE  T = Nat
<1> SUFFICES ASSUME Nat \ T # {} PROVE FALSE
  OBVIOUS
<1> DEFINE R == OpToRel(<, Nat)
<1>1. IsWellFoundedOn(R, Nat)
  BY NatLessThanWellFounded
<1>2. PICK x \in Nat \ T : \A y \in Nat \ T : <<y, x>> \notin R
  <2> HIDE DEF R
  <2> QED
    BY <1>1, WFMin
<1>3. \A y \in Nat \ T : ~(y < x)
  BY <1>2 DEF OpToRel
<1> HIDE DEF R
<1>4. x \in Nat /\ x # 0 /\ x \notin T
  OBVIOUS
<1>5. x - 1 \in Nat /\ x - 1 < x /\ (x - 1) + 1 = x
  BY <1>4
<1>6. x - 1 \in T
  BY <1>3, <1>5
<1> QED
  BY <1>4, <1>5, <1>6

\* Induction over the subsets of a finite set.
LEMMA FiniteInSteps ==
  ASSUME NEW S, IsFiniteSet(S), NEW T \in SUBSET (SUBSET S),
         {} \in T, \A u \in T : \A x \in S \ u : u \cup {x} \in T
  PROVE  T = SUBSET S
<1> DEFINE N == {n \in Nat : \A u \in SUBSET S : Cardinality(u) = n => u \in T}
<1>1. \A u \in SUBSET S : IsFiniteSet(u) /\ Cardinality(u) \in Nat
  BY FS_Subset, FS_CardinalityType
<1>2. 0 \in N
  BY <1>1, FS_EmptySet
<1>3. ASSUME NEW n \in N PROVE n + 1 \in N
  <2>1. SUFFICES ASSUME NEW u \in SUBSET S, Cardinality(u) = n + 1 PROVE u \in T
    BY <1>3
  <2>2. PICK x \in u : TRUE
    BY <1>1, <1>3, <2>1, FS_EmptySet
  <2>3. Cardinality(u \ {x}) = n
    BY <1>1, <1>3, <2>1, <2>2, FS_RemoveElement
  <2>4. u \ {x} \in T
    BY <2>3
  <2>5. (u \ {x}) \cup {x} \in T /\ (u \ {x}) \cup {x} = u
    BY <2>2, <2>4
  <2> QED
    BY <2>5
<1>4. N = Nat
  <2> HIDE DEF N
  <2>1. N \in SUBSET Nat
    BY DEF N
  <2> QED
    BY <1>2, <1>3, <2>1, NatInSteps
<1>5. \A u \in SUBSET S : u \in T
  BY <1>1, <1>4
<1> QED
  BY <1>5
-----------------------------------------------------------------------------
Pick(u) == CHOOSE x \in u : TRUE

\* g is what the fold of f over the subsets of S computes.
Adds(g, f, S) ==
    g = [u \in SUBSET S |-> IF u = {} THEN 0 ELSE f[Pick(u)] + g[u \ {Pick(u)}]]

\* CHOOSE picks an element if there is one.
LEMMA PickIn == \A u : u # {} => Pick(u) \in u
  BY DEF Pick

\* The recursion has a solution: one for sets of up to n elements gives one for
\* sets of up to n + 1.
LEMMA AddsExists ==
  ASSUME NEW S, IsFiniteSet(S), NEW f, \A x \in S : f[x] \in Int
  PROVE  \E g : Adds(g, f, S)
<1> DEFINE Step(g, u) == IF u = {} THEN 0 ELSE f[Pick(u)] + g[u \ {Pick(u)}]
           N == {n \in Nat : \E g \in [SUBSET S -> Int] :
                     \A u \in SUBSET S : Cardinality(u) <= n => g[u] = Step(g, u)}
<1>1. \A u \in SUBSET S : IsFiniteSet(u) /\ Cardinality(u) \in Nat
  BY FS_Subset, FS_CardinalityType
<1>2. \A u \in SUBSET S : u # {} => /\ Pick(u) \in u
                                    /\ u \ {Pick(u)} \in SUBSET S
                                    /\ Cardinality(u \ {Pick(u)}) = Cardinality(u) - 1
  BY <1>1, PickIn, FS_RemoveElement
<1>3. 0 \in N
  <2> DEFINE g == [u \in SUBSET S |-> 0]
  <2>1. g \in [SUBSET S -> Int]
    OBVIOUS
  <2>2. \A u \in SUBSET S : Cardinality(u) <= 0 => u = {}
    BY <1>1, FS_EmptySet
  <2>3. \A u \in SUBSET S : Cardinality(u) <= 0 => g[u] = Step(g, u)
    BY <2>2
  <2> QED
    BY <2>1, <2>3
<1>4. ASSUME NEW n \in N PROVE n + 1 \in N
  <2>1. PICK g \in [SUBSET S -> Int] :
            \A u \in SUBSET S : Cardinality(u) <= n => g[u] = Step(g, u)
    BY <1>4
  <2> DEFINE h == [u \in SUBSET S |-> IF Cardinality(u) <= n THEN g[u] ELSE Step(g, u)]
  <2>2. \A u \in SUBSET S : Step(g, u) \in Int
    BY <1>2, <2>1
  <2>3. h \in [SUBSET S -> Int]
    BY <2>1, <2>2
  <2>4. ASSUME NEW u \in SUBSET S, Cardinality(u) <= n + 1 PROVE h[u] = Step(h, u)
    <3>1. h[u] = Step(g, u)
      BY <2>1
    <3>2. CASE u = {}
      BY <3>1, <3>2
    <3>3. CASE u # {}
      <4> DEFINE v == u \ {Pick(u)}
      <4>1. v \in SUBSET S /\ Cardinality(v) <= n
        BY <1>1, <1>2, <1>4, <2>4, <3>3
      <4>2. h[v] = g[v]
        BY <4>1
      <4> QED
        BY <3>1, <3>3, <4>2
    <3> QED
      BY <3>2, <3>3
  <2> HIDE DEF h
  <2> QED
    BY <1>4, <2>3, <2>4
<1>5. N = Nat
  <2> HIDE DEF N
  <2>1. N \in SUBSET Nat
    BY DEF N
  <2> QED
    BY <1>3, <1>4, <2>1, NatInSteps
<1>6. Cardinality(S) \in N
  BY <1>1, <1>5
<1>7. PICK g \in [SUBSET S -> Int] :
          \A u \in SUBSET S : Cardinality(u) <= Cardinality(S) => g[u] = Step(g, u)
  BY <1>6
<1>8. \A u \in SUBSET S : Cardinality(u) <= Cardinality(S)
  BY FS_Subset
<1>9. g = [u \in SUBSET S |-> Step(g, u)]
  BY <1>7, <1>8
<1> QED
  BY <1>9 DEF Adds

\* The fold does not depend on the set that it is taken within.
LEMMA AddsAgree ==
  ASSUME NEW S, IsFiniteSet(S), NEW U \in SUBSET S, NEW f, \A x \in S : f[x] \in Int,
         NEW g, Adds(g, f, S), NEW h, Adds(h, f, U)
  PROVE  \A u \in SUBSET U : g[u] = h[u] /\ h[u] \in Int
<1> DEFINE N == {n \in Nat : \A u \in SUBSET U : Cardinality(u) = n => g[u] = h[u] /\ h[u] \in Int}
<1>1. \A u \in SUBSET U : IsFiniteSet(u) /\ Cardinality(u) \in Nat /\ u \in SUBSET S
  BY FS_Subset, FS_CardinalityType
<1>2. /\ \A u \in SUBSET S : g[u] = IF u = {} THEN 0 ELSE f[Pick(u)] + g[u \ {Pick(u)}]
      /\ \A u \in SUBSET U : h[u] = IF u = {} THEN 0 ELSE f[Pick(u)] + h[u \ {Pick(u)}]
  BY DEF Adds
<1>3. 0 \in N
  <2>1. \A u \in SUBSET U : Cardinality(u) = 0 => u = {}
    BY <1>1, FS_EmptySet
  <2>2. g[{}] = 0 /\ h[{}] = 0
    BY <1>2
  <2> QED
    BY <2>1, <2>2
<1>4. ASSUME NEW n \in N PROVE n + 1 \in N
  <2>1. SUFFICES ASSUME NEW u \in SUBSET U, Cardinality(u) = n + 1
                 PROVE  g[u] = h[u] /\ h[u] \in Int
    BY <1>4
  <2>2. u # {}
    BY <1>1, <1>4, <2>1, FS_EmptySet
  <2> DEFINE x == Pick(u)
             v == u \ {x}
  <2>3. x \in u /\ f[x] \in Int
    BY <2>2, PickIn, <1>1
  <2>4. v \in SUBSET U /\ Cardinality(v) = n
    BY <1>1, <1>4, <2>1, <2>3, FS_RemoveElement
  <2>5. g[v] = h[v] /\ h[v] \in Int
    BY <2>4
  <2>6. g[u] = f[x] + g[v] /\ h[u] = f[x] + h[v]
    BY <1>1, <1>2, <2>2
  <2> QED
    BY <2>3, <2>5, <2>6
<1>5. N = Nat
  <2> HIDE DEF N
  <2>1. N \in SUBSET Nat
    BY DEF N
  <2> QED
    BY <1>3, <1>4, <2>1, NatInSteps
<1> QED
  BY <1>1, <1>5

\* SumFunctionOnSet is such a fold.
LEMMA SumIsAdded ==
  ASSUME NEW S, IsFiniteSet(S), NEW f, \A x \in S : f[x] \in Int
  PROVE  \E g : Adds(g, f, S) /\ SumFunctionOnSet(f, S) = g[S]
<1>1. PICK g0 : Adds(g0, f, S)
  BY AddsExists
<1> DEFINE g == CHOOSE h : Adds(h, f, S)
<1>2. Adds(g, f, S)
  BY <1>1
<1>3. g = CHOOSE h : h = [u \in SUBSET S |-> IF u = {} THEN 0 ELSE f[Pick(u)] + h[u \ {Pick(u)}]]
  BY DEF Adds
<1>4. SumFunctionOnSet(f, S) = g[S]
  BY <1>3 DEF SumFunctionOnSet, FoldFunctionOnSet, MapThenFoldSet, Pick
<1> QED
  BY <1>2, <1>4

\* The sum over no element, and the sum with the element that is picked.
LEMMA SumPicked ==
  ASSUME NEW S, IsFiniteSet(S), NEW f, \A x \in S : f[x] \in Int
  PROVE  /\ SumFunctionOnSet(f, S) \in Int
         /\ S = {} => SumFunctionOnSet(f, S) = 0
         /\ S # {} => SumFunctionOnSet(f, S) =
                         f[Pick(S)] + SumFunctionOnSet(f, S \ {Pick(S)})
<1>1. PICK g : Adds(g, f, S) /\ SumFunctionOnSet(f, S) = g[S]
  BY SumIsAdded
<1>2. g[S] \in Int
  BY <1>1, AddsAgree
<1>3. g[S] = IF S = {} THEN 0 ELSE f[Pick(S)] + g[S \ {Pick(S)}]
  BY <1>1 DEF Adds
<1>4. ASSUME S # {} PROVE g[S \ {Pick(S)}] = SumFunctionOnSet(f, S \ {Pick(S)})
  <2> DEFINE T == S \ {Pick(S)}
  <2>1. IsFiniteSet(T) /\ T \in SUBSET S /\ \A x \in T : f[x] \in Int
    BY FS_Subset
  <2> HIDE DEF T
  <2>2. PICK h : Adds(h, f, T) /\ SumFunctionOnSet(f, T) = h[T]
    BY <2>1, SumIsAdded
  <2>3. \A u \in SUBSET T : g[u] = h[u]
    BY <1>1, <2>1, <2>2, AddsAgree
  <2> QED
    BY <2>2, <2>3 DEF T
<1> QED
  BY <1>1, <1>2, <1>3, <1>4

\* Any element can be taken out of a sum.
LEMMA SumWithout ==
  ASSUME NEW S, IsFiniteSet(S), NEW f, \A x \in S : f[x] \in Int, NEW y \in S
  PROVE  SumFunctionOnSet(f, S) = f[y] + SumFunctionOnSet(f, S \ {y})
<1> DEFINE Sum(u) == SumFunctionOnSet(f, u)
           N == {n \in Nat : \A u \in SUBSET S : Cardinality(u) = n =>
                                 \A x \in u : Sum(u) = f[x] + Sum(u \ {x})}
<1>1. \A u \in SUBSET S : IsFiniteSet(u) /\ Cardinality(u) \in Nat
  BY FS_Subset, FS_CardinalityType
<1>2. \A u \in SUBSET S : Sum(u) \in Int /\ (u # {} => Sum(u) = f[Pick(u)] + Sum(u \ {Pick(u)}))
  BY <1>1, SumPicked
<1> HIDE DEF Sum
<1>3. 0 \in N
  BY <1>1, FS_EmptySet
<1>4. ASSUME NEW n \in N PROVE n + 1 \in N
  <2>1. SUFFICES ASSUME NEW u \in SUBSET S, Cardinality(u) = n + 1, NEW x \in u
                 PROVE  Sum(u) = f[x] + Sum(u \ {x})
    BY <1>4
  <2> DEFINE c == Pick(u)
  <2>2. c \in u
    BY PickIn
  <2> HIDE DEF c
  <2>3. CASE x = c
    BY <1>2, <2>3 DEF c
  <2>4. CASE x # c
    <3>1. /\ u \ {c} \in SUBSET S /\ Cardinality(u \ {c}) = n /\ x \in u \ {c}
          /\ u \ {x} \in SUBSET S /\ Cardinality(u \ {x}) = n /\ c \in u \ {x}
      BY <1>1, <1>4, <2>1, <2>2, <2>4, FS_RemoveElement
    <3>2. (u \ {c}) \ {x} = (u \ {x}) \ {c} /\ (u \ {c}) \ {x} \in SUBSET S
      OBVIOUS
    <3>3. Sum(u) = f[c] + Sum(u \ {c})
      BY <1>2, <2>2 DEF c
    <3>4. Sum(u \ {c}) = f[x] + Sum((u \ {c}) \ {x})
      BY <3>1
    <3>5. Sum(u \ {x}) = f[c] + Sum((u \ {x}) \ {c})
      BY <3>1
    <3>6. f[c] \in Int /\ f[x] \in Int /\ Sum((u \ {c}) \ {x}) \in Int
      BY <1>2, <2>1, <2>2, <3>2
    <3>7. Sum((u \ {x}) \ {c}) = Sum((u \ {c}) \ {x})
      BY <3>2, Zenon
    <3> DEFINE k == Sum((u \ {c}) \ {x})
    <3>8. Sum(u) = f[c] + (f[x] + k) /\ Sum(u \ {x}) = f[c] + k /\ k \in Int
      BY <3>3, <3>4, <3>5, <3>6, <3>7, Zenon
    <3> HIDE DEF k, N
    <3> QED
      BY <3>6, <3>8
  <2> QED
    BY <2>3, <2>4
<1>5. N = Nat
  <2> HIDE DEF N
  <2>1. N \in SUBSET Nat
    BY DEF N
  <2> QED
    BY <1>3, <1>4, <2>1, NatInSteps
<1>6. Sum(S) = f[y] + Sum(S \ {y})
  BY <1>1, <1>5
<1> QED
  BY <1>6 DEF Sum

\* The sums over two sets that have no element in common.
LEMMA SumOfBoth ==
  ASSUME NEW A, NEW B, IsFiniteSet(A), IsFiniteSet(B), A \cap B = {},
         NEW f, \A x \in A \cup B : f[x] \in Int
  PROVE  SumFunctionOnSet(f, A \cup B) = SumFunctionOnSet(f, A) + SumFunctionOnSet(f, B)
<1> DEFINE Sum(u) == SumFunctionOnSet(f, u)
           T == {u \in SUBSET B : Sum(A \cup u) = Sum(A) + Sum(u)}
<1>1. \A u \in SUBSET B : IsFiniteSet(u) /\ IsFiniteSet(A \cup u)
  BY FS_Subset, FS_Union
<1>2. \A u \in SUBSET B : Sum(u) \in Int /\ Sum(A \cup u) \in Int
  BY <1>1, SumPicked
<1>3. Sum({}) = 0 /\ Sum(A) \in Int
  BY SumPicked, FS_EmptySet
<1>4. {} \in T
  <2>1. A \cup {} = A
    OBVIOUS
  <2> HIDE DEF Sum
  <2> QED
    BY <1>3, <2>1
<1>5. ASSUME NEW u \in T, NEW x \in B \ u PROVE u \cup {x} \in T
  <2>1. u \cup {x} \in SUBSET B /\ x \in A \cup (u \cup {x})
    OBVIOUS
  <2>2. (u \cup {x}) \ {x} = u /\ (A \cup (u \cup {x})) \ {x} = A \cup u
    OBVIOUS
  <2>3. Sum(u \cup {x}) = f[x] + Sum((u \cup {x}) \ {x})
    BY <1>1, <2>1, SumWithout
  <2>4. Sum(A \cup (u \cup {x})) = f[x] + Sum((A \cup (u \cup {x})) \ {x})
    BY <1>1, <2>1, SumWithout
  <2> HIDE DEF Sum
  <2>5. f[x] \in Int /\ Sum(A \cup u) = Sum(A) + Sum(u) /\ Sum(u) \in Int
    BY <1>2
  <2>6. Sum(u \cup {x}) = f[x] + Sum(u) /\ Sum(A \cup (u \cup {x})) = f[x] + (Sum(A) + Sum(u))
    BY <2>2, <2>3, <2>4, <2>5, Zenon
  <2>7. Sum(A \cup (u \cup {x})) = Sum(A) + Sum(u \cup {x})
    BY <1>3, <2>5, <2>6
  <2> QED
    BY <2>1, <2>7
<1>6. T = SUBSET B
  <2> HIDE DEF T
  <2>1. T \in SUBSET (SUBSET B)
    BY DEF T
  <2> QED
    BY <1>4, <1>5, <2>1, FiniteInSteps
<1> QED
  BY <1>6

\* No element counts below zero: the more elements, the larger the sum.
LEMMA SumGrows ==
  ASSUME NEW A, NEW B, A \subseteq B, IsFiniteSet(B), NEW f, \A x \in B : f[x] \in Nat
  PROVE  SumFunctionOnSet(f, A) <= SumFunctionOnSet(f, B)
<1> DEFINE Sum(u) == SumFunctionOnSet(f, u)
           C == B \ A
           T == {u \in SUBSET C : Sum(u) >= 0}
<1>1. /\ \A u \in SUBSET B : IsFiniteSet(u)
      /\ C \in SUBSET B /\ A \cup C = B /\ A \cap C = {}
  BY FS_Subset
<1>2. \A u \in SUBSET B : Sum(u) \in Int
  <2>1. \A x \in B : f[x] \in Int
    OBVIOUS
  <2> QED
    BY <1>1, <2>1, SumPicked
<1>3. {} \in T
  <2>1. SumFunctionOnSet(f, {}) = 0
    BY SumPicked, FS_EmptySet
  <2> QED
    BY <2>1
<1>4. ASSUME NEW u \in T, NEW x \in C \ u PROVE u \cup {x} \in T
  <2>1. u \cup {x} \in SUBSET C /\ x \in u \cup {x} /\ (u \cup {x}) \ {x} = u /\ f[x] \in Nat
    OBVIOUS
  <2>2. Sum(u \cup {x}) = f[x] + Sum((u \cup {x}) \ {x})
    BY <1>1, <2>1, SumWithout
  <2> HIDE DEF Sum
  <2>3. Sum(u) >= 0 /\ Sum(u) \in Int
    BY <1>2
  <2> QED
    BY <2>1, <2>2, <2>3
<1>5. T = SUBSET C
  <2> HIDE DEF T
  <2>1. T \in SUBSET (SUBSET C) /\ IsFiniteSet(C)
    BY <1>1 DEF T
  <2> QED
    BY <1>3, <1>4, <2>1, FiniteInSteps
<1>6. Sum(C) >= 0
  BY <1>5
<1>7. Sum(A \cup C) = Sum(A) + Sum(C)
  BY <1>1, SumOfBoth
<1>8. Sum(A) \in Int /\ Sum(C) \in Int
  BY <1>1, <1>2
<1> HIDE DEF Sum, C
<1>9. Sum(A) <= Sum(B)
  <2>1. Sum(B) = Sum(A) + Sum(C)
    BY <1>1, <1>7, Zenon
  <2> HIDE DEF T
  <2> QED
    BY <1>6, <1>8, <2>1
<1> QED
  BY <1>9 DEF Sum

\* A sum of multiples is the multiples of the sums.
LEMMA SumOfMultiples ==
  ASSUME NEW S, IsFiniteSet(S), NEW a \in Int, NEW b \in Int, NEW f, NEW g, NEW h,
         \A x \in S : f[x] \in Int /\ g[x] \in Int /\ h[x] = f[x] * a + g[x] * b
  PROVE  SumFunctionOnSet(h, S) = SumFunctionOnSet(f, S) * a + SumFunctionOnSet(g, S) * b
<1> DEFINE F(u) == SumFunctionOnSet(f, u)
           G(u) == SumFunctionOnSet(g, u)
           H(u) == SumFunctionOnSet(h, u)
           T == {u \in SUBSET S : H(u) = F(u) * a + G(u) * b}
<1>1. \A x \in S : f[x] \in Int /\ g[x] \in Int /\ h[x] \in Int
  OBVIOUS
<1>2. \A u \in SUBSET S : IsFiniteSet(u)
  BY FS_Subset
<1>3. \A u \in SUBSET S : F(u) \in Int /\ G(u) \in Int /\ H(u) \in Int
  BY <1>1, <1>2, SumPicked
<1>4. F({}) = 0 /\ G({}) = 0 /\ H({}) = 0
  BY SumPicked, FS_EmptySet
<1>5. {} \in T
  <2> HIDE DEF F, G, H
  <2> QED
    BY <1>4
<1>6. ASSUME NEW u \in T, NEW x \in S \ u PROVE u \cup {x} \in T
  <2> DEFINE v == u \cup {x}
  <2>1. v \in SUBSET S /\ x \in v /\ v \ {x} = u
    OBVIOUS
  <2>2. IsFiniteSet(v) /\ \A y \in v : f[y] \in Int /\ g[y] \in Int /\ h[y] \in Int
    BY <1>1, <1>2, <2>1
  <2> HIDE DEF v
  <2>3. F(v) = f[x] + F(u) /\ G(v) = g[x] + G(u) /\ H(v) = h[x] + H(u)
    <3>1. F(v) = f[x] + F(v \ {x})
      BY <2>1, <2>2, SumWithout
    <3>2. G(v) = g[x] + G(v \ {x})
      BY <2>1, <2>2, SumWithout
    <3>3. H(v) = h[x] + H(v \ {x})
      BY <2>1, <2>2, SumWithout
    <3> QED
      BY <2>1, <3>1, <3>2, <3>3
  <2>4. H(u) = F(u) * a + G(u) * b /\ h[x] = f[x] * a + g[x] * b
    OBVIOUS
  <2>5. F(u) \in Int /\ G(u) \in Int /\ f[x] \in Int /\ g[x] \in Int
    BY <1>1, <1>3
  <2> HIDE DEF F, G, H
  <2>6. \A p, q, r \in Int : (p + q) * r = p * r + q * r
    OBVIOUS
  <2>7. F(v) * a = f[x] * a + F(u) * a /\ G(v) * b = g[x] * b + G(u) * b
    BY <2>3, <2>5, <2>6
  <2>8. H(v) = F(v) * a + G(v) * b
    <3> DEFINE p == F(u) * a
               q == G(u) * b
               r == f[x] * a
               t == g[x] * b
    <3>1. p \in Int /\ q \in Int /\ r \in Int /\ t \in Int
      BY <2>5
    <3>2. H(v) = (r + t) + (p + q) /\ F(v) * a = r + p /\ G(v) * b = t + q
      BY <2>3, <2>4, <2>7, Zenon
    <3> HIDE DEF p, q, r, t, T
    <3> QED
      BY <3>1, <3>2
  <2> QED
    BY <2>1, <2>8 DEF v
<1>7. T = SUBSET S
  <2> HIDE DEF T
  <2>1. T \in SUBSET (SUBSET S)
    BY DEF T
  <2> QED
    BY <1>5, <1>6, <2>1, FiniteInSteps
<1> QED
  BY <1>7

\* A sum by groups: every group's own sum, added up.
LEMMA SumOfGroups ==
  ASSUME NEW S, IsFiniteSet(S), NEW f, \A x \in S : f[x] \in Int, NEW key, NEW K, IsFiniteSet(K),
         \A x \in S : key[x] \in K,
         NEW h, \A m \in K : h[m] = SumFunctionOnSet(f, {x \in S : key[x] = m})
  PROVE  SumFunctionOnSet(h, K) = SumFunctionOnSet(f, S)
<1> DEFINE Of(M) == {x \in S : key[x] \in M}
           F(u) == SumFunctionOnSet(f, u)
           H(M) == SumFunctionOnSet(h, M)
           T == {M \in SUBSET K : H(M) = F(Of(M))}
<1>1. \A u \in SUBSET S : IsFiniteSet(u) /\ F(u) \in Int
  BY FS_Subset, SumPicked
<1>2. \A m \in K : h[m] \in Int /\ h[m] = F(Of({m}))
  <2>1. \A m \in K : {x \in S : key[x] = m} = Of({m})
    OBVIOUS
  <2> QED
    BY <1>1, <2>1
<1>3. {} \in T
  <2>1. Of({}) = {}
    OBVIOUS
  <2>2. F({}) = 0 /\ H({}) = 0
    BY SumPicked, FS_EmptySet
  <2> HIDE DEF F, H, Of
  <2> QED
    BY <2>1, <2>2
<1>4. ASSUME NEW M \in T, NEW m \in K \ M PROVE M \cup {m} \in T
  <2> DEFINE N == M \cup {m}
  <2>1. N \in SUBSET K /\ m \in N /\ N \ {m} = M /\ IsFiniteSet(N)
    BY FS_Subset
  <2>2. H(N) = h[m] + H(M)
    <3>1. H(N) = h[m] + H(N \ {m})
      <4>1. \A x \in N : h[x] \in Int
        BY <1>2, <2>1
      <4> HIDE DEF N, Of
      <4> QED
        BY <2>1, <4>1, SumWithout
    <3> QED
      BY <2>1, <3>1
  <2>3. Of(M) \cap Of({m}) = {} /\ Of(M) \cup Of({m}) = Of(N) /\ Of(M) \in SUBSET S /\ Of({m}) \in SUBSET S
    OBVIOUS
  <2>4. F(Of(M) \cup Of({m})) = F(Of(M)) + F(Of({m}))
    <3> DEFINE A == Of(M)
               B == Of({m})
    <3>1. IsFiniteSet(A) /\ IsFiniteSet(B) /\ A \cap B = {} /\ \A x \in A \cup B : f[x] \in Int
      BY <1>1, <2>3
    <3> HIDE DEF A, B
    <3>2. F(A \cup B) = F(A) + F(B)
      BY <3>1, SumOfBoth
    <3> QED
      BY <3>2 DEF A, B
  <2>5. H(M) = F(Of(M)) /\ h[m] = F(Of({m})) /\ h[m] \in Int /\ F(Of(M)) \in Int
    BY <1>1, <1>2, <2>3
  <2> HIDE DEF F, H, Of, N
  <2>6. H(N) = F(Of(N))
    <3>1. F(Of(N)) = F(Of(M)) + h[m] /\ H(N) = h[m] + F(Of(M))
      BY <2>2, <2>3, <2>4, <2>5, Zenon
    <3> QED
      BY <2>5, <3>1
  <2> QED
    BY <2>1, <2>6 DEF N
<1>5. T = SUBSET K
  <2> HIDE DEF T
  <2>1. T \in SUBSET (SUBSET K)
    BY DEF T
  <2> QED
    BY <1>3, <1>4, <2>1, FiniteInSteps
<1>6. Of(K) = S
  OBVIOUS
<1>7. H(K) = F(Of(K))
  BY <1>5
<1> QED
  BY <1>6, <1>7
==============================================================================
