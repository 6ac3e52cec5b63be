----------------------------- MODULE SumProofs ------------------------------
(***************************************************************************)
(* Sums over finite sets.  The models add up columns with MapThenSumSet    *)
(* (assertQuota adds the limits of a reseller's clients, recomputeClient   *)
(* the counters of a client's links); these are the facts about such sums  *)
(* that proofs about the models need: a sum is a number, one element can   *)
(* be taken out of it, and it only depends on what is added up.            *)
(*                                                                         *)
(* The induction behind them is over the subsets of a finite set, stated   *)
(* for a set of subsets rather than for a predicate.                       *)
(***************************************************************************)
EXTENDS FiniteSetsExt, FiniteSetTheorems, TLAPS

\* A set of numbers that holds 0 and with each number the next holds them all.
LEMMA NumberInduction ==
  ASSUME NEW N \in SUBSET Nat, 0 \in N, \A n \in N : n + 1 \in N
  PROVE  N = Nat
<1>1. SUFFICES ASSUME Nat \ N # {} PROVE FALSE
  OBVIOUS
<1>2. IsWellFoundedOn(OpToRel(<, Nat), Nat)
  BY NatLessThanWellFounded
<1>3. PICK n \in Nat \ N : \A m \in Nat \ N : ~(<<m, n>> \in OpToRel(<, Nat))
  BY <1>1, <1>2, WFMin
<1>4. \A m \in Nat \ N : ~(m < n)
  BY <1>3 DEF OpToRel
<1>5. n # 0 /\ n - 1 \in Nat /\ n - 1 < n /\ (n - 1) + 1 = n
  OBVIOUS
<1>6. n - 1 \in N
  BY <1>4, <1>5
<1> QED BY <1>5, <1>6

\* A set of subsets that holds a subset whenever it holds all smaller ones.
LEMMA SubsetInduction ==
  ASSUME NEW S, IsFiniteSet(S), NEW Good \in SUBSET (SUBSET S),
         \A T \in SUBSET S : (\A U \in SUBSET T : U # T => U \in Good) => T \in Good
  PROVE  Good = SUBSET S
<1>1. SUFFICES ASSUME Good # SUBSET S PROVE FALSE
  OBVIOUS
<1>2. PICK Bad : Bad = (SUBSET S) \ Good
  OBVIOUS
<1>3. Bad \subseteq SUBSET S /\ Bad # {}
  BY <1>1, <1>2
<1>4. IsWellFoundedOn(StrictSubsetOrdering(S), SUBSET S)
  BY FS_StrictSubsetOrderingWellFounded, FS_FiniteSubsetsOfFinite
<1>5. PICK T \in Bad : \A U \in Bad : ~(<<U, T>> \in StrictSubsetOrdering(S))
  <2> HIDE DEF StrictSubsetOrdering
  <2> QED BY <1>3, <1>4, WFMin
<1>6. \A U \in SUBSET T : U # T => U \in Good
  BY <1>2, <1>3, <1>5 DEF StrictSubsetOrdering
<1> QED BY <1>2, <1>5, <1>6

(* ------------------------------ the recursion ---------------------------- *)

\* What MapThenSumSet iterates: take out a chosen element, add the rest.
Some(s) == CHOOSE x \in s : TRUE
Adds(g, f, S) == g = [s \in SUBSET S |-> IF s = {} THEN 0 ELSE f[Some(s)] + g[s \ {Some(s)}]]
SumOf(f, S) == MapThenSumSet(LAMBDA c : f[c], S)

\* SumOf by its definition.
LEMMA SumIs ==
  ASSUME NEW f, NEW S
  PROVE  SumOf(f, S) = (CHOOSE g : Adds(g, f, S))[S]
  BY DEF SumOf, MapThenSumSet, MapThenFoldSet, Adds, Some

\* The chosen element is an element, and the rest is smaller.
LEMMA SomeIs ==
  ASSUME NEW s, s # {}
  PROVE  Some(s) \in s /\ (s \ {Some(s)}) # s
  BY DEF Some

\* The recursion has a solution: built up by the size of the subsets.
LEMMA AddsExists ==
  ASSUME NEW S, IsFiniteSet(S), NEW f \in [S -> Nat]
  PROVE  \E g \in [SUBSET S -> Nat] : Adds(g, f, S)
<1> DEFINE UpTo(n) == {s \in SUBSET S : Cardinality(s) <= n}
           Solved(n) == \E g \in [UpTo(n) -> Nat] : \A s \in UpTo(n) :
                          g[s] = IF s = {} THEN 0 ELSE f[Some(s)] + g[s \ {Some(s)}]
           N == {n \in Nat : Solved(n)}
<1>1. \A s \in SUBSET S : IsFiniteSet(s) /\ Cardinality(s) \in Nat
  BY FS_Subset, FS_CardinalityType
<1>2. \A s \in SUBSET S : s # {} => s \ {Some(s)} \in SUBSET S
                                    /\ Cardinality(s \ {Some(s)}) = Cardinality(s) - 1
  BY <1>1, SomeIs, FS_RemoveElement
<1>3. \A s \in SUBSET S : s # {} => f[Some(s)] \in Nat
  BY SomeIs
<1>4. 0 \in N
  <2>1. UpTo(0) = {{}}
    BY <1>1, FS_EmptySet
  <2>2. Solved(0)
    <3> DEFINE g == [s \in UpTo(0) |-> 0]
    <3> WITNESS g \in [UpTo(0) -> Nat]
    <3> QED BY <2>1
  <2> QED BY <2>2
<1>5. ASSUME NEW n \in N PROVE n + 1 \in N
  <2>1. PICK g \in [UpTo(n) -> Nat] : \A s \in UpTo(n) :
               g[s] = IF s = {} THEN 0 ELSE f[Some(s)] + g[s \ {Some(s)}]
    BY <1>5
  <2> DEFINE h == [s \in UpTo(n + 1) |-> IF s = {} THEN 0 ELSE f[Some(s)] + g[s \ {Some(s)}]]
  <2>2. \A s \in UpTo(n + 1) : s # {} => s \ {Some(s)} \in UpTo(n) /\ s \ {Some(s)} \in UpTo(n + 1)
    BY <1>1, <1>2, <1>5
  <2>3. \A s \in UpTo(n + 1) : h[s] \in Nat
    BY <1>3, <2>1, <2>2
  <2>4. h \in [UpTo(n + 1) -> Nat]
    BY <2>3
  <2>5. \A s \in UpTo(n) : s \in UpTo(n + 1)
    BY <1>1, <1>5
  <2>6. \A s \in UpTo(n) : h[s] = g[s]
    BY <2>1, <2>5
  <2>7. \A s \in UpTo(n + 1) : h[s] = IF s = {} THEN 0 ELSE f[Some(s)] + h[s \ {Some(s)}]
    BY <2>2, <2>6
  <2>8. Solved(n + 1)
    <3> HIDE DEF h, UpTo
    <3> QED BY <2>4, <2>7
  <2>9. n + 1 \in Nat
    BY <1>5
  <2> HIDE DEF Solved
  <2> QED BY <2>8, <2>9
<1>6. N = Nat
  <2>1. N \in SUBSET Nat /\ \A n \in N : n + 1 \in N
    BY <1>5
  <2> HIDE DEF N
  <2> QED BY <1>4, <2>1, NumberInduction
<1>7. Solved(Cardinality(S)) /\ UpTo(Cardinality(S)) = SUBSET S
  <2>1. Cardinality(S) \in Nat
    BY <1>1
  <2>2. \A s \in SUBSET S : Cardinality(s) <= Cardinality(S)
    BY FS_Subset
  <2> QED BY <1>6, <2>1, <2>2
<1>8. PICK g \in [SUBSET S -> Nat] : \A s \in SUBSET S :
             g[s] = IF s = {} THEN 0 ELSE f[Some(s)] + g[s \ {Some(s)}]
  <2> HIDE DEF UpTo
  <2> QED BY <1>7
<1>9. Adds(g, f, S)
  BY <1>8 DEF Adds
<1> QED BY <1>9

\* Two solutions agree where both are defined.
LEMMA AddsUnique ==
  ASSUME NEW S, IsFiniteSet(S), NEW A, NEW B, S \subseteq A, S \subseteq B,
         NEW f, NEW e, \A x \in S : f[x] = e[x], NEW g, NEW h, Adds(g, f, A), Adds(h, e, B)
  PROVE  g[S] = h[S]
<1> DEFINE Good == {s \in SUBSET S : g[s] = h[s]}
<1>1. \A s \in SUBSET S : /\ g[s] = IF s = {} THEN 0 ELSE f[Some(s)] + g[s \ {Some(s)}]
                          /\ h[s] = IF s = {} THEN 0 ELSE e[Some(s)] + h[s \ {Some(s)}]
  <2>1. \A s \in SUBSET S : s \in SUBSET A /\ s \in SUBSET B
    OBVIOUS
  <2> QED BY <2>1 DEF Adds
<1>2. ASSUME NEW s \in SUBSET S, \A u \in SUBSET s : u # s => u \in Good PROVE s \in Good
  <2>1. CASE s = {}
    BY <1>1, <2>1
  <2>2. CASE s # {}
    <3>1. Some(s) \in s /\ (s \ {Some(s)}) # s /\ s \ {Some(s)} \in SUBSET s
      BY <2>2, SomeIs
    <3>2. g[s \ {Some(s)}] = h[s \ {Some(s)}] /\ f[Some(s)] = e[Some(s)]
      BY <1>2, <3>1
    <3> QED BY <1>1, <2>2, <3>2
  <2> QED BY <2>1, <2>2
<1>3. Good = SUBSET S
  <2>1. Good \in SUBSET (SUBSET S)
    OBVIOUS
  <2> HIDE DEF Good
  <2> QED BY <1>2, <2>1, SubsetInduction
<1> QED BY <1>3

(* ------------------------------ the facts -------------------------------- *)

\* The sum is what the solution says, over the set or over a larger one.
LEMMA SumIsAdds ==
  ASSUME NEW S, IsFiniteSet(S), NEW T \in SUBSET S, NEW f, \A x \in S : f[x] \in Nat
  PROVE  \E g \in [SUBSET S -> Nat] : Adds(g, f, S) /\ SumOf(f, T) = g[T]
<1> DEFINE e == [x \in S |-> f[x]]
           d == [x \in T |-> f[x]]
<1>1. IsFiniteSet(T)
  BY FS_Subset
<1>2. \E g \in [SUBSET S -> Nat] : Adds(g, e, S)
  BY AddsExists
<1>3. PICK g \in [SUBSET S -> Nat] : Adds(g, e, S)
  BY <1>2
<1>4. Adds(g, f, S)
  <2>1. \A s \in SUBSET S : s # {} => e[Some(s)] = f[Some(s)]
    BY SomeIs
  <2> QED BY <1>3, <2>1 DEF Adds
<1>5. PICK k \in [SUBSET T -> Nat] : Adds(k, d, T)
  BY <1>1, AddsExists
<1>6. Adds(k, f, T)
  <2>1. \A s \in SUBSET T : s # {} => d[Some(s)] = f[Some(s)]
    BY SomeIs
  <2> QED BY <1>5, <2>1 DEF Adds
<1>7. PICK h : h = (CHOOSE i : Adds(i, f, T))
  OBVIOUS
<1>8. Adds(h, f, T) /\ SumOf(f, T) = h[T]
  BY <1>6, <1>7, SumIs
<1>9. h[T] = g[T]
  BY <1>1, <1>4, <1>8, AddsUnique
<1> QED BY <1>4, <1>8, <1>9

(***************************************************************************)
(* A sum of natural numbers is one, an empty sum is 0, and any element can *)
(* be taken out first.                                                     *)
(***************************************************************************)
LEMMA SumNat ==
  ASSUME NEW S, IsFiniteSet(S), NEW f, \A x \in S : f[x] \in Nat
  PROVE  SumOf(f, S) \in Nat
<1>0. S \in SUBSET S
  OBVIOUS
<1>1. PICK g \in [SUBSET S -> Nat] : Adds(g, f, S) /\ SumOf(f, S) = g[S]
  BY <1>0, SumIsAdds
<1> QED BY <1>1

\* The sum over nothing.
LEMMA SumEmpty == \A f : SumOf(f, {}) = 0
<1> SUFFICES ASSUME NEW f PROVE SumOf(f, {}) = 0
  OBVIOUS
<1>1. PICK S : S = {}
  OBVIOUS
<1>2. IsFiniteSet(S) /\ S \in SUBSET S /\ \A x \in S : f[x] \in Nat
  BY <1>1, FS_EmptySet
<1>3. PICK g \in [SUBSET S -> Nat] : Adds(g, f, S) /\ SumOf(f, S) = g[S]
  BY <1>2, SumIsAdds
<1> QED BY <1>1, <1>3 DEF Adds

\* The sum, one element apart.
LEMMA SumTakeOut ==
  ASSUME NEW S, IsFiniteSet(S), NEW f, \A x \in S : f[x] \in Nat
  PROVE  \A x \in S : SumOf(f, S) = f[x] + SumOf(f, S \ {x})
<1> DEFINE Good == {s \in SUBSET S : \A x \in s : SumOf(f, s) = f[x] + SumOf(f, s \ {x})}
<1>1. \A s \in SUBSET S : IsFiniteSet(s)
  BY FS_Subset
<1>2. ASSUME NEW s \in SUBSET S, s # {}
      PROVE  SumOf(f, s) = f[Some(s)] + SumOf(f, s \ {Some(s)})
  <2>1. PICK y : y = Some(s) /\ y \in s
    BY <1>2, SomeIs
  <2>2. s \ {y} \in SUBSET s /\ s \in SUBSET s
    OBVIOUS
  <2>3. IsFiniteSet(s) /\ \A x \in s : f[x] \in Nat
    BY <1>1
  <2>4. PICK g \in [SUBSET s -> Nat] : Adds(g, f, s) /\ SumOf(f, s) = g[s]
    BY <2>2, <2>3, SumIsAdds
  <2>5. PICK h \in [SUBSET s -> Nat] : Adds(h, f, s) /\ SumOf(f, s \ {y}) = h[s \ {y}]
    BY <2>2, <2>3, SumIsAdds
  <2>6. IsFiniteSet(s \ {y}) /\ s \ {y} \subseteq s
    BY <2>2, <2>3, FS_Subset
  <2>7. g[s \ {y}] = h[s \ {y}]
    BY <2>4, <2>5, <2>6, AddsUnique
  <2>8. g[s] = f[y] + g[s \ {y}]
    BY <1>2, <2>1, <2>2, <2>4 DEF Adds
  <2> QED BY <2>1, <2>4, <2>5, <2>7, <2>8
<1>3. \A s \in SUBSET S : SumOf(f, s) \in Nat
  BY <1>1, SumNat
<1>4. ASSUME NEW s \in SUBSET S, \A u \in SUBSET s : u # s => u \in Good PROVE s \in Good
  <2> SUFFICES ASSUME NEW x \in s PROVE SumOf(f, s) = f[x] + SumOf(f, s \ {x})
    OBVIOUS
  <2>1. PICK y : y = Some(s) /\ y \in s
    BY SomeIs
  <2>2. SumOf(f, s) = f[y] + SumOf(f, s \ {y})
    BY <1>2, <2>1
  <2>3. CASE x = y
    BY <2>2, <2>3
  <2>4. CASE x # y
    <3>1. PICK sx, sy, sxy : sx = s \ {x} /\ sy = s \ {y} /\ sxy = s \ {x, y}
      OBVIOUS
    <3>2. sx \ {y} = sxy /\ sy \ {x} = sxy /\ y \in sx /\ x \in sy
      BY <2>1, <2>4, <3>1
    <3>3. sx \in Good /\ sy \in Good
      BY <1>4, <2>1, <3>1
    <3>4. SumOf(f, sx) = f[y] + SumOf(f, sxy) /\ SumOf(f, sy) = f[x] + SumOf(f, sxy)
      BY <3>2, <3>3
    <3>5. f[x] \in Nat /\ f[y] \in Nat /\ SumOf(f, sxy) \in Nat
      BY <1>3, <2>1, <3>1
    <3>6. SumOf(f, s) = f[y] + (f[x] + SumOf(f, sxy))
      BY <2>2, <3>1, <3>4
    <3>7. SumOf(f, s) = f[x] + (f[y] + SumOf(f, sxy))
      BY <3>5, <3>6
    <3> QED BY <3>1, <3>4, <3>7
  <2> QED BY <2>3, <2>4
<1>5. Good = SUBSET S
  <2>1. Good \in SUBSET (SUBSET S)
    OBVIOUS
  <2> HIDE DEF Good
  <2> QED BY <1>4, <2>1, SubsetInduction
<1> QED BY <1>5

(***************************************************************************)
(* A sum depends on nothing but the numbers added up.                      *)
(***************************************************************************)
LEMMA SumSame ==
  ASSUME NEW S, IsFiniteSet(S), NEW f, NEW e, \A x \in S : f[x] \in Nat, \A x \in S : e[x] = f[x]
  PROVE  SumOf(f, S) = SumOf(e, S)
<1>0. ASSUME NEW i, \A x \in S : i[x] \in Nat
      PROVE  \E g \in [SUBSET S -> Nat] : Adds(g, i, S) /\ SumOf(i, S) = g[S]
  <2>1. S \in SUBSET S
    OBVIOUS
  <2> QED BY <1>0, <2>1, SumIsAdds
<1>1. PICK g \in [SUBSET S -> Nat] : Adds(g, f, S) /\ SumOf(f, S) = g[S]
  BY <1>0
<1>2. \A x \in S : e[x] \in Nat
  OBVIOUS
<1>3. PICK h \in [SUBSET S -> Nat] : Adds(h, e, S) /\ SumOf(e, S) = h[S]
  BY <1>0, <1>2
<1>4. g[S] = h[S]
  BY <1>1, <1>3, AddsUnique
<1> QED BY <1>1, <1>3, <1>4

(***************************************************************************)
(* Writing one number of a sum.                                            *)
(***************************************************************************)
LEMMA SumWrite ==
  ASSUME NEW S, IsFiniteSet(S), NEW f, NEW e, NEW x \in S, e[x] \in Nat,
         \A y \in S \ {x} : f[y] \in Nat, \A y \in S \ {x} : e[y] = f[y]
  PROVE  SumOf(e, S) = e[x] + SumOf(f, S \ {x})
<1>1. \A y \in S : e[y] \in Nat
  OBVIOUS
<1>2. SumOf(e, S) = e[x] + SumOf(e, S \ {x})
  BY <1>1, SumTakeOut
<1>3. PICK T : T = S \ {x}
  OBVIOUS
<1>4. IsFiniteSet(T) /\ (\A y \in T : f[y] \in Nat) /\ (\A y \in T : e[y] = f[y])
  BY <1>3, FS_Subset
<1>5. SumOf(f, T) = SumOf(e, T)
  BY <1>4, SumSame
<1> QED BY <1>2, <1>3, <1>5

\* Leaving one number out makes no sum larger.
LEMMA SumLess ==
  ASSUME NEW S, IsFiniteSet(S), NEW f, \A y \in S : f[y] \in Nat, NEW x
  PROVE  SumOf(f, S \ {x}) \in Nat /\ SumOf(f, S) \in Nat /\ SumOf(f, S \ {x}) <= SumOf(f, S)
<1>1. PICK T : T = S \ {x}
  OBVIOUS
<1>2. IsFiniteSet(T) /\ \A y \in T : f[y] \in Nat
  BY <1>1, FS_Subset
<1>3. SumOf(f, T) \in Nat /\ SumOf(f, S) \in Nat
  BY <1>2, SumNat
<1>4. CASE x \in S
  <2>1. SumOf(f, S) = f[x] + SumOf(f, T) /\ f[x] \in Nat
    BY <1>1, <1>4, SumTakeOut
  <2> QED BY <1>1, <1>3, <2>1
<1>5. CASE x \notin S
  <2>1. T = S
    BY <1>1, <1>5
  <2> QED BY <1>1, <1>3, <2>1
<1> QED BY <1>4, <1>5
=============================================================================
