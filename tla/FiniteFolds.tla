----------------------------- MODULE FiniteFolds -----------------------------
(***************************************************************************)
(* Lemmas about finite data that the proofs of several components rest on: *)
(* induction, in the form of a least counterexample, and the sums that the *)
(* averages are made of.                                                   *)
(***************************************************************************)
EXTENDS Integers, FiniteSets, Functions, TLAPS, WellFoundedInduction, FiniteSetTheorems

-----------------------------------------------------------------------------
(* Of the subsets of a finite set with some property one is the least: the *)
(* strict subset ordering is well-founded.                                 *)
LEMMA LeastSubset ==
  ASSUME NEW S, IsFiniteSet(S), NEW T, T \subseteq SUBSET S, T # {}
  PROVE  \E m \in T : \A n \in T : n \subseteq m => n = m
<1>1. \A t \in SUBSET S : IsFiniteSet(t)
  BY FS_Subset
<1>2. T \subseteq FiniteSubsetsOf(S)
  BY <1>1 DEF FiniteSubsetsOf
<1>3. PICK m \in T : \A n \in T : ~(<<n, m>> \in StrictSubsetOrdering(S))
  BY <1>2, FS_StrictSubsetOrderingWellFounded, WFMin
<1> QED
  BY <1>3 DEF StrictSubsetOrdering

(* Of the natural numbers with some property one is the least.             *)
LEMMA LeastNatural ==
  ASSUME NEW T \in SUBSET Nat, T # {}
  PROVE  \E m \in T : \A n \in T : m <= n
<1>1. PICK k \in T : TRUE
  OBVIOUS
<1> DEFINE D == {u \in SUBSET (0 .. k) : \E n \in T : n <= k /\ u = 0 .. n}
<1>2. IsFiniteSet(0 .. k)
  BY <1>1, FS_Interval
<1>3. 0 .. k \in D
  BY <1>1
<1>4. PICK least \in D : \A u \in D : u \subseteq least => u = least
  <2> DEFINE range == 0 .. k
  <2>1. D \subseteq SUBSET range /\ D # {} /\ IsFiniteSet(range)
    BY <1>2, <1>3
  <2> HIDE DEF D, range
  <2> QED
    BY <2>1, LeastSubset
<1>5. PICK m \in T : m <= k /\ least = 0 .. m
  BY <1>4
<1>6. \A n \in T : m <= n
  <2> SUFFICES ASSUME NEW n \in T, n < m PROVE FALSE
    BY <1>5
  <2>1. 0 .. n \in D /\ 0 .. n \subseteq 0 .. m
    BY <1>1, <1>5
  <2>2. 0 .. n = 0 .. m
    BY <1>4, <1>5, <2>1
  <2>3. m \in 0 .. m /\ m \notin 0 .. n
    BY <1>5
  <2> QED
    BY <2>2, <2>3
<1> QED
  BY <1>5, <1>6

-----------------------------------------------------------------------------
(* The recursion of MapThenFoldSet, with the operation as a function f of  *)
(* an element and of what was folded before it.                            *)
Pick(s) == CHOOSE x \in s : TRUE

Folds(g, f, base, S) ==
  g = [s \in SUBSET S |-> IF s = {} THEN base ELSE f[<<Pick(s), g[s \ {Pick(s)}]>>]]

(* An element is picked from every set that has one.                       *)
LEMMA Picked == \A s : s # {} => Pick(s) \in s
BY DEF Pick

(* The recursion determines its values.                                    *)
LEMMA FoldUnique ==
  ASSUME NEW S, IsFiniteSet(S), NEW f, NEW base,
         NEW A \in SUBSET S, NEW B \in SUBSET S, NEW g, NEW h,
         Folds(g, f, base, A), Folds(h, f, base, B)
  PROVE  \A s \in SUBSET (A \cap B) : g[s] = h[s]
<1> DEFINE D == {s \in SUBSET (A \cap B) : g[s] # h[s]}
<1> SUFFICES ASSUME D # {} PROVE FALSE
  OBVIOUS
<1>1. D \subseteq SUBSET S
  OBVIOUS
<1>2. PICK s \in D : \A t \in D : t \subseteq s => t = s
  <2> HIDE DEF D
  <2> QED
    BY <1>1, LeastSubset
<1>3. /\ g[s] = IF s = {} THEN base ELSE f[<<Pick(s), g[s \ {Pick(s)}]>>]
      /\ h[s] = IF s = {} THEN base ELSE f[<<Pick(s), h[s \ {Pick(s)}]>>]
  <2>1. s \in SUBSET A /\ s \in SUBSET B
    BY <1>2
  <2>2. g[s] = IF s = {} THEN base ELSE f[<<Pick(s), g[s \ {Pick(s)}]>>]
    BY <2>1 DEF Folds
  <2>3. h[s] = IF s = {} THEN base ELSE f[<<Pick(s), h[s \ {Pick(s)}]>>]
    BY <2>1 DEF Folds
  <2> QED
    BY <2>2, <2>3
<1>4. s # {}
  BY <1>2, <1>3
<1>5. s \ {Pick(s)} \notin D
  BY <1>2, <1>4, Picked
<1>6. g[s \ {Pick(s)}] = h[s \ {Pick(s)}]
  BY <1>2, <1>5
<1> QED
  BY <1>2, <1>3, <1>6

(* There is a function that obeys the recursion on a finite set.           *)
LEMMA FoldExists ==
  ASSUME NEW S, IsFiniteSet(S), NEW f, NEW base
  PROVE  \E g : Folds(g, f, base, S)
<1> DEFINE D == {s \in SUBSET S : ~\E g : Folds(g, f, base, s)}
<1> SUFFICES ASSUME D # {} PROVE FALSE
  OBVIOUS
<1>1. PICK m \in D : \A t \in D : t \subseteq m => t = m
  <2>1. D \subseteq SUBSET S
    OBVIOUS
  <2> HIDE DEF D
  <2> QED
    BY <2>1, LeastSubset
<1> DEFINE G(t) == CHOOSE g : Folds(g, f, base, t)
           V(s) == IF s = {} THEN base ELSE f[<<Pick(s), G(s \ {Pick(s)})[s \ {Pick(s)}]>>]
           h == [s \in SUBSET m |-> V(s)]
<1>2. \A t \in SUBSET m : t # m => Folds(G(t), f, base, t)
  BY <1>1
<1> HIDE DEF G
<1>3. \A s \in SUBSET m, t \in SUBSET m : t # m /\ s \subseteq t => G(t)[s] = V(s)
  <2> SUFFICES ASSUME NEW s \in SUBSET m, NEW t \in SUBSET m, t # m, s \subseteq t
               PROVE  G(t)[s] = V(s)
    OBVIOUS
  <2> DEFINE r == s \ {Pick(s)}
  <2>1. Folds(G(t), f, base, t)
    BY <1>2
  <2>2. G(t)[s] = IF s = {} THEN base ELSE f[<<Pick(s), G(t)[r]>>]
    BY <2>1 DEF Folds
  <2>3. ASSUME s # {} PROVE G(t)[r] = G(r)[r]
    <3>1. r \in SUBSET m /\ r # m /\ r \in SUBSET (t \cap r) /\ t \in SUBSET S /\ r \in SUBSET S
      BY <1>1, <2>3, Picked
    <3>2. Folds(G(r), f, base, r)
      BY <1>2, <3>1
    <3> HIDE DEF r
    <3> QED
      BY <2>1, <3>1, <3>2, FoldUnique
  <2> QED
    BY <2>2, <2>3
<1>4. Folds(h, f, base, m)
  <2>1. ASSUME NEW s \in SUBSET m
        PROVE  V(s) = IF s = {} THEN base ELSE f[<<Pick(s), h[s \ {Pick(s)}]>>]
    <3> DEFINE r == s \ {Pick(s)}
    <3>1. CASE s = {}
      BY <3>1
    <3>2. CASE s # {}
      <4>1. r \in SUBSET m /\ r # m /\ r \subseteq r
        BY <3>2, Picked
      <4>2. G(r)[r] = V(r)
        <5> HIDE DEF r, V
        <5> QED
          BY <1>3, <4>1
      <4>3. h[r] = V(r)
        <5> HIDE DEF r, V
        <5> QED
          BY <4>1
      <4> QED
        BY <3>2, <4>2, <4>3
    <3> QED
      BY <3>1, <3>2
  <2> HIDE DEF V
  <2> QED
    BY <2>1 DEF Folds
<1> QED
  BY <1>1, <1>4

-----------------------------------------------------------------------------
(* A sum of natural numbers, one element at a time: g is the sum on every  *)
(* subset of S.                                                            *)
NatOn(f, S) == \A x \in S : f[x] \in Nat

SumRun(f, S, g) ==
  /\ g \in [SUBSET S -> Nat]
  /\ \A s \in SUBSET S : SumFunctionOnSet(f, s) = g[s]
  /\ \A s \in SUBSET S : g[s] = IF s = {} THEN 0 ELSE f[Pick(s)] + g[s \ {Pick(s)}]

LEMMA SumByPick ==
  ASSUME NEW S, IsFiniteSet(S), NEW f, NatOn(f, S)
  PROVE  \E g : SumRun(f, S, g)
<1> DEFINE add == [p \in S \X Nat |-> f[p[1]] + p[2]]
           Sums(g, s) == g = [t \in SUBSET s |->
                               IF t = {} THEN 0 ELSE f[Pick(t)] + g[t \ {Pick(t)}]]
<1>1. PICK g : Folds(g, add, 0, S)
  BY FoldExists
<1>2. \A s \in SUBSET S : g[s] \in Nat
  <2> DEFINE D == {s \in SUBSET S : g[s] \notin Nat}
  <2> SUFFICES ASSUME D # {} PROVE FALSE
    OBVIOUS
  <2>1. PICK s \in D : \A t \in D : t \subseteq s => t = s
    <3>1. D \subseteq SUBSET S
      OBVIOUS
    <3> HIDE DEF D
    <3> QED
      BY <3>1, LeastSubset
  <2>2. g[s] = IF s = {} THEN 0 ELSE add[<<Pick(s), g[s \ {Pick(s)}]>>]
    BY <1>1, <2>1 DEF Folds
  <2>3. s # {}
    BY <2>1, <2>2
  <2>4. Pick(s) \in S /\ f[Pick(s)] \in Nat /\ g[s \ {Pick(s)}] \in Nat
    BY <2>1, <2>3, Picked DEF NatOn
  <2> QED
    BY <2>1, <2>2, <2>3, <2>4
<1>3. \A s \in SUBSET S : g[s] = IF s = {} THEN 0 ELSE f[Pick(s)] + g[s \ {Pick(s)}]
  <2> SUFFICES ASSUME NEW s \in SUBSET S, s # {}
               PROVE  g[s] = f[Pick(s)] + g[s \ {Pick(s)}]
    BY <1>1 DEF Folds
  <2>1. g[s] = add[<<Pick(s), g[s \ {Pick(s)}]>>]
    BY <1>1 DEF Folds
  <2>2. Pick(s) \in S /\ g[s \ {Pick(s)}] \in Nat
    BY <1>2, Picked
  <2> QED
    BY <2>1, <2>2
<1>4. ASSUME NEW s \in SUBSET S PROVE SumFunctionOnSet(f, s) = g[s]
  <2>1. SumFunctionOnSet(f, s) = (CHOOSE h : Sums(h, s))[s]
    BY DEF SumFunctionOnSet, FoldFunctionOnSet, MapThenFoldSet, Pick
  <2> DEFINE r == [t \in SUBSET s |-> g[t]]
  <2>2. Sums(r, s)
    <3>1. ASSUME NEW t \in SUBSET s
          PROVE  r[t] = IF t = {} THEN 0 ELSE f[Pick(t)] + r[t \ {Pick(t)}]
      BY <1>3, Picked
    <3> HIDE DEF r
    <3>2. r = [t \in SUBSET s |-> r[t]]
      BY DEF r
    <3> QED
      BY <3>1, <3>2
  <2> DEFINE h == CHOOSE any : Sums(any, s)
  <2>3. Sums(h, s)
    <3> HIDE DEF Sums
    <3> QED
      BY <2>2
  <2> HIDE DEF h
  <2>4. h[s] = g[s]
    <3> DEFINE D == {t \in SUBSET s : h[t] # g[t]}
    <3> SUFFICES ASSUME D # {} PROVE FALSE
      OBVIOUS
    <3>1. PICK t \in D : \A u \in D : u \subseteq t => u = t
      <4>1. D \subseteq SUBSET S
        OBVIOUS
      <4> HIDE DEF D
      <4> QED
        BY <4>1, LeastSubset
    <3>2. /\ h[t] = IF t = {} THEN 0 ELSE f[Pick(t)] + h[t \ {Pick(t)}]
          /\ g[t] = IF t = {} THEN 0 ELSE f[Pick(t)] + g[t \ {Pick(t)}]
      BY <1>3, <2>3, <3>1
    <3>3. t # {}
      BY <3>1, <3>2
    <3>4. h[t \ {Pick(t)}] = g[t \ {Pick(t)}]
      BY <3>1, <3>3, Picked
    <3> QED
      BY <3>1, <3>2, <3>4
  <2>5. SumFunctionOnSet(f, s) = h[s]
    BY <2>1 DEF h
  <2> HIDE DEF Sums
  <2> QED
    BY <2>4, <2>5
<1>5. g \in [SUBSET S -> Nat]
  BY <1>1, <1>2 DEF Folds
<1> QED
  BY <1>3, <1>4, <1>5 DEF SumRun


(* Of an empty set, and of any set one of whose elements is set apart.     *)
LEMMA SumEmpty == ASSUME NEW f PROVE SumFunctionOnSet(f, {}) = 0
<1>1. IsFiniteSet({}) /\ NatOn(f, {})
  BY FS_EmptySet DEF NatOn
<1>2. PICK g : SumRun(f, {}, g)
  BY <1>1, SumByPick
<1> QED
  BY <1>2 DEF SumRun

LEMMA SumTakeOut ==
  ASSUME NEW S, IsFiniteSet(S), NEW f, NatOn(f, S), NEW x \in S
  PROVE  /\ SumFunctionOnSet(f, S \ {x}) \in Nat
         /\ SumFunctionOnSet(f, S) = f[x] + SumFunctionOnSet(f, S \ {x})
<1>0. PICK g : SumRun(f, S, g)
  BY SumByPick
<1>1. /\ g \in [SUBSET S -> Nat]
      /\ \A s \in SUBSET S : SumFunctionOnSet(f, s) = g[s]
      /\ \A s \in SUBSET S : g[s] = IF s = {} THEN 0 ELSE f[Pick(s)] + g[s \ {Pick(s)}]
  BY <1>0 DEF SumRun
<1> DEFINE D == {s \in SUBSET S : \E z \in s : g[s] # f[z] + g[s \ {z}]}
<1>2. D = {}
  <2> SUFFICES ASSUME D # {} PROVE FALSE
    OBVIOUS
  <2>1. PICK s \in D : \A t \in D : t \subseteq s => t = s
    <3>1. D \subseteq SUBSET S
      OBVIOUS
    <3> HIDE DEF D
    <3> QED
      BY <3>1, LeastSubset
  <2>2. PICK z \in s : g[s] # f[z] + g[s \ {z}]
    BY <2>1
  <2>3. s \in SUBSET S /\ s # {}
    BY <2>1, <2>2
  <2> DEFINE y == Pick(s)
             r == (s \ {y}) \ {z}
  <2>4. y \in s /\ g[s] = f[y] + g[s \ {y}]
    BY <1>1, <2>3, Picked
  <2>5. y # z
    BY <2>2, <2>4
  <2> HIDE DEF y
  <2>6. g[s \ {y}] = f[z] + g[r]
    <3>1. s \ {y} \in SUBSET S /\ s \ {y} \notin D
      BY <2>1, <2>3, <2>4
    <3>2. z \in s \ {y}
      BY <2>2, <2>5
    <3> QED
      BY <3>1, <3>2
  <2>7. g[s \ {z}] = f[y] + g[(s \ {z}) \ {y}]
    <3>1. s \ {z} \in SUBSET S /\ s \ {z} \notin D
      BY <2>1, <2>2, <2>3
    <3>2. y \in s \ {z}
      BY <2>4, <2>5
    <3> QED
      BY <3>1, <3>2
  <2>8. (s \ {z}) \ {y} = r
    OBVIOUS
  <2>9. f[y] \in Nat /\ f[z] \in Nat /\ g[r] \in Nat
    <3>1. r \in SUBSET S
      BY <2>3
    <3> QED
      BY <1>1, <2>2, <2>3, <2>4, <3>1 DEF NatOn
  <2> HIDE DEF r
  <2>10. g[s \ {z}] = f[y] + g[r]
    BY <2>7, <2>8
  <2>11. f[y] + (f[z] + g[r]) = f[z] + (f[y] + g[r])
    BY <2>9
  <2> QED
    BY <2>2, <2>4, <2>6, <2>10, <2>11
<1>3. S \ {x} \in SUBSET S /\ S \in SUBSET S
  OBVIOUS
<1>4. g[S] = f[x] + g[S \ {x}]
  BY <1>2, <1>3
<1> QED
  BY <1>1, <1>3, <1>4

LEMMA SumType ==
  ASSUME NEW S, IsFiniteSet(S), NEW f, NatOn(f, S)
  PROVE  SumFunctionOnSet(f, S) \in Nat
<1>1. PICK g : SumRun(f, S, g)
  BY SumByPick
<1>2. SumFunctionOnSet(f, S) = g[S] /\ g[S] \in Nat
  BY <1>1 DEF SumRun
<1> QED
  BY <1>2

(* A sum depends on the values alone.                                      *)
LEMMA SumSame ==
  ASSUME NEW S, IsFiniteSet(S), NEW f, NatOn(f, S), NEW h, \A x \in S : h[x] = f[x]
  PROVE  SumFunctionOnSet(h, S) = SumFunctionOnSet(f, S)
<1> DEFINE D == {s \in SUBSET S : SumFunctionOnSet(h, s) # SumFunctionOnSet(f, s)}
<1> SUFFICES ASSUME D # {} PROVE FALSE
  OBVIOUS
<1>1. PICK s \in D : \A t \in D : t \subseteq s => t = s
  <2>1. D \subseteq SUBSET S
    OBVIOUS
  <2> HIDE DEF D
  <2> QED
    BY <2>1, LeastSubset
<1>2. s \in SUBSET S /\ IsFiniteSet(s)
  BY <1>1, FS_Subset
<1>3. s # {}
  BY <1>1, SumEmpty
<1>4. PICK x \in s : TRUE
  BY <1>3
<1>5. SumFunctionOnSet(h, s \ {x}) = SumFunctionOnSet(f, s \ {x})
  BY <1>1, <1>2, <1>4
<1>6. NatOn(f, s) /\ NatOn(h, s)
  BY <1>2 DEF NatOn
<1>7. SumFunctionOnSet(f, s) = f[x] + SumFunctionOnSet(f, s \ {x})
  BY <1>2, <1>4, <1>6, SumTakeOut
<1>8. SumFunctionOnSet(h, s) = h[x] + SumFunctionOnSet(h, s \ {x})
  BY <1>2, <1>4, <1>6, SumTakeOut
<1>9. h[x] = f[x]
  BY <1>2, <1>4
<1> QED
  BY <1>1, <1>5, <1>7, <1>8, <1>9

(* A sum of values of at most c each is at most c times their number, and  *)
(* it is only if each of them is c.                                        *)
LEMMA SumAtMost ==
  ASSUME NEW S, IsFiniteSet(S), NEW c \in Nat, NEW f, \A x \in S : f[x] \in 0 .. c
  PROVE  /\ Cardinality(S) \in Nat
         /\ SumFunctionOnSet(f, S) <= c * Cardinality(S)
         /\ SumFunctionOnSet(f, S) = c * Cardinality(S) => \A x \in S : f[x] = c
<1> DEFINE Holds(s) == /\ SumFunctionOnSet(f, s) <= c * Cardinality(s)
                       /\ SumFunctionOnSet(f, s) = c * Cardinality(s) => \A x \in s : f[x] = c
           D == {s \in SUBSET S : ~Holds(s)}
<1> SUFFICES ASSUME D # {} PROVE FALSE
  BY FS_CardinalityType
<1>1. PICK s \in D : \A t \in D : t \subseteq s => t = s
  <2>1. D \subseteq SUBSET S
    OBVIOUS
  <2> HIDE DEF D
  <2> QED
    BY <2>1, LeastSubset
<1>2. s \in SUBSET S /\ IsFiniteSet(s) /\ Cardinality(s) \in Nat /\ ~Holds(s)
  BY <1>1, FS_Subset, FS_CardinalityType
<1>3. s # {}
  BY <1>2, SumEmpty, FS_EmptySet
<1>4. PICK x \in s : TRUE
  BY <1>3
<1> DEFINE r == s \ {x}
<1>5. Holds(r)
  BY <1>1, <1>2, <1>4
<1>6. Cardinality(r) \in Nat /\ Cardinality(s) = Cardinality(r) + 1
  <2>1. Cardinality(r) = Cardinality(s) - 1 /\ IsFiniteSet(r)
    BY <1>2, <1>4, FS_RemoveElement
  <2>2. Cardinality(r) \in Nat
    BY <2>1, FS_CardinalityType
  <2> QED
    BY <1>2, <2>1, <2>2
<1>7. /\ SumFunctionOnSet(f, r) \in Nat
      /\ SumFunctionOnSet(f, s) = f[x] + SumFunctionOnSet(f, r)
  <2>1. NatOn(f, s)
    BY <1>2 DEF NatOn
  <2> HIDE DEF r
  <2> QED
    BY <1>2, <1>4, <2>1, SumTakeOut DEF r
<1>8. c * Cardinality(s) = c * Cardinality(r) + c /\ c * Cardinality(r) \in Nat
  BY <1>6
<1>9. f[x] \in 0 .. c
  BY <1>2, <1>4
<1>10. SumFunctionOnSet(f, s) <= c * Cardinality(s)
  BY <1>5, <1>7, <1>8, <1>9
<1>11. ASSUME SumFunctionOnSet(f, s) = c * Cardinality(s) PROVE \A z \in s : f[z] = c
  <2>1. f[x] = c /\ SumFunctionOnSet(f, r) = c * Cardinality(r)
    BY <1>5, <1>7, <1>8, <1>9, <1>11
  <2> QED
    BY <1>5, <2>1
<1> QED
  BY <1>2, <1>10, <1>11

-----------------------------------------------------------------------------
(* A sum of equal values, a sum of which some values are zero, and two     *)
(* sums of values that are near each other.                                *)
LEMMA SumOfEqual ==
  ASSUME NEW S, IsFiniteSet(S), NEW c \in Nat, NEW f, \A x \in S : f[x] = c
  PROVE  Cardinality(S) \in Nat /\ SumFunctionOnSet(f, S) = c * Cardinality(S)
<1> DEFINE D == {s \in SUBSET S : SumFunctionOnSet(f, s) # c * Cardinality(s)}
<1> SUFFICES ASSUME D # {} PROVE FALSE
  BY FS_CardinalityType
<1>1. PICK s \in D : \A t \in D : t \subseteq s => t = s
  <2>1. D \subseteq SUBSET S
    OBVIOUS
  <2> HIDE DEF D
  <2> QED
    BY <2>1, LeastSubset
<1>2. s \in SUBSET S /\ IsFiniteSet(s) /\ NatOn(f, s)
  BY <1>1, FS_Subset DEF NatOn
<1>3. s # {}
  <2>1. c * 0 = 0
    OBVIOUS
  <2> QED
    BY <1>1, <2>1, SumEmpty, FS_EmptySet
<1>4. PICK x \in s : TRUE
  BY <1>3
<1> DEFINE r == s \ {x}
           m == Cardinality(r)
<1>5. SumFunctionOnSet(f, r) = c * m
  BY <1>1, <1>4
<1>6. m \in Nat /\ Cardinality(s) = m + 1
  <2>1. IsFiniteSet(r) /\ Cardinality(s) \in Nat /\ m = Cardinality(s) - 1
    BY <1>2, <1>4, FS_RemoveElement, FS_CardinalityType
  <2>2. m \in Nat
    BY <2>1, FS_CardinalityType
  <2> QED
    BY <2>1, <2>2
<1>7. SumFunctionOnSet(f, s) = f[x] + SumFunctionOnSet(f, r)
  BY <1>2, <1>4, SumTakeOut
<1>8. f[x] = c
  BY <1>2, <1>4
<1> HIDE DEF m
<1>9. c + c * m = c * (m + 1)
  BY <1>6
<1> QED
  BY <1>1, <1>5, <1>6, <1>7, <1>8, <1>9

LEMMA SumWithoutZeros ==
  ASSUME NEW S, IsFiniteSet(S), NEW f, NatOn(f, S), NEW T \in SUBSET S, \A x \in S \ T : f[x] = 0
  PROVE  SumFunctionOnSet(f, S) = SumFunctionOnSet(f, T)
<1> DEFINE D == {s \in SUBSET S : SumFunctionOnSet(f, s) # SumFunctionOnSet(f, s \cap T)}
<1> SUFFICES ASSUME D # {} PROVE FALSE
  <2>1. S \cap T = T
    OBVIOUS
  <2> QED
    BY <2>1
<1>1. PICK s \in D : \A t \in D : t \subseteq s => t = s
  <2>1. D \subseteq SUBSET S
    OBVIOUS
  <2> HIDE DEF D
  <2> QED
    BY <2>1, LeastSubset
<1>2. s \in SUBSET S /\ IsFiniteSet(s) /\ NatOn(f, s)
  BY <1>1, FS_Subset DEF NatOn
<1>3. PICK x \in s : x \notin T
  <2>1. s # s \cap T
    BY <1>1
  <2> QED
    BY <2>1
<1> DEFINE r == s \ {x}
<1>4. r \cap T = s \cap T
  BY <1>3
<1>5. SumFunctionOnSet(f, r) = SumFunctionOnSet(f, r \cap T)
  BY <1>1, <1>2, <1>3
<1>6. SumFunctionOnSet(f, s) = f[x] + SumFunctionOnSet(f, r) /\ SumFunctionOnSet(f, r) \in Nat
  BY <1>2, <1>3, SumTakeOut
<1>7. f[x] = 0
  BY <1>2, <1>3
<1> HIDE DEF r
<1> QED
  BY <1>1, <1>4, <1>5, <1>6, <1>7

(* Twice the distance, which rounding keeps within the resolution.         *)
Near(a, b, r) == 2 * a <= 2 * b + r /\ 2 * b <= 2 * a + r

LEMMA SumsNear ==
  ASSUME NEW S, IsFiniteSet(S), NEW r \in Nat, NEW f, NEW g, NatOn(f, S), NatOn(g, S),
         \A x \in S : Near(f[x], g[x], r)
  PROVE  Near(SumFunctionOnSet(f, S), SumFunctionOnSet(g, S), r * Cardinality(S))
<1> DEFINE Holds(s) == Near(SumFunctionOnSet(f, s), SumFunctionOnSet(g, s), r * Cardinality(s))
           D == {s \in SUBSET S : ~Holds(s)}
<1> SUFFICES ASSUME D # {} PROVE FALSE
  OBVIOUS
<1>1. PICK s \in D : \A t \in D : t \subseteq s => t = s
  <2>1. D \subseteq SUBSET S
    OBVIOUS
  <2> HIDE DEF D
  <2> QED
    BY <2>1, LeastSubset
<1>2. s \in SUBSET S /\ IsFiniteSet(s) /\ NatOn(f, s) /\ NatOn(g, s) /\ ~Holds(s)
  BY <1>1, FS_Subset DEF NatOn
<1>3. s # {}
  BY <1>2, SumEmpty, FS_EmptySet DEF Near
<1>4. PICK x \in s : TRUE
  BY <1>3
<1> DEFINE t == s \ {x}
           m == Cardinality(t)
           a == SumFunctionOnSet(f, t)
           b == SumFunctionOnSet(g, t)
<1>5. Near(a, b, r * m)
  BY <1>1, <1>2, <1>4
<1>6. m \in Nat /\ Cardinality(s) = m + 1
  <2>1. IsFiniteSet(t) /\ Cardinality(s) \in Nat /\ m = Cardinality(s) - 1
    BY <1>2, <1>4, FS_RemoveElement, FS_CardinalityType
  <2>2. m \in Nat
    BY <2>1, FS_CardinalityType
  <2> QED
    BY <2>1, <2>2
<1>7. /\ SumFunctionOnSet(f, s) = f[x] + a /\ a \in Nat
      /\ SumFunctionOnSet(g, s) = g[x] + b /\ b \in Nat
  BY <1>2, <1>4, SumTakeOut
<1>8. f[x] \in Nat /\ g[x] \in Nat /\ Near(f[x], g[x], r)
  BY <1>2, <1>4 DEF NatOn
<1> HIDE DEF m, a, b
<1>9. r * (m + 1) = r * m + r /\ r * m \in Nat
  BY <1>6
<1>10. Near(f[x] + a, g[x] + b, r * (m + 1))
  BY <1>5, <1>7, <1>8, <1>9 DEF Near
<1> QED
  BY <1>2, <1>6, <1>7, <1>10

(* A sum, grouped by value.                                                *)
Values(f, S) == {f[x] : x \in S}
With(f, S, v) == {x \in S : f[x] = v}
Grouped(f, S) == [v \in Values(f, S) |-> v * Cardinality(With(f, S, v))]

LEMMA GroupedNat ==
  ASSUME NEW S, IsFiniteSet(S), NEW f, NatOn(f, S)
  PROVE  /\ IsFiniteSet(Values(f, S)) /\ NatOn(Grouped(f, S), Values(f, S))
         /\ \A v : IsFiniteSet(With(f, S, v)) /\ Cardinality(With(f, S, v)) \in Nat
<1>1. IsFiniteSet(Values(f, S))
  <2> DEFINE h == [x \in S |-> f[x]]
  <2>1. h \in Surjection(S, Values(f, S))
    BY DEF Surjection, Values
  <2> HIDE DEF h
  <2> QED
    BY <2>1, FS_Surjection
<1>2. ASSUME NEW v PROVE IsFiniteSet(With(f, S, v)) /\ Cardinality(With(f, S, v)) \in Nat
  <2>1. With(f, S, v) \in SUBSET S
    BY DEF With
  <2> QED
    BY <2>1, FS_Subset, FS_CardinalityType
<1>3. ASSUME NEW v \in Values(f, S) PROVE Grouped(f, S)[v] \in Nat
  <2>1. v \in Nat
    BY DEF Values, NatOn
  <2> DEFINE c == Cardinality(With(f, S, v))
  <2>2. c \in Nat /\ Grouped(f, S)[v] = v * c
    BY <1>2 DEF Grouped
  <2> HIDE DEF c
  <2> QED
    BY <2>1, <2>2
<1> QED
  BY <1>1, <1>2, <1>3 DEF NatOn

LEMMA SumByValue ==
  ASSUME NEW S, IsFiniteSet(S), NEW f, NatOn(f, S)
  PROVE  SumFunctionOnSet(f, S) = SumFunctionOnSet(Grouped(f, S), Values(f, S))
<1> DEFINE Holds(s) == SumFunctionOnSet(f, s) = SumFunctionOnSet(Grouped(f, s), Values(f, s))
           D == {s \in SUBSET S : ~Holds(s)}
<1> SUFFICES ASSUME D # {} PROVE FALSE
  OBVIOUS
<1>1. PICK s \in D : \A t \in D : t \subseteq s => t = s
  <2>1. D \subseteq SUBSET S
    OBVIOUS
  <2> HIDE DEF D
  <2> QED
    BY <2>1, LeastSubset
<1>2. s \in SUBSET S /\ IsFiniteSet(s) /\ NatOn(f, s) /\ ~Holds(s)
  BY <1>1, FS_Subset DEF NatOn
<1>3. s # {}
  <2> SUFFICES ASSUME s = {} PROVE FALSE
    OBVIOUS
  <2>1. Values(f, s) = {}
    BY DEF Values
  <2> QED
    BY <1>2, <2>1, SumEmpty
<1>4. PICK x \in s : TRUE
  BY <1>3
<1> DEFINE r == s \ {x}
           v == f[x]
           m == Cardinality(With(f, r, v))
           old == Grouped(f, r)
           new == Grouped(f, s)
           rest == Values(f, s) \ {v}
<1>5. Holds(r) /\ IsFiniteSet(r) /\ NatOn(f, r)
  BY <1>1, <1>2, <1>4, FS_Subset DEF NatOn
<1>6. SumFunctionOnSet(f, s) = v + SumFunctionOnSet(f, r) /\ SumFunctionOnSet(f, r) \in Nat
  BY <1>2, <1>4, SumTakeOut
<1>7. v \in Nat /\ v \in Values(f, s)
  BY <1>2, <1>4 DEF NatOn, Values
<1>8. /\ IsFiniteSet(Values(f, s)) /\ NatOn(new, Values(f, s))
      /\ IsFiniteSet(Values(f, r)) /\ NatOn(old, Values(f, r)) /\ m \in Nat
      /\ IsFiniteSet(With(f, r, v))
  BY <1>2, <1>5, GroupedNat
<1>9. new[v] = v * (m + 1)
  <2>1. With(f, s, v) = With(f, r, v) \cup {x} /\ x \notin With(f, r, v)
    BY <1>4 DEF With
  <2>2. Cardinality(With(f, s, v)) = m + 1
    BY <1>8, <2>1, FS_AddElement
  <2> QED
    BY <1>7, <2>2 DEF Grouped
<1>10. \A w \in rest : w \in Values(f, r) /\ new[w] = old[w]
  <2> SUFFICES ASSUME NEW w \in rest PROVE w \in Values(f, r) /\ new[w] = old[w]
    OBVIOUS
  <2>1. With(f, s, w) = With(f, r, w)
    BY DEF With
  <2>2. w \in Values(f, r) /\ w \in Values(f, s)
    BY DEF Values
  <2> QED
    BY <2>1, <2>2 DEF Grouped
<1>11. SumFunctionOnSet(new, Values(f, s)) = new[v] + SumFunctionOnSet(new, rest)
  BY <1>7, <1>8, SumTakeOut
<1>12. SumFunctionOnSet(new, rest) = SumFunctionOnSet(old, rest)
  <2>1. IsFiniteSet(rest) /\ NatOn(old, rest)
    BY <1>8, <1>10, FS_RemoveElement DEF NatOn
  <2> HIDE DEF rest, old, new
  <2> QED
    BY <1>10, <2>1, SumSame
<1>13. /\ SumFunctionOnSet(f, s) # SumFunctionOnSet(new, Values(f, s))
       /\ SumFunctionOnSet(f, r) = SumFunctionOnSet(old, Values(f, r))
  BY <1>2, <1>5
<1> HIDE DEF Holds, D
<1>14. CASE v \in Values(f, r)
  <2>1. rest = Values(f, r) \ {v} /\ old[v] = v * m
    BY <1>4, <1>14 DEF Values, Grouped
  <2>2. /\ SumFunctionOnSet(old, Values(f, r)) = old[v] + SumFunctionOnSet(old, rest)
        /\ SumFunctionOnSet(old, rest) \in Nat
    <3> HIDE DEF old, rest
    <3> QED
      BY <1>8, <1>14, <2>1, SumTakeOut
  <2> HIDE DEF m, v, old, new, rest, r
  <2>3. v * (m + 1) = v * m + v /\ v * m \in Nat
    BY <1>7, <1>8
  <2> DEFINE b == SumFunctionOnSet(old, rest)
             p == v * m
  <2>4. (p + v) + b = v + (p + b)
    <3>1. p \in Nat /\ b \in Nat
      BY <2>2, <2>3
    <3> HIDE DEF p, b
    <3> QED
      BY <1>7, <3>1
  <2> QED
    BY <1>13, <1>6, <1>9, <1>11, <1>12, <2>1, <2>2, <2>3, <2>4
<1>15. CASE v \notin Values(f, r)
  <2>1. rest = Values(f, r)
    BY <1>4, <1>15 DEF Values
  <2>2. m = 0
    <3>1. With(f, r, v) = {}
      BY <1>15 DEF With, Values
    <3> QED
      BY <3>1, FS_EmptySet
  <2> HIDE DEF m, v, old, new, rest, r
  <2>3. v * (m + 1) = v
    BY <1>7, <2>2
  <2> QED
    BY <1>13, <1>6, <1>9, <1>11, <1>12, <2>1, <2>3
<1> QED
  BY <1>14, <1>15

-----------------------------------------------------------------------------
(* Whole division, by what it is between.                                  *)
LEMMA Divided ==
  ASSUME NEW a \in Nat, NEW b \in Nat \ {0}
  PROVE  a \div b \in Nat /\ (a \div b) * b <= a /\ a < (a \div b) * b + b
<1>1. a \div b \in Nat
  OBVIOUS
<1>2. a % b \in 0 .. (b - 1)
  OBVIOUS
<1>3. a = b * (a \div b) + (a % b)
  OBVIOUS
<1> QED
  BY <1>1, <1>2, <1>3

LEMMA DividedBy ==
  ASSUME NEW a \in Nat, NEW b \in Nat \ {0}, NEW q \in Nat, q * b <= a, a < q * b + b
  PROVE  a \div b = q
<1> DEFINE p == a \div b
<1>1. p \in Nat /\ p * b <= a /\ a < p * b + b
  BY Divided
<1> HIDE DEF p
<1>2. ~(p < q)
  <2> SUFFICES ASSUME p < q PROVE FALSE
    OBVIOUS
  <2>1. PICK e \in Nat : q = p + 1 + e
    <3>1. q = p + 1 + (q - p - 1) /\ q - p - 1 \in Nat
      BY <1>1
    <3> QED
      BY <3>1
  <2>2. q * b = p * b + b + e * b /\ e * b \in Nat /\ p * b \in Nat
    BY <1>1, <2>1
  <2> QED
    BY <1>1, <2>2
<1>3. ~(q < p)
  <2> SUFFICES ASSUME q < p PROVE FALSE
    OBVIOUS
  <2>1. PICK e \in Nat : p = q + 1 + e
    <3>1. p = q + 1 + (p - q - 1) /\ p - q - 1 \in Nat
      BY <1>1
    <3> QED
      BY <3>1
  <2>2. p * b = q * b + b + e * b /\ e * b \in Nat /\ q * b \in Nat
    BY <1>1, <2>1
  <2> QED
    BY <1>1, <2>2
<1> QED
  BY <1>1, <1>2, <1>3

=============================================================================
