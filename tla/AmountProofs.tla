----------------------------- MODULE AmountProofs -----------------------------
(***************************************************************************)
(* The arithmetic the other proofs rest on.                                *)
(*                                                                         *)
(* Induction comes in the form of sets: a set of numbers that holds 0 and  *)
(* the successor of each of its members holds every number (Numbers), and  *)
(* likewise for the subsets of a finite set (Subsets).  With them, the     *)
(* recursion inside the folds of the community modules has a solution      *)
(* (FoldExists), so that a sum over a finite function may be split, moved  *)
(* and changed at a point (SumExtends, SumChanges, SumAdds, SumMaps,       *)
(* SumAlong), and a fold over a sequence is a run through its elements.    *)
(*                                                                         *)
(* Amounts: Euclid's algorithm ends in a common divisor that is a          *)
(* combination of its two arguments, so a quantity has an exact quote just *)
(* when the step of its price divides it (BudgetBuys).                     *)
(***************************************************************************)
EXTENDS Amount, Sequences, SequencesExt, TLAPS, FiniteSetTheorems, WellFoundedInduction

-----------------------------------------------------------------------------
(* Induction over the numbers, for a set of cases.                          *)

\* Induction over Nat in its set form.
LEMMA Numbers ==
    ASSUME NEW T, 0 \in T, \A n \in Nat : n \in T => n + 1 \in T
    PROVE  \A n \in Nat : n \in T
<1>1. SUFFICES ASSUME NEW N \in Nat, N \notin T PROVE FALSE
  OBVIOUS
<1>2. PICK B : B = {n \in Nat : n \notin T}
  OBVIOUS
<1>3. PICK least \in B : \A y \in B : ~(<<y, least>> \in OpToRel(<, Nat))
  <2>1. B \subseteq Nat /\ B # {}
    BY <1>1, <1>2
  <2>2. QED
    BY Zenon, <2>1, NatLessThanWellFounded, WFMin
<1>4. \A y \in B : ~(y < least)
  BY <1>2, <1>3 DEF OpToRel
<1>5. least \in Nat /\ least \notin T /\ least # 0
  BY <1>2
<1>6. least - 1 \in Nat /\ least - 1 < least /\ (least - 1) + 1 = least
  BY <1>5
<1>7. least - 1 \in T
  BY <1>2, <1>4, <1>6
<1>8. QED
  BY <1>5, <1>6, <1>7

-----------------------------------------------------------------------------
(* Induction over finite sets, for a set of cases.                          *)

\* A set of subsets that holds a set as soon as it holds every set with one
\* element less holds them all.
LEMMA Subsets ==
    ASSUME NEW S, IsFiniteSet(S), NEW T,
           \A x \in SUBSET S : (\A y \in x : x \ {y} \in T) => x \in T
    PROVE  \A x \in SUBSET S : x \in T
<1>1. PICK sizes : sizes = {n \in Nat : \A x \in SUBSET S : Cardinality(x) = n => x \in T}
  OBVIOUS
<1>2. ASSUME NEW x \in SUBSET S PROVE IsFiniteSet(x) /\ Cardinality(x) \in Nat
  BY FS_Subset, FS_CardinalityType
<1>3. 0 \in sizes
  <2>1. ASSUME NEW x \in SUBSET S, Cardinality(x) = 0 PROVE x \in T
    <3>1. x = {}
      BY <1>2, <2>1, FS_EmptySet
    <3>2. QED
      BY <3>1
  <2>2. QED
    BY <1>1, <2>1
<1>4. ASSUME NEW n \in Nat, n \in sizes PROVE n + 1 \in sizes
  <2>1. ASSUME NEW x \in SUBSET S, Cardinality(x) = n + 1 PROVE x \in T
    <3>1. ASSUME NEW y \in x PROVE x \ {y} \in T
      <4>1. Cardinality(x \ {y}) = n
        BY <1>2, <2>1, FS_RemoveElement
      <4>2. QED
        BY <1>1, <1>4, <4>1
    <3>2. QED
      BY <3>1
  <2>2. QED
    BY <1>1, <2>1
<1>5. \A n \in Nat : n \in sizes
  BY <1>3, <1>4, Numbers
<1>6. QED
  BY <1>1, <1>2, <1>5

-----------------------------------------------------------------------------
(* The recursion behind a fold: from a set to the set without its pick.     *)

Solves(base, c, G, x, h) ==
    h = [z \in SUBSET x |-> IF z = {} THEN base ELSE G[<<h[z \ {c[z]}], c[z]>>]]

\* What a solution of the recursion says at one subset.
LEMMA SolutionValue ==
    ASSUME NEW base, NEW c, NEW G, NEW x, NEW h, Solves(base, c, G, x, h), NEW z \in SUBSET x
    PROVE  h[z] = IF z = {} THEN base ELSE G[<<h[z \ {c[z]}], c[z]>>]
<1>1. PICK k : k = [y \in SUBSET x |-> IF y = {} THEN base ELSE G[<<h[y \ {c[y]}], c[y]>>]]
  OBVIOUS
<1>2. h = k
  BY <1>1 DEF Solves
<1>3. QED
  BY <1>1, <1>2

\* Two solutions agree wherever both are defined.
LEMMA SolutionsAgree ==
    ASSUME NEW D, IsFiniteSet(D), NEW base, NEW c, \A z \in SUBSET D : z # {} => c[z] \in z, NEW G,
           NEW x \in SUBSET D, NEW h, Solves(base, c, G, x, h),
           NEW y \in SUBSET D, NEW k, Solves(base, c, G, y, k),
           NEW z \in SUBSET x, z \in SUBSET y
    PROVE  h[z] = k[z]
<1>1. PICK T : T = {v \in SUBSET D : v \in SUBSET x /\ v \in SUBSET y => h[v] = k[v]}
  OBVIOUS
<1>2. ASSUME NEW v \in SUBSET D, \A u \in v : v \ {u} \in T PROVE v \in T
  <2>1. SUFFICES ASSUME v \in SUBSET x, v \in SUBSET y PROVE h[v] = k[v]
    BY <1>1
  <2>2. /\ h[v] = IF v = {} THEN base ELSE G[<<h[v \ {c[v]}], c[v]>>]
        /\ k[v] = IF v = {} THEN base ELSE G[<<k[v \ {c[v]}], c[v]>>]
    BY <2>1, SolutionValue
  <2>3. v # {} => h[v \ {c[v]}] = k[v \ {c[v]}]
    BY <1>1, <1>2, <2>1
  <2>4. QED
    BY <2>2, <2>3
<1>3. \A v \in SUBSET D : v \in T
  BY <1>2, Subsets
<1>4. QED
  BY <1>1, <1>3

\* A solution for a set contains one for each of its subsets.
LEMMA SolutionRestricts ==
    ASSUME NEW base, NEW c, NEW G, NEW x, NEW h, Solves(base, c, G, x, h), NEW z \in SUBSET x,
           \A y \in SUBSET x : y # {} => c[y] \in y
    PROVE  \E k : Solves(base, c, G, z, k)
<1>1. PICK k : k = [y \in SUBSET z |-> h[y]]
  OBVIOUS
<1>2. k = [y \in SUBSET z |-> IF y = {} THEN base ELSE G[<<k[y \ {c[y]}], c[y]>>]]
  <2>1. ASSUME NEW y \in SUBSET z
        PROVE  h[y] = IF y = {} THEN base ELSE G[<<k[y \ {c[y]}], c[y]>>]
    <3>1. y \in SUBSET x /\ y \ {c[y]} \in SUBSET z
      OBVIOUS
    <3>2. k[y \ {c[y]}] = h[y \ {c[y]}]
      BY <1>1, <3>1
    <3>3. h[y] = IF y = {} THEN base ELSE G[<<h[y \ {c[y]}], c[y]>>]
      BY <3>1, SolutionValue
    <3>4. QED
      BY <3>2, <3>3
  <2>2. QED
    BY <1>1, <2>1
<1>3. QED
  BY <1>2 DEF Solves

\* The recursion of a fold has a solution for every finite set.
LEMMA SolutionExists ==
    ASSUME NEW D, IsFiniteSet(D), NEW base, NEW c, \A z \in SUBSET D : z # {} => c[z] \in z, NEW G
    PROVE  \E h : Solves(base, c, G, D, h)
<1>1. PICK T : T = {x \in SUBSET D : \E h : Solves(base, c, G, x, h)}
  OBVIOUS
<1> DEFINE Val(z) == (CHOOSE h : Solves(base, c, G, z, h))[z]
<1>2. ASSUME NEW x \in SUBSET D, NEW k, Solves(base, c, G, x, k), NEW z \in SUBSET x
      PROVE  Val(z) = k[z]
  <2>1. PICK h : h = CHOOSE g : Solves(base, c, G, z, g)
    OBVIOUS
  <2>2. \E g : Solves(base, c, G, z, g)
    BY <1>2, SolutionRestricts
  <2>3. Solves(base, c, G, z, h)
    BY <2>1, <2>2
  <2>4. z \in SUBSET D
    OBVIOUS
  <2>5. h[z] = k[z]
    BY <1>2, <2>3, <2>4, SolutionsAgree
  <2>6. QED
    BY <2>1, <2>5
<1>3. ASSUME NEW x \in SUBSET D, \A y \in x : x \ {y} \in T PROVE x \in T
  <2> HIDE DEF Val
  <2>1. PICK h : h = [z \in SUBSET x |-> IF z = x THEN IF x = {} THEN base ELSE G[<<Val(x \ {c[x]}), c[x]>>]
                                         ELSE Val(z)]
    OBVIOUS
  <2>2. ASSUME NEW z \in SUBSET x
        PROVE  h[z] = IF z = {} THEN base ELSE G[<<h[z \ {c[z]}], c[z]>>]
    <3>1. CASE z = x
      <4>1. x # {} => c[x] \in x /\ x \ {c[x]} \in SUBSET x /\ x \ {c[x]} # x
        OBVIOUS
      <4>2. h[x] = IF x = {} THEN base ELSE G[<<Val(x \ {c[x]}), c[x]>>]
        BY <2>1
      <4>3. x # {} => h[x \ {c[x]}] = Val(x \ {c[x]})
        BY <2>1, <4>1
      <4>4. CASE x = {}
        BY <3>1, <4>2, <4>4
      <4>5. CASE x # {}
        <5>1. h[x] = G[<<h[x \ {c[x]}], c[x]>>]
          BY <4>2, <4>3, <4>5
        <5>2. QED
          BY <3>1, <4>5, <5>1, Zenon
      <4>6. QED
        BY <4>4, <4>5
    <3>2. CASE z # x
      <4>1. PICK y \in x : y \notin z
        BY <3>2
      <4>2. PICK w : w = x \ {y}
        OBVIOUS
      <4>3. w \in SUBSET D /\ z \in SUBSET w /\ z \ {c[z]} \in SUBSET w
        BY <4>1, <4>2
      <4>4. PICK k : Solves(base, c, G, w, k)
        BY <1>1, <1>3, <4>2
      <4>5. \A u \in SUBSET w : Val(u) = k[u]
        BY <1>2, <4>3, <4>4
      <4>6. Val(z) = k[z] /\ Val(z \ {c[z]}) = k[z \ {c[z]}]
        BY <4>3, <4>5
      <4>7. h[z] = Val(z) /\ h[z \ {c[z]}] = Val(z \ {c[z]})
        BY <2>1, <3>2, <4>1
      <4>8. k[z] = IF z = {} THEN base ELSE G[<<k[z \ {c[z]}], c[z]>>]
        BY <4>3, <4>4, SolutionValue
      <4>9. QED
        BY <4>6, <4>7, <4>8
    <3>3. QED
      BY <3>1, <3>2
  <2>3. h = [z \in SUBSET x |-> IF z = {} THEN base ELSE G[<<h[z \ {c[z]}], c[z]>>]]
    BY <2>1, <2>2
  <2>4. QED
    BY <1>1, <2>3 DEF Solves
<1>4. \A x \in SUBSET D : x \in T
  BY <1>3, Subsets
<1>5. QED
  BY <1>1, <1>4

\* Values stay in a set that every step stays in.
LEMMA SolutionType ==
    ASSUME NEW D, IsFiniteSet(D), NEW base, NEW c, \A z \in SUBSET D : z # {} => c[z] \in z, NEW G,
           NEW V, base \in V, \A v \in V, d \in D : G[<<v, d>>] \in V,
           NEW h, Solves(base, c, G, D, h)
    PROVE  h \in [SUBSET D -> V]
<1>1. PICK T : T = {x \in SUBSET D : h[x] \in V}
  OBVIOUS
<1>2. ASSUME NEW x \in SUBSET D, \A y \in x : x \ {y} \in T PROVE x \in T
  <2>1. h[x] = IF x = {} THEN base ELSE G[<<h[x \ {c[x]}], c[x]>>]
    BY SolutionValue
  <2>2. CASE x = {}
    BY <1>1, <2>1, <2>2
  <2>3. CASE x # {}
    <3>1. c[x] \in D /\ h[x \ {c[x]}] \in V
      BY <1>1, <1>2, <2>3
    <3>2. h[x] \in V
      BY <2>1, <2>3, <3>1
    <3>3. QED
      BY <1>1, <3>2
  <2>4. QED
    BY <2>2, <2>3
<1>3. \A x \in SUBSET D : x \in T
  BY <1>2, Subsets
<1>4. \A x \in SUBSET D : h[x] \in V
  BY <1>1, <1>3
<1>5. h = [x \in SUBSET D |-> h[x]]
  BY DEF Solves
<1>6. QED
  BY <1>4, <1>5

-----------------------------------------------------------------------------
(* Sums.                                                                    *)

Pick(S) == CHOOSE y \in S : TRUE
Sums(f, S, it) ==
    it = [x \in SUBSET S |-> IF x = {} THEN 0 ELSE f[Pick(x)] + it[x \ {Pick(x)}]]
Numeric(f) == IsFiniteSet(DOMAIN f) /\ f \in [DOMAIN f -> Int]

\* SumFunction is the value of a running sum at the whole domain.
LEMMA SumsExist ==
    ASSUME NEW f, Numeric(f)
    PROVE  \E it : Sums(f, DOMAIN f, it) /\ SumFunction(f) = it[DOMAIN f]
<1>1. PICK S : S = DOMAIN f
  OBVIOUS
<1>2. IsFiniteSet(S) /\ f \in [S -> Int]
  BY <1>1 DEF Numeric
<1>3. PICK c : c = [x \in SUBSET S |-> Pick(x)]
  BY Zenon
<1>4. \A x \in SUBSET S : x # {} => c[x] \in x /\ c[x] = Pick(x)
  BY <1>3 DEF Pick
<1>5. PICK G : G = [w \in Int \X S |-> f[w[2]] + w[1]]
  OBVIOUS
<1>6. ASSUME NEW v \in Int, NEW d \in S PROVE G[<<v, d>>] = f[d] + v /\ G[<<v, d>>] \in Int
  BY <1>2, <1>5
<1>7. PICK h : Solves(0, c, G, S, h)
  BY <1>2, <1>4, SolutionExists
<1>8. h \in [SUBSET S -> Int]
  <2>1. PICK V : V = Int
    OBVIOUS
  <2>2. 0 \in V /\ \A v \in V, d \in S : G[<<v, d>>] \in V
    BY <1>6, <2>1
  <2>3. h \in [SUBSET S -> V]
    BY <1>2, <1>4, <1>7, <2>2, SolutionType
  <2>4. QED
    BY <2>1, <2>3
<1>9. ASSUME NEW x \in SUBSET S
      PROVE  h[x] = IF x = {} THEN 0 ELSE f[Pick(x)] + h[x \ {Pick(x)}]
  <2>1. h[x] = IF x = {} THEN 0 ELSE G[<<h[x \ {c[x]}], c[x]>>]
    BY <1>7, SolutionValue
  <2>2. CASE x = {}
    BY <2>1, <2>2
  <2>3. CASE x # {}
    <3>1. c[x] = Pick(x) /\ c[x] \in S /\ h[x \ {c[x]}] \in Int
      BY <1>4, <1>8, <2>3
    <3>2. QED
      BY <1>6, <2>1, <2>3, <3>1
  <2>4. QED
    BY <2>2, <2>3
<1>10. Sums(f, S, h)
  <2>1. h = [x \in SUBSET S |-> IF x = {} THEN 0 ELSE f[Pick(x)] + h[x \ {Pick(x)}]]
    BY <1>8, <1>9
  <2>2. QED
    BY <2>1 DEF Sums
<1>11. Sums(f, DOMAIN f, CHOOSE g : Sums(f, DOMAIN f, g))
  BY <1>1, <1>10
<1>12. SumFunction(f) = (CHOOSE g : Sums(f, DOMAIN f, g))[DOMAIN f]
  BY DEF SumFunction, SumFunctionOnSet, FoldFunctionOnSet, MapThenFoldSet, Sums, Pick
<1>13. QED
  BY <1>11, <1>12

SumAt(f, it, x) == it[x] = IF x = {} THEN 0 ELSE f[Pick(x)] + it[x \ {Pick(x)}]

\* A running sum at one subset.
LEMMA SumsValue ==
    ASSUME NEW f, NEW S, NEW it, Sums(f, S, it), NEW x \in SUBSET S
    PROVE  SumAt(f, it, x)
<1>1. PICK k : k = [y \in SUBSET S |-> IF y = {} THEN 0 ELSE f[Pick(y)] + it[y \ {Pick(y)}]]
  OBVIOUS
<1>2. it = k
  BY <1>1 DEF Sums
<1>3. QED
  BY <1>1, <1>2 DEF SumAt

\* A sum is a number, and any element may be taken out first.
TakesOut(f, it, x) == \A y \in x : it[x] = f[y] + it[x \ {y}]

\* A running sum does not depend on which element is taken out first.
LEMMA SumsTakeOut ==
    ASSUME NEW f, NEW S, IsFiniteSet(S), f \in [S -> Int], NEW it, Sums(f, S, it)
    PROVE  /\ it[{}] = 0
           /\ \A x \in SUBSET S : it[x] \in Int
           /\ \A x \in SUBSET S : TakesOut(f, it, x)
<1>1. it[{}] = 0
  <2>1. SumAt(f, it, {})
    BY SumsValue
  <2>2. QED
    BY <2>1 DEF SumAt
<1>2. \A x \in SUBSET S : it[x] \in Int
  <2>1. PICK T : T = {x \in SUBSET S : it[x] \in Int}
    OBVIOUS
  <2>2. ASSUME NEW x \in SUBSET S, \A y \in x : x \ {y} \in T PROVE x \in T
    <3>1. CASE x = {}
      BY <1>1, <2>1, <3>1
    <3>2. CASE x # {}
      <4>1. PICK p \in x : p = Pick(x)
        BY <3>2 DEF Pick
      <4>2. it[x] = f[p] + it[x \ {p}]
        <5>1. SumAt(f, it, x)
          BY SumsValue
        <5>2. QED
          BY <3>2, <4>1, <5>1 DEF SumAt
      <4>3. it[x \ {p}] \in Int /\ f[p] \in Int
        BY <2>1, <2>2
      <4>4. QED
        BY <2>1, <4>2, <4>3
    <3>3. QED
      BY <3>1, <3>2
  <2>3. \A x \in SUBSET S : x \in T
    BY <2>2, Subsets
  <2>4. QED
    BY <2>1, <2>3
<1>3. PICK T : T = {x \in SUBSET S : TakesOut(f, it, x)}
  OBVIOUS
<1>4. ASSUME NEW x \in SUBSET S, \A y \in x : x \ {y} \in T PROVE x \in T
  <2>1. \A y \in x : TakesOut(f, it, x \ {y})
    BY <1>3, <1>4
  <2>2. ASSUME NEW y \in x PROVE it[x] = f[y] + it[x \ {y}]
    <3>1. PICK p \in x : p = Pick(x)
      BY DEF Pick
    <3>2. it[x] = f[p] + it[x \ {p}]
      <4>1. SumAt(f, it, x)
        BY SumsValue
      <4>2. QED
        BY <3>1, <4>1 DEF SumAt
    <3>3. CASE y = p
      BY <3>2, <3>3
    <3>4. CASE y # p
      <4>1. PICK rest : rest = (x \ {p}) \ {y}
        OBVIOUS
      <4>2. rest = (x \ {y}) \ {p} /\ p \in x \ {y} /\ y \in x \ {p} /\ rest \in SUBSET S
        BY <3>4, <4>1
      <4>3. it[x \ {p}] = f[y] + it[rest]
        BY <2>1, <4>1, <4>2 DEF TakesOut
      <4>4. it[x \ {y}] = f[p] + it[rest]
        BY <2>1, <4>2 DEF TakesOut
      <4>5. it[rest] \in Int /\ f[y] \in Int /\ f[p] \in Int
        BY <1>2, <4>2
      <4>6. QED
        BY <3>2, <4>3, <4>4, <4>5
    <3>5. QED
      BY <3>3, <3>4
  <2>3. TakesOut(f, it, x)
    BY <2>2 DEF TakesOut
  <2>4. QED
    BY <1>3, <2>3
<1>5. \A x \in SUBSET S : x \in T
  BY <1>4, Subsets
<1>6. QED
  BY <1>1, <1>2, <1>3, <1>5

\* A sum of integers is an integer, the empty one zero.
LEMMA SumType ==
    ASSUME NEW f, Numeric(f)
    PROVE  SumFunction(f) \in Int /\ (DOMAIN f = {} => SumFunction(f) = 0)
<1>1. PICK it : Sums(f, DOMAIN f, it) /\ SumFunction(f) = it[DOMAIN f]
  BY SumsExist
<1>2. it[{}] = 0 /\ it[DOMAIN f] \in Int
  BY <1>1, SumsTakeOut DEF Numeric
<1>3. QED
  BY <1>1, <1>2

\* One more element adds its value.
Extends(g, f, x) ==
    /\ x \notin DOMAIN f /\ DOMAIN g = DOMAIN f \cup {x}
    /\ \A y \in DOMAIN f : g[y] = f[y]

\* One summand more.
LEMMA SumExtends ==
    ASSUME NEW f, Numeric(f), NEW g, Numeric(g), NEW x, Extends(g, f, x)
    PROVE  SumFunction(g) = SumFunction(f) + g[x]
<1>1. PICK S : S = DOMAIN f
  OBVIOUS
<1>2. PICK R : R = DOMAIN g
  OBVIOUS
<1>3. /\ IsFiniteSet(S) /\ f \in [S -> Int] /\ IsFiniteSet(R) /\ g \in [R -> Int]
      /\ x \notin S /\ R = S \cup {x} /\ \A y \in S : g[y] = f[y]
  BY <1>1, <1>2 DEF Numeric, Extends
<1>4. PICK a : Sums(f, S, a) /\ SumFunction(f) = a[S]
  BY <1>1, SumsExist
<1>5. PICK b : Sums(g, R, b) /\ SumFunction(g) = b[R]
  BY <1>2, SumsExist
<1>6. a[{}] = 0 /\ (\A z \in SUBSET S : a[z] \in Int) /\ (\A z \in SUBSET S : TakesOut(f, a, z))
  BY <1>3, <1>4, SumsTakeOut
<1>7. b[{}] = 0 /\ (\A z \in SUBSET R : b[z] \in Int) /\ (\A z \in SUBSET R : TakesOut(g, b, z))
  BY <1>3, <1>5, SumsTakeOut
<1>8. PICK T : T = {z \in SUBSET S : a[z] = b[z]}
  OBVIOUS
<1>9. ASSUME NEW z \in SUBSET S, \A y \in z : z \ {y} \in T PROVE z \in T
  <2>1. CASE z = {}
    BY <1>6, <1>7, <1>8, <2>1
  <2>2. CASE z # {}
    <3>1. PICK y \in z : TRUE
      BY <2>2
    <3>2. a[z] = f[y] + a[z \ {y}]
      BY <1>6, <3>1 DEF TakesOut
    <3>3. b[z] = g[y] + b[z \ {y}]
      <4>1. z \in SUBSET R
        BY <1>3
      <4>2. QED
        BY <1>7, <3>1, <4>1 DEF TakesOut
    <3>4. a[z \ {y}] = b[z \ {y}] /\ f[y] = g[y]
      BY <1>3, <1>8, <1>9, <3>1
    <3>5. QED
      BY <1>8, <3>2, <3>3, <3>4
  <2>3. QED
    BY <2>1, <2>2
<1>10. \A z \in SUBSET S : z \in T
  BY <1>3, <1>9, Subsets
<1>11. a[S] = b[S]
  BY <1>8, <1>10
<1>12. b[R] = g[x] + b[S]
  <2>1. R \in SUBSET R /\ x \in R /\ R \ {x} = S
    BY <1>3
  <2>2. QED
    BY <1>7, <2>1 DEF TakesOut
<1>13. g[x] \in Int /\ a[S] \in Int
  BY <1>3, <1>6
<1>14. QED
  BY <1>4, <1>5, <1>11, <1>12, <1>13

\* A new value in one place replaces the old one in the sum.
Changes(g, f, x) ==
    /\ DOMAIN g = DOMAIN f /\ x \in DOMAIN f
    /\ \A y \in DOMAIN f : y # x => g[y] = f[y]

\* One summand changed.
LEMMA SumChanges ==
    ASSUME NEW f, Numeric(f), NEW g, Numeric(g), NEW x, Changes(g, f, x)
    PROVE  SumFunction(g) = SumFunction(f) - f[x] + g[x]
<1>1. PICK h : h = [y \in DOMAIN f \ {x} |-> f[y]]
  OBVIOUS
<1>2. Numeric(h)
  <2>1. IsFiniteSet(DOMAIN f \ {x})
    BY FS_RemoveElement DEF Numeric
  <2>2. QED
    BY <1>1, <2>1 DEF Numeric
<1>3. Extends(f, h, x) /\ Extends(g, h, x)
  BY <1>1 DEF Extends, Changes
<1>4. SumFunction(f) = SumFunction(h) + f[x] /\ SumFunction(g) = SumFunction(h) + g[x]
  BY <1>2, <1>3, SumExtends
<1>5. SumFunction(h) \in Int /\ f[x] \in Int /\ g[x] \in Int
  <2>1. SumFunction(h) \in Int
    BY <1>2, SumType
  <2>2. QED
    BY <2>1 DEF Numeric, Changes
<1>6. QED
  BY <1>4, <1>5

-----------------------------------------------------------------------------
(* A fold over a sequence takes its elements one after the other.           *)

\* The largest element of an initial segment, as the folds choose it.
LEMMA MaxInside ==
    ASSUME NEW n \in Nat
    PROVE  /\ IsFiniteSet(1..n)
           /\ \A x \in SUBSET (1..n) : x # {} => Max(x) \in x
           /\ \A k \in 1..n : Max(1..k) = k /\ (1..k) \ {k} = 1..(k - 1)
<1>1. IsFiniteSet(1..n)
  BY FS_Interval
<1>2. PICK T : T = {x \in SUBSET (1..n) : x # {} => \E m \in x : \A y \in x : m >= y}
  OBVIOUS
<1>3. ASSUME NEW x \in SUBSET (1..n), \A y \in x : x \ {y} \in T PROVE x \in T
  <2>1. SUFFICES ASSUME x # {} PROVE \E m \in x : \A y \in x : m >= y
    BY <1>2
  <2>2. PICK y \in x : TRUE
    BY <2>1
  <2>3. \A z \in x : z \in Int
    OBVIOUS
  <2>4. CASE x \ {y} = {}
    BY <2>2, <2>3, <2>4
  <2>5. CASE x \ {y} # {}
    <3>1. PICK m \in x \ {y} : \A z \in x \ {y} : m >= z
      BY <1>2, <1>3, <2>2, <2>5
    <3>2. CASE m >= y
      BY <3>1, <3>2
    <3>3. CASE ~(m >= y)
      <4>1. \A z \in x : y >= z
        BY <2>3, <3>1, <3>3
      <4>2. QED
        BY <2>2, <4>1
    <3>4. QED
      BY <3>2, <3>3
  <2>6. QED
    BY <2>4, <2>5
<1>4. \A x \in SUBSET (1..n) : x \in T
  BY <1>1, <1>3, Subsets
<1>5. \A x \in SUBSET (1..n) : x # {} => Max(x) \in x
  BY <1>2, <1>4 DEF Max
<1>6. ASSUME NEW k \in 1..n PROVE Max(1..k) = k /\ (1..k) \ {k} = 1..(k - 1)
  <2>1. k \in 1..k /\ \A y \in 1..k : k >= y
    OBVIOUS
  <2>2. Max(1..k) \in 1..k /\ \A y \in 1..k : Max(1..k) >= y
    BY <2>1 DEF Max
  <2>3. Max(1..k) = k
    BY <2>1, <2>2
  <2>4. QED
    BY <2>3
<1>7. QED
  BY <1>1, <1>5, <1>6

\* The steps of a fold from base along 1..n, when G stays in V.
Folds(n, base, G, h) ==
    \A x \in SUBSET (1..n) : h[x] = IF x = {} THEN base ELSE G[<<h[x \ {Max(x)}], Max(x)>>]

\* A fold over 1..n runs through n intermediate values.
LEMMA FoldExists ==
    ASSUME NEW n \in Nat, NEW V, NEW base \in V, NEW G, \A v \in V, d \in 1..n : G[<<v, d>>] \in V
    PROVE  \E h \in [SUBSET (1..n) -> V] : Folds(n, base, G, h)
<1>1. PICK D : D = 1..n
  OBVIOUS
<1>2. PICK c : c = [x \in SUBSET D |-> Max(x)]
  OBVIOUS
<1>3. IsFiniteSet(D) /\ \A x \in SUBSET D : x # {} => c[x] \in x
  BY <1>1, <1>2, MaxInside
<1>4. PICK h : Solves(base, c, G, D, h)
  BY <1>3, SolutionExists
<1>5. h \in [SUBSET D -> V]
  BY <1>1, <1>3, <1>4, SolutionType
<1>6. ASSUME NEW x \in SUBSET D
      PROVE  h[x] = IF x = {} THEN base ELSE G[<<h[x \ {Max(x)}], Max(x)>>]
  <2>1. h[x] = IF x = {} THEN base ELSE G[<<h[x \ {c[x]}], c[x]>>]
    BY <1>4, SolutionValue
  <2>2. c[x] = Max(x)
    BY <1>2
  <2>3. QED
    BY <2>1, <2>2
<1>7. Folds(n, base, G, h)
  BY <1>1, <1>6 DEF Folds
<1>8. QED
  BY <1>1, <1>5, <1>7

-----------------------------------------------------------------------------
(* More about finite sets and sums.                                         *)

\* The image of a finite set is finite.
LEMMA FiniteImage ==
    ASSUME NEW S, IsFiniteSet(S), NEW f, NEW T, T \subseteq {f[x] : x \in S}
    PROVE  IsFiniteSet(T)
<1>1. PICK R : R = {f[x] : x \in S}
  OBVIOUS
<1>2. PICK g : g = [x \in S |-> f[x]]
  OBVIOUS
<1>3. g \in Surjection(S, R)
  BY <1>1, <1>2 DEF Surjection
<1>4. IsFiniteSet(R)
  BY <1>3, FS_Surjection
<1>5. T \in SUBSET R
  BY <1>1
<1>6. QED
  BY <1>4, <1>5, FS_Subset

\* A finite union of finite sets is finite.
LEMMA FiniteUnion ==
    ASSUME NEW S, IsFiniteSet(S), NEW f, \A x \in S : IsFiniteSet(f[x]),
           NEW T, \A y \in T : \E x \in S : y \in f[x]
    PROVE  IsFiniteSet(T)
<1>1. PICK R : R = {f[x] : x \in S}
  OBVIOUS
<1>2. IsFiniteSet(R)
  BY <1>1, FiniteImage
<1>3. \A y \in R : IsFiniteSet(y)
  BY <1>1
<1>4. PICK U : U = UNION R
  OBVIOUS
<1>5. IsFiniteSet(U)
  BY <1>2, <1>3, <1>4, FS_UNION
<1>6. T \in SUBSET U
  BY <1>1, <1>4
<1>7. QED
  BY <1>5, <1>6, FS_Subset

\* A sum of sums.
LEMMA SumAdds ==
    ASSUME NEW f, Numeric(f), NEW g, Numeric(g), NEW h, Numeric(h),
           DOMAIN g = DOMAIN f, DOMAIN h = DOMAIN f, \A x \in DOMAIN f : f[x] = g[x] + h[x]
    PROVE  SumFunction(f) = SumFunction(g) + SumFunction(h)
<1>1. PICK S : S = DOMAIN f
  OBVIOUS
<1>2. IsFiniteSet(S) /\ f \in [S -> Int] /\ g \in [S -> Int] /\ h \in [S -> Int]
  BY <1>1 DEF Numeric
<1>3. PICK a : Sums(f, S, a) /\ SumFunction(f) = a[S]
  BY <1>1, SumsExist
<1>4. PICK b : Sums(g, S, b) /\ SumFunction(g) = b[S]
  BY <1>1, SumsExist
<1>5. PICK c : Sums(h, S, c) /\ SumFunction(h) = c[S]
  BY <1>1, SumsExist
<1>6. a[{}] = 0 /\ (\A z \in SUBSET S : a[z] \in Int) /\ (\A z \in SUBSET S : TakesOut(f, a, z))
  BY <1>2, <1>3, SumsTakeOut
<1>7. b[{}] = 0 /\ (\A z \in SUBSET S : b[z] \in Int) /\ (\A z \in SUBSET S : TakesOut(g, b, z))
  BY <1>2, <1>4, SumsTakeOut
<1>8. c[{}] = 0 /\ (\A z \in SUBSET S : c[z] \in Int) /\ (\A z \in SUBSET S : TakesOut(h, c, z))
  BY <1>2, <1>5, SumsTakeOut
<1>9. PICK T : T = {z \in SUBSET S : a[z] = b[z] + c[z]}
  OBVIOUS
<1>10. ASSUME NEW z \in SUBSET S, \A y \in z : z \ {y} \in T PROVE z \in T
  <2>1. CASE z = {}
    BY <1>6, <1>7, <1>8, <1>9, <2>1
  <2>2. CASE z # {}
    <3>1. PICK y \in z : TRUE
      BY <2>2
    <3>2. PICK w : w = z \ {y}
      OBVIOUS
    <3>3. a[z] = f[y] + a[w]
      BY <1>6, <3>1, <3>2 DEF TakesOut
    <3>4. b[z] = g[y] + b[w]
      BY <1>7, <3>1, <3>2 DEF TakesOut
    <3>5. c[z] = h[y] + c[w]
      BY <1>8, <3>1, <3>2 DEF TakesOut
    <3>6. a[w] = b[w] + c[w] /\ f[y] = g[y] + h[y] /\ w \in SUBSET S
      BY <1>1, <1>9, <1>10, <3>1, <3>2
    <3>7. b[w] \in Int /\ c[w] \in Int /\ g[y] \in Int /\ h[y] \in Int
      BY <1>2, <1>7, <1>8, <3>6
    <3>8. QED
      BY <1>9, <3>3, <3>4, <3>5, <3>6, <3>7
  <2>3. QED
    BY <2>1, <2>2
<1>11. \A z \in SUBSET S : z \in T
  BY <1>2, <1>10, Subsets
<1>12. QED
  BY <1>3, <1>4, <1>5, <1>9, <1>11

\* The sizes of disjoint sets add up to the size of their union.
Covers(part, z, U) == U = UNION {part[x] : x \in z}

\* The sizes of disjoint parts add up to the size of their union.
LEMMA SumOfSizes ==
    ASSUME NEW S, IsFiniteSet(S), NEW part, \A x \in S : IsFiniteSet(part[x]),
           \A x, y \in S : x # y => part[x] \cap part[y] = {},
           NEW f, DOMAIN f = S, f = [x \in S |-> Cardinality(part[x])],
           NEW U, Covers(part, S, U)
    PROVE  Numeric(f) /\ IsFiniteSet(U) /\ SumFunction(f) = Cardinality(U)
<1>1. f \in [S -> Int] /\ \A x \in S : f[x] = Cardinality(part[x]) /\ f[x] \in Nat
  BY FS_CardinalityType
<1>2. Numeric(f)
  BY <1>1 DEF Numeric
<1>3. PICK a : Sums(f, S, a) /\ SumFunction(f) = a[S]
  BY <1>2, SumsExist
<1>4. a[{}] = 0 /\ (\A z \in SUBSET S : a[z] \in Int) /\ (\A z \in SUBSET S : TakesOut(f, a, z))
  BY <1>1, <1>3, SumsTakeOut
<1>5. PICK over : over = [z \in SUBSET S |-> UNION {part[x] : x \in z}]
  OBVIOUS
<1>6. PICK T : T = {z \in SUBSET S : IsFiniteSet(over[z]) /\ a[z] = Cardinality(over[z])}
  OBVIOUS
<1>7. ASSUME NEW z \in SUBSET S, \A y \in z : z \ {y} \in T PROVE z \in T
  <2>1. CASE z = {}
    <3>1. over[z] = {}
      BY <1>5, <2>1
    <3>2. QED
      BY <1>4, <1>6, <2>1, <3>1, FS_EmptySet
  <2>2. CASE z # {}
    <3>1. PICK y \in z : TRUE
      BY <2>2
    <3>2. PICK w \in SUBSET S : w = z \ {y}
      BY <3>1
    <3>3. PICK p : p = part[y]
      OBVIOUS
    <3>4. PICK u : u = over[w]
      OBVIOUS
    <3>5. IsFiniteSet(u) /\ a[w] = Cardinality(u) /\ IsFiniteSet(p) /\ f[y] = Cardinality(p)
      BY <1>1, <1>6, <1>7, <3>1, <3>2, <3>3, <3>4
    <3>6. over[z] = u \cup p
      BY <1>5, <3>1, <3>2, <3>3, <3>4
    <3>7. u \cap p = {}
      BY <1>5, <3>1, <3>2, <3>3, <3>4
    <3>8. IsFiniteSet(u \cup p) /\ Cardinality(u \cup p) = Cardinality(u) + Cardinality(p) - Cardinality(u \cap p)
      BY <3>5, FS_Union
    <3>9. Cardinality(u \cap p) = 0 /\ Cardinality(u) \in Nat /\ Cardinality(p) \in Nat
      BY <3>5, <3>7, FS_EmptySet, FS_CardinalityType
    <3>10. a[z] = f[y] + a[w]
      BY <1>4, <3>1, <3>2 DEF TakesOut
    <3>11. a[z] = Cardinality(over[z]) /\ IsFiniteSet(over[z])
      BY <3>5, <3>6, <3>8, <3>9, <3>10
    <3>12. QED
      BY <1>6, <3>11
  <2>3. QED
    BY <2>1, <2>2
<1>8. \A z \in SUBSET S : z \in T
  BY <1>7, Subsets
<1>9. U = over[S]
  BY <1>5 DEF Covers
<1>10. QED
  BY <1>2, <1>3, <1>6, <1>8, <1>9

\* The same values under other names, and zeros for the rest.
LEMMA SumMaps ==
    ASSUME NEW f, Numeric(f), NEW g, Numeric(g), NEW h \in [DOMAIN g -> DOMAIN f],
           \A x, y \in DOMAIN g : h[x] = h[y] => x = y,
           \A x \in DOMAIN g : g[x] = f[h[x]],
           \A s \in DOMAIN f : (\A x \in DOMAIN g : h[x] # s) => f[s] = 0
    PROVE  SumFunction(f) = SumFunction(g)
<1>1. PICK S : S = DOMAIN f
  OBVIOUS
<1>2. PICK R : R = DOMAIN g
  OBVIOUS
<1>3. /\ IsFiniteSet(S) /\ f \in [S -> Int] /\ IsFiniteSet(R) /\ g \in [R -> Int] /\ h \in [R -> S]
  BY <1>1, <1>2 DEF Numeric
<1>4. PICK a : Sums(f, S, a) /\ SumFunction(f) = a[S]
  BY <1>1, SumsExist
<1>5. PICK b : Sums(g, R, b) /\ SumFunction(g) = b[R]
  BY <1>2, SumsExist
<1>6. a[{}] = 0 /\ (\A z \in SUBSET S : a[z] \in Int) /\ (\A z \in SUBSET S : TakesOut(f, a, z))
  BY <1>3, <1>4, SumsTakeOut
<1>7. b[{}] = 0 /\ (\A z \in SUBSET R : b[z] \in Int) /\ (\A z \in SUBSET R : TakesOut(g, b, z))
  BY <1>3, <1>5, SumsTakeOut
<1>8. PICK pre : pre = [z \in SUBSET S |-> {x \in R : h[x] \in z}]
  OBVIOUS
<1>9. PICK T : T = {z \in SUBSET S : a[z] = b[pre[z]]}
  OBVIOUS
<1>10. ASSUME NEW z \in SUBSET S, \A y \in z : z \ {y} \in T PROVE z \in T
  <2>1. CASE z = {}
    <3>1. pre[z] = {}
      BY <1>8, <2>1
    <3>2. QED
      BY <1>6, <1>7, <1>9, <2>1, <3>1
  <2>2. CASE z # {}
    <3>1. PICK y \in z : TRUE
      BY <2>2
    <3>2. PICK w \in SUBSET S : w = z \ {y}
      BY <3>1
    <3>3. PICK u : u = pre[w]
      OBVIOUS
    <3>4. PICK v : v = pre[z]
      OBVIOUS
    <3>5. /\ u \in SUBSET R /\ v \in SUBSET R /\ a[w] = b[u]
          /\ a[z] = f[y] + a[w]
      <4>1. w \in T
        BY <1>10, <3>1, <3>2
      <4>2. a[w] = b[u]
        BY <1>9, <3>3, <4>1
      <4>3. a[z] = f[y] + a[w]
        BY <1>6, <3>1, <3>2 DEF TakesOut
      <4>4. u \in SUBSET R /\ v \in SUBSET R
        BY <1>8, <3>3, <3>4
      <4>5. QED
        BY <4>2, <4>3, <4>4
    <3>6. CASE \E x \in R : h[x] = y
      <4>1. PICK x \in R : h[x] = y
        BY <3>6
      <4>2. x \in v /\ v \ {x} = u
        BY <1>2, <1>8, <3>1, <3>2, <3>3, <3>4, <4>1
      <4>3. b[v] = g[x] + b[u] /\ g[x] = f[y]
        BY <1>2, <1>7, <3>5, <4>1, <4>2 DEF TakesOut
      <4>4. QED
        BY <1>9, <3>4, <3>5, <4>3
    <3>7. CASE \A x \in R : h[x] # y
      <4>1. v = u
        BY <1>8, <3>2, <3>3, <3>4, <3>7
      <4>2. f[y] = 0 /\ a[w] \in Int
        BY <1>1, <1>2, <1>6, <3>1, <3>7
      <4>3. a[z] = b[v]
        BY <3>5, <4>1, <4>2
      <4>4. QED
        BY <1>9, <3>4, <4>3
    <3>8. QED
      BY <3>6, <3>7
  <2>3. QED
    BY <2>1, <2>2
<1>11. \A z \in SUBSET S : z \in T
  BY <1>3, <1>10, Subsets
<1>12. pre[S] = R
  BY <1>3, <1>8
<1>13. QED
  BY <1>4, <1>5, <1>9, <1>11, <1>12

\* A sum of zeros.
LEMMA SumZero ==
    ASSUME NEW f, Numeric(f), \A x \in DOMAIN f : f[x] = 0
    PROVE  SumFunction(f) = 0
<1>1. PICK none : none = [x \in {} |-> 0]
  OBVIOUS
<1>2. DOMAIN none = {} /\ none \in [{} -> Int] /\ IsFiniteSet({})
  BY <1>1, FS_EmptySet
<1>3. Numeric(none)
  BY <1>2 DEF Numeric
<1>4. SumFunction(none) = 0
  BY <1>2, <1>3, SumType
<1>5. none \in [DOMAIN none -> DOMAIN f]
  BY <1>1, <1>2
<1>6. SumFunction(f) = SumFunction(none)
  BY <1>2, <1>3, <1>5, SumMaps
<1>7. QED
  BY <1>4, <1>6

\* A running total along a sequence of different elements is a sum over a set
\* that holds some of them.
Once(n, mk) == \A i, j \in 1..n : mk[i] = mk[j] => i = j
Runs(n, mk, v, E, u) ==
    /\ u \in [0..n -> Int] /\ u[0] = 0
    /\ \A j \in 1..n : u[j] = u[j - 1] + (IF mk[j] \in E THEN v[j] ELSE 0)
Spread(n, mk, v, E, D) ==
    /\ D \in [E -> Int]
    /\ \A j \in 1..n : mk[j] \in E => D[mk[j]] = v[j]
    /\ \A e \in E : (\A j \in 1..n : mk[j] # e) => D[e] = 0

\* A sum over a set is the last value of a run that meets each member once.
LEMMA SumAlong ==
    ASSUME NEW n \in Nat, NEW mk, Once(n, mk),
           NEW v \in [1..n -> Int], NEW E, IsFiniteSet(E), NEW u, Runs(n, mk, v, E, u),
           NEW D, Spread(n, mk, v, E, D)
    PROVE  Numeric(D) /\ SumFunction(D) = u[n]
<1>1. PICK part : part = [k \in 0..n |-> [e \in E |-> IF \E j \in 1..k : mk[j] = e THEN D[e] ELSE 0]]
  OBVIOUS
<1>2. ASSUME NEW k \in 0..n
      PROVE  /\ DOMAIN part[k] = E /\ Numeric(part[k])
             /\ \A e \in E : part[k][e] = IF \E j \in 1..k : mk[j] = e THEN D[e] ELSE 0
  <2>1. part[k] = [e \in E |-> IF \E j \in 1..k : mk[j] = e THEN D[e] ELSE 0]
    BY <1>1
  <2>2. \A e \in E : D[e] \in Int
    BY DEF Spread
  <2>3. DOMAIN part[k] = E /\ part[k] \in [E -> Int]
    BY <2>1, <2>2
  <2>4. QED
    BY <2>1, <2>3 DEF Numeric
<1>3. \A k \in 0..n : u[k] \in Int
  BY DEF Runs
<1>4. PICK T : T = {k \in Nat : k <= n => SumFunction(part[k]) = u[k]}
  OBVIOUS
<1>5. 0 \in T
  <2>1. 0 \in 0..n
    OBVIOUS
  <2>2. \A e \in E : part[0][e] = 0
    BY <1>2, <2>1
  <2>3. SumFunction(part[0]) = 0
    BY <1>2, <2>1, <2>2, SumZero
  <2>4. QED
    BY <1>4, <2>3 DEF Runs
<1>6. ASSUME NEW k \in Nat, k \in T PROVE k + 1 \in T
  <2>1. CASE k + 1 > n
    BY <1>4, <2>1
  <2>2. CASE k + 1 <= n
    <3>1. PICK f : f = part[k]
      OBVIOUS
    <3>2. PICK g : g = part[k + 1]
      OBVIOUS
    <3>3. k \in 0..n /\ k + 1 \in 0..n /\ k + 1 \in 1..n
      BY <2>2
    <3>4. DOMAIN f = E /\ Numeric(f) /\ \A e \in E : f[e] = IF \E j \in 1..k : mk[j] = e THEN D[e] ELSE 0
      BY <1>2, <3>1, <3>3
    <3>5. DOMAIN g = E /\ Numeric(g) /\ \A e \in E : g[e] = IF \E j \in 1..(k + 1) : mk[j] = e THEN D[e] ELSE 0
      BY <1>2, <3>2, <3>3
    <3>6. SumFunction(f) = u[k] /\ u[k] \in Int
      BY <1>3, <1>4, <1>6, <2>2, <3>1, <3>3
    <3>7. PICK m : m = mk[k + 1]
      OBVIOUS
    <3>8. u[k + 1] = u[k] + (IF m \in E THEN v[k + 1] ELSE 0)
      <4>1. (k + 1) - 1 = k
        OBVIOUS
      <4>2. QED
        BY <3>3, <3>7, <4>1 DEF Runs
    <3>9. ASSUME NEW e \in E, e # m PROVE g[e] = f[e]
      <4>1. (\E j \in 1..(k + 1) : mk[j] = e) <=> (\E j \in 1..k : mk[j] = e)
        <5>1. \A j \in 1..(k + 1) : j \in 1..k \/ j = k + 1
          OBVIOUS
        <5>2. \A j \in 1..k : j \in 1..(k + 1)
          OBVIOUS
        <5>3. QED
          BY <3>7, <3>9, <5>1, <5>2
      <4>2. QED
        BY <3>4, <3>5, <4>1
    <3>10. CASE m \in E
      <4>1. Changes(g, f, m)
        BY <3>4, <3>5, <3>9, <3>10 DEF Changes
      <4>2. f[m] = 0
        <5>1. \A j \in 1..k : mk[j] # m
          <6> SUFFICES ASSUME NEW j \in 1..k, mk[j] = m PROVE FALSE
            OBVIOUS
          <6>1. j \in 1..n /\ j # k + 1
            BY <3>3
          <6>2. QED
            BY <3>3, <3>7, <6>1 DEF Once
        <5>2. QED
          BY <3>4, <3>10, <5>1
      <4>3. g[m] = v[k + 1]
        BY <3>3, <3>5, <3>7, <3>10 DEF Spread
      <4>4. SumFunction(g) = SumFunction(f) - f[m] + g[m]
        BY <3>4, <3>5, <4>1, SumChanges
      <4>5. v[k + 1] \in Int
        BY <3>3
      <4>6. SumFunction(g) = u[k + 1]
        BY <3>6, <3>8, <3>10, <4>2, <4>3, <4>4, <4>5
      <4>7. QED
        BY <1>4, <3>2, <4>6
    <3>11. CASE m \notin E
      <4>1. g = f
        <5>1. \A e \in E : g[e] = f[e]
          BY <3>9, <3>11
        <5>2. f \in [E -> Int] /\ g \in [E -> Int]
          BY <3>4, <3>5 DEF Numeric
        <5>3. QED
          BY <5>1, <5>2
      <4>2. SumFunction(g) = u[k + 1]
        BY <3>6, <3>8, <3>11, <4>1
      <4>3. QED
        BY <1>4, <3>2, <4>2
    <3>12. QED
      BY <3>10, <3>11
  <2>3. QED
    BY <2>1, <2>2
<1>7. \A k \in Nat : k \in T
  BY <1>5, <1>6, Numbers
<1>8. n \in 0..n
  OBVIOUS
<1>9. SumFunction(part[n]) = u[n]
  BY <1>4, <1>7
<1>10. part[n] = D
  <2>1. \A e \in E : part[n][e] = D[e]
    BY <1>2, <1>8 DEF Spread
  <2>2. part[n] \in [E -> Int] /\ D \in [E -> Int]
    BY <1>2, <1>8 DEF Numeric, Spread
  <2>3. QED
    BY <2>1, <2>2
<1>11. QED
  BY <1>2, <1>8, <1>9, <1>10

\* A sum of amounts that are not negative is none.
LEMMA SumNotNegative ==
    ASSUME NEW f, Numeric(f), \A x \in DOMAIN f : f[x] >= 0
    PROVE  SumFunction(f) >= 0
<1>1. PICK S : S = DOMAIN f
  OBVIOUS
<1>2. IsFiniteSet(S) /\ f \in [S -> Int]
  BY <1>1 DEF Numeric
<1>3. PICK a : Sums(f, S, a) /\ SumFunction(f) = a[S]
  BY <1>1, SumsExist
<1>4. a[{}] = 0 /\ (\A z \in SUBSET S : a[z] \in Int) /\ (\A z \in SUBSET S : TakesOut(f, a, z))
  BY <1>2, <1>3, SumsTakeOut
<1>5. PICK T : T = {z \in SUBSET S : a[z] >= 0}
  OBVIOUS
<1>6. ASSUME NEW z \in SUBSET S, \A y \in z : z \ {y} \in T PROVE z \in T
  <2>1. CASE z = {}
    BY <1>4, <1>5, <2>1
  <2>2. CASE z # {}
    <3>1. PICK y \in z : TRUE
      BY <2>2
    <3>2. PICK w \in SUBSET S : w = z \ {y}
      BY <3>1
    <3>3. a[z] = f[y] + a[w]
      BY <1>4, <3>1, <3>2 DEF TakesOut
    <3>4. a[w] >= 0 /\ a[w] \in Int /\ f[y] \in Int /\ f[y] >= 0
      BY <1>1, <1>2, <1>4, <1>5, <1>6, <3>1, <3>2
    <3>5. QED
      BY <1>5, <3>3, <3>4
  <2>3. QED
    BY <2>1, <2>2
<1>7. \A z \in SUBSET S : z \in T
  BY <1>2, <1>6, Subsets
<1>8. QED
  BY <1>3, <1>5, <1>7

-----------------------------------------------------------------------------
(* Divisors.                                                                *)

Divides(d, n) == \E k \in Int : n = d * k
Common(a, b) == {d \in Nat \ {0} : Divides(d, a) /\ Divides(d, b)}

\* Division with remainder.
LEMMA Remainder ==
    ASSUME NEW a \in Nat \ {0}, NEW b \in Nat
    PROVE  b = a * (b \div a) + (b % a) /\ b % a \in 0..(a - 1) /\ b \div a \in Nat
OBVIOUS

\* What divides two numbers divides one plus any multiple of the other.
Combines(w, x, y, z) == w = x + y * z

\* A divisor of two numbers divides their combinations.
LEMMA DividesSum ==
    ASSUME NEW d \in Int, NEW x \in Int, NEW y \in Int, NEW z \in Int, Divides(d, x), Divides(d, y),
           NEW w, Combines(w, x, y, z)
    PROVE  Divides(d, w)
<1>1. PICK k \in Int : x = d * k
  BY DEF Divides
<1>2. PICK j \in Int : y = d * j
  BY DEF Divides
<1>3. PICK m \in Int : m = k + j * z
  OBVIOUS
<1>4. d * m = d * k + (d * j) * z
  BY <1>3
<1>5. w = d * m
  BY <1>1, <1>2, <1>4 DEF Combines
<1>6. QED
  BY <1>5 DEF Divides

\* A divisor is at most the number.
LEMMA DivisorIsSmaller ==
    ASSUME NEW d \in Nat, NEW n \in Nat \ {0}, Divides(d, n)
    PROVE  d # 0 /\ d <= n
<1>1. PICK k \in Int : n = d * k
  BY DEF Divides
<1>2. d # 0 /\ k > 0
  BY <1>1
<1>3. QED
  BY <1>1, <1>2

\* A step of Euclid's algorithm leaves the common divisors alone.
LEMMA SameDivisors ==
    ASSUME NEW a \in Nat \ {0}, NEW b \in Nat
    PROVE  Common(a, b) = Common(b % a, a)
<1>1. PICK q \in Nat : b = a * q + (b % a)
  BY Remainder
<1>2. PICK r \in Nat : r = b % a
  BY Remainder
<1>3. PICK n \in Int : n = -q
  OBVIOUS
<1>4. Combines(b, r, a, q) /\ Combines(r, b, a, n)
  BY <1>1, <1>2, <1>3 DEF Combines
<1>5. ASSUME NEW d \in Nat \ {0}, Divides(d, a) PROVE Divides(d, b) <=> Divides(d, r)
  <2>1. Divides(d, b) => Divides(d, r)
    BY <1>4, <1>5, DividesSum
  <2>2. Divides(d, r) => Divides(d, b)
    BY <1>4, <1>5, DividesSum
  <2>3. QED
    BY <2>1, <2>2
<1>6. QED
  BY <1>2, <1>5 DEF Common

\* The recursion has a solution, so Euclid satisfies its equation.
Greatest(S) == IF S = Nat \ {0} THEN 0 ELSE CHOOSE d \in S : \A c \in S : c <= d

\* The recursion of Euclid has a solution, so Euclid is one.
LEMMA EuclidIsDefined ==
    Euclid = [p \in Nat \X Nat |-> IF p[1] = 0 THEN p[2] ELSE Euclid[<<p[2] % p[1], p[1]>>]]
<1>1. PICK e : e = [p \in Nat \X Nat |-> Greatest(Common(p[1], p[2]))]
  OBVIOUS
<1>2. ASSUME NEW b \in Nat PROVE Greatest(Common(0, b)) = b
  <2>1. \A d \in Nat \ {0} : Divides(d, 0)
    BY DEF Divides
  <2>2. Common(0, b) = {d \in Nat \ {0} : Divides(d, b)}
    BY <2>1 DEF Common
  <2>3. CASE b = 0
    BY <2>1, <2>2, <2>3 DEF Greatest
  <2>4. CASE b # 0
    <3>1. b \in Common(0, b)
      <4>1. b = b * 1 /\ 1 \in Int
        OBVIOUS
      <4>2. Divides(b, b)
        BY <4>1, Zenon DEF Divides
      <4>3. QED
        BY <2>2, <2>4, <4>2
    <3>2. \A c \in Common(0, b) : c \in Nat /\ c <= b
      BY <2>2, <2>4, DivisorIsSmaller
    <3>3. Common(0, b) # Nat \ {0}
      <4>1. b + 1 \in Nat \ {0}
        OBVIOUS
      <4>2. QED
        BY <3>2, <4>1
    <3>4. ASSUME NEW d \in Common(0, b), \A c \in Common(0, b) : c <= d PROVE d = b
      BY <3>1, <3>2, <3>4
    <3>5. (CHOOSE d \in Common(0, b) : \A c \in Common(0, b) : c <= d) = b
      BY <3>1, <3>2, <3>4
    <3>6. QED
      BY <3>3, <3>5 DEF Greatest
  <2>5. QED
    BY <2>3, <2>4
<1>3. ASSUME NEW a \in Nat, NEW b \in Nat
      PROVE  Greatest(Common(a, b)) = IF a = 0 THEN b ELSE e[<<b % a, a>>]
  <2>1. CASE a = 0
    BY <1>2, <2>1
  <2>2. CASE a # 0
    <3>1. b % a \in Nat
      BY <2>2, Remainder
    <3>2. e[<<b % a, a>>] = Greatest(Common(b % a, a))
      BY <1>1, <3>1
    <3>3. QED
      BY <2>2, <3>2, SameDivisors
  <2>3. QED
    BY <2>1, <2>2
<1>4. e = [p \in Nat \X Nat |-> IF p[1] = 0 THEN p[2] ELSE e[<<p[2] % p[1], p[1]>>]]
  <2>1. ASSUME NEW p \in Nat \X Nat
        PROVE  Greatest(Common(p[1], p[2])) = IF p[1] = 0 THEN p[2] ELSE e[<<p[2] % p[1], p[1]>>]
    BY <1>3
  <2>2. QED
    BY <1>1, <2>1
<1>5. QED
  BY <1>4 DEF Euclid

\* One step of Euclid's algorithm.
LEMMA EuclidValue ==
    ASSUME NEW a \in Nat, NEW b \in Nat
    PROVE  Euclid[<<a, b>>] = IF a = 0 THEN b ELSE Euclid[<<b % a, a>>]
<1>1. PICK e : e = [p \in Nat \X Nat |-> IF p[1] = 0 THEN p[2] ELSE Euclid[<<p[2] % p[1], p[1]>>]]
  OBVIOUS
<1>2. Euclid = e
  BY <1>1, EuclidIsDefined
<1>3. e[<<a, b>>] = IF a = 0 THEN b ELSE Euclid[<<b % a, a>>]
  BY <1>1
<1>4. QED
  BY <1>2, <1>3

\* A common divisor that is a combination of the two numbers.
Combined(a, b, g) == \E x, y \in Int : g = a * x + b * y
IsGcd(a, b, g) ==
    /\ g \in Nat /\ Divides(g, a) /\ Divides(g, b)
    /\ a > 0 \/ b > 0 => g > 0
    /\ Combined(a, b, g)

\* Where the algorithm stops.
LEMMA EuclidBase ==
    ASSUME NEW b \in Nat
    PROVE  IsGcd(0, b, b)
<1>1. b * 0 = 0 /\ b * 1 = b /\ 0 * 0 + b * 1 = b
  OBVIOUS
<1>2. Divides(b, 0) /\ Divides(b, b)
  BY <1>1 DEF Divides
<1>3. Combined(0, b, b)
  BY <1>1 DEF Combined
<1>4. QED
  BY <1>2, <1>3 DEF IsGcd

\* The greatest common divisor after a step is the one before it.
LEMMA EuclidBack ==
    ASSUME NEW a \in Nat \ {0}, NEW b \in Nat, NEW g, IsGcd(b % a, a, g)
    PROVE  IsGcd(a, b, g)
<1>1. PICK q \in Nat : b = a * q + (b % a)
  BY Remainder
<1>2. PICK r \in Nat : r = b % a
  BY Remainder
<1>3. g \in Nat /\ Divides(g, r) /\ Divides(g, a) /\ g > 0 /\ Combined(r, a, g)
  BY <1>2 DEF IsGcd
<1>4. Combines(b, r, a, q)
  BY <1>1, <1>2 DEF Combines
<1>5. Divides(g, b)
  BY <1>3, <1>4, DividesSum
<1>6. PICK x \in Int, y \in Int : g = r * x + a * y
  BY <1>3 DEF Combined
<1>7. PICK z \in Int : z = y - q * x
  OBVIOUS
<1>8. a * z = a * y - (a * q) * x /\ b * x = (a * q) * x + r * x
  BY <1>1, <1>2, <1>7
<1>9. g = a * z + b * x
  BY <1>6, <1>8
<1>10. Combined(a, b, g)
  BY <1>9 DEF Combined
<1>11. QED
  BY <1>3, <1>5, <1>10 DEF IsGcd

\* Euclid's algorithm computes a greatest common divisor.
LEMMA EuclidIsGcd == \A a, b \in Nat : IsGcd(a, b, Euclid[<<a, b>>])
<1>1. PICK T : T = {n \in Nat : \A a \in 0..n, b \in Nat : IsGcd(a, b, Euclid[<<a, b>>])}
  OBVIOUS
<1>2. 0 \in T
  <2>1. ASSUME NEW b \in Nat PROVE IsGcd(0, b, Euclid[<<0, b>>])
    BY EuclidBase, EuclidValue
  <2>2. QED
    BY <1>1, <2>1
<1>3. ASSUME NEW n \in Nat, n \in T PROVE n + 1 \in T
  <2>1. ASSUME NEW a \in 0..(n + 1), NEW b \in Nat PROVE IsGcd(a, b, Euclid[<<a, b>>])
    <3>1. CASE a \in 0..n
      BY <1>1, <1>3, <3>1
    <3>2. CASE a \notin 0..n
      <4>1. a \in Nat \ {0} /\ a = n + 1
        BY <3>2
      <4>2. b % a \in 0..n
        BY <4>1, Remainder
      <4>3. IsGcd(b % a, a, Euclid[<<b % a, a>>])
        BY <1>1, <1>3, <4>1, <4>2
      <4>4. Euclid[<<a, b>>] = Euclid[<<b % a, a>>]
        BY <4>1, EuclidValue
      <4>5. QED
        BY <4>1, <4>3, <4>4, EuclidBack
    <3>3. QED
      BY <3>1, <3>2
  <2>2. QED
    BY <1>1, <2>1
<1>4. \A n \in Nat : n \in T
  BY <1>2, <1>3, Numbers
<1>5. ASSUME NEW a \in Nat, NEW b \in Nat PROVE IsGcd(a, b, Euclid[<<a, b>>])
  <2>1. a \in T /\ a \in 0..a
    BY <1>4
  <2>2. QED
    BY <1>1, <2>1
<1>6. QED
  BY Zenon, <1>5

-----------------------------------------------------------------------------
(* Exact quantities.                                                        *)

\* No remainder means divisible.
LEMMA ExactDivides ==
    ASSUME NEW n \in Nat
    PROVE  n % Factor = 0 <=> Divides(Factor, n)
<1>1. Factor \in Nat \ {0}
  BY AmountAssumption
<1>2. PICK q \in Nat, r \in 0..(Factor - 1) : n = Factor * q + r /\ r = n % Factor
  BY <1>1, Remainder
<1>3. ASSUME Divides(Factor, n) PROVE r = 0
  <2>1. PICK k \in Int : n = Factor * k
    BY <1>3 DEF Divides
  <2>2. Factor * (k - q) = r
    BY <1>1, <1>2, <2>1
  <2>3. k - q \in Int /\ ~(k - q >= 1) /\ ~(k - q <= -1)
    BY <1>1, <2>2
  <2>4. k - q = 0
    BY <2>3
  <2>5. QED
    BY <1>1, <2>2, <2>4
<1>4. ASSUME r = 0 PROVE Divides(Factor, n)
  <2>1. n = Factor * q /\ q \in Int
    BY <1>1, <1>2, <1>4
  <2>2. QED
    BY <2>1, Zenon DEF Divides
<1>5. QED
  BY <1>2, <1>3, <1>4

\* The step is the smallest quantity with an exact quote, and the exact
\* quantities are its multiples.
StepOf(price, s) ==
    /\ s \in Nat \ {0}
    /\ \A q \in Nat : (price * q) % Factor = 0 <=> Divides(s, q)

\* The step of a price divides exactly the quantities with an exact quote.
LEMMA StepIsExact ==
    ASSUME NEW price \in Nat \ {0}
    PROVE  StepOf(price, Step(price))
<1>1. Factor \in Nat \ {0}
  BY AmountAssumption
<1>2. PICK t \in Nat, a \in Nat : price = Factor * t + a /\ a = price % Factor
  <2>1. /\ price = Factor * (price \div Factor) + (price % Factor)
        /\ price \div Factor \in Nat /\ price % Factor \in Nat
    BY <1>1, Remainder
  <2>2. QED
    BY <2>1, Zenon
<1>3. PICK g : g = Euclid[<<a, Factor>>]
  OBVIOUS
<1>4. g \in Nat \ {0} /\ Divides(g, a) /\ Divides(g, Factor) /\ Combined(a, Factor, g)
  BY <1>1, <1>3, EuclidIsGcd DEF IsGcd
<1>5. PICK s \in Int : Factor = g * s
  BY <1>4 DEF Divides
<1>6. s \in Nat \ {0}
  BY <1>1, <1>4, <1>5
<1>7. Step(price) = s
  <2>1. Factor \div g = s
    BY <1>4, <1>5, <1>6
  <2>2. QED
    BY <1>2, <1>3, <2>1 DEF Step
<1>8. Divides(g, price)
  <2>1. Combines(price, a, Factor, t)
    BY <1>1, <1>2 DEF Combines
  <2>2. QED
    BY <1>1, <1>4, <2>1, DividesSum
<1>9. ASSUME NEW q \in Nat, Divides(s, q) PROVE Divides(Factor, price * q)
  <2>1. PICK k \in Int : q = s * k
    BY <1>9 DEF Divides
  <2>2. PICK j \in Int : price = g * j
    BY <1>8 DEF Divides
  <2>3. (g * j) * (s * k) = (g * s) * (j * k) /\ j * k \in Int
    BY <1>4, <1>6
  <2>4. price * q = Factor * (j * k)
    BY <1>5, <2>1, <2>2, <2>3
  <2>5. QED
    BY <2>3, <2>4 DEF Divides
<1>10. ASSUME NEW q \in Nat, Divides(Factor, price * q) PROVE Divides(s, q)
  <2>1. PICK m \in Int : price * q = Factor * m
    BY <1>10 DEF Divides
  <2>2. PICK x \in Int, y \in Int : g = a * x + Factor * y
    BY <1>4 DEF Combined
  <2>3. PICK z \in Int : z = y - t * x
    OBVIOUS
  <2>4. g = price * x + Factor * z
    <3>1. price = Factor * t + a
      BY <1>2
    <3>2. price * x = (Factor * t) * x + a * x
      BY <1>1, <3>1
    <3>3. Factor * z = Factor * y - (Factor * t) * x
      BY <1>1, <2>3
    <3>4. QED
      BY <1>1, <2>2, <3>2, <3>3
  <2>5. g * q = (price * q) * x + Factor * (z * q)
    BY <1>1, <1>4, <2>4
  <2>6. PICK w \in Int : w = m * x + z * q
    OBVIOUS
  <2>7. g * q = Factor * w
    BY <1>1, <2>1, <2>5, <2>6
  <2>8. g * (q - s * w) = 0
    BY <1>4, <1>5, <1>6, <2>7
  <2>9. q = s * w
    BY <1>4, <1>6, <2>8
  <2>10. QED
    BY <2>9 DEF Divides
<1>11. ASSUME NEW q \in Nat PROVE (price * q) % Factor = 0 <=> Divides(s, q)
  <2>1. price * q \in Nat
    OBVIOUS
  <2>2. QED
    BY <1>9, <1>10, <2>1, ExactDivides
<1>12. QED
  BY <1>6, <1>7, <1>11 DEF StepOf

\* An exact quote loses nothing.
LEMMA ExactQuote ==
    ASSUME NEW price \in Nat, NEW q \in Nat, (price * q) % Factor = 0
    PROVE  Quote(price, q) \in Nat /\ price * q = Factor * Quote(price, q)
<1>1. PICK n \in Nat : n = price * q
  OBVIOUS
<1>2. Factor \in Nat \ {0} /\ n % Factor = 0
  BY <1>1, AmountAssumption
<1>3. n = Factor * (n \div Factor) + 0 /\ n \div Factor \in Nat
  BY <1>2, Remainder
<1>4. QED
  BY <1>1, <1>2, <1>3 DEF Quote

\* What a budget buys from a maker.
Affordable(budget, price, remaining) ==
    {q \in 0..remaining : (price * q) % Factor = 0 /\ Quote(price, q) <= budget}
IsGreatest(S, r) == r \in S /\ \A q \in S : q <= r

\* quantity_for_budget returns the greatest affordable exact quantity.
LEMMA BudgetBuys ==
    ASSUME NEW budget \in Nat, NEW price \in Nat \ {0}, NEW remaining \in Nat
    PROVE  IsGreatest(Affordable(budget, price, remaining), QuantityForBudget(budget, price, remaining))
<1>1. Factor \in Nat \ {0}
  BY AmountAssumption
<1>2. PICK s \in Nat \ {0} : s = Step(price) /\ StepOf(price, s)
  BY StepIsExact DEF StepOf
<1>3. PICK funds \in Nat : funds = budget * Factor
  BY <1>1
<1>4. PICK whole \in Nat : whole = funds \div price
  OBVIOUS
<1>5. price * whole <= funds /\ funds < price * (whole + 1)
  BY <1>4
<1>6. PICK most \in Nat : most = Smaller(whole, remaining)
  BY DEF Smaller
<1>7. /\ most <= remaining /\ most <= whole
      /\ most = whole \/ most = remaining
  BY <1>6 DEF Smaller
<1>8. PICK n \in Nat : n = most \div s
  OBVIOUS
<1>9. s * n <= most /\ most < s * (n + 1)
  BY <1>8
<1>10. PICK r \in Nat : r = s * n
  OBVIOUS
<1>11. QuantityForBudget(budget, price, remaining) = r
  <2>1. QuantityForBudget(budget, price, remaining) = n * s
    BY <1>2, <1>3, <1>4, <1>6, <1>8 DEF QuantityForBudget
  <2>2. n * s = s * n
    OBVIOUS
  <2>3. QED
    BY <1>10, <2>1, <2>2
<1>12. r \in 0..remaining /\ (price * r) % Factor = 0
  <2>1. Divides(s, r)
    BY <1>10 DEF Divides
  <2>2. (price * r) % Factor = 0
    BY <1>2, <2>1 DEF StepOf
  <2>3. QED
    BY <1>7, <1>9, <1>10, <2>2
<1>13. Quote(price, r) <= budget
  <2>1. PICK k \in Nat : k = Quote(price, r) /\ price * r = Factor * k
    BY <1>12, ExactQuote
  <2>2. r <= whole
    BY <1>7, <1>9, <1>10
  <2>3. price * r <= price * whole
    BY <2>2
  <2>4. Factor * k <= Factor * budget
    BY <1>1, <1>3, <1>5, <2>1, <2>3
  <2>5. k <= budget
    BY <1>1, <2>4
  <2>6. QED
    BY <2>1, <2>5
<1>14. ASSUME NEW q \in 0..remaining, (price * q) % Factor = 0, Quote(price, q) <= budget
       PROVE  q <= r
  <2>1. PICK k \in Nat : k = Quote(price, q) /\ price * q = Factor * k
    BY <1>14, ExactQuote
  <2>2. Factor * k <= Factor * budget
    BY <1>1, <1>14, <2>1
  <2>3. price * q < price * (whole + 1)
    BY <1>1, <1>3, <1>5, <2>1, <2>2
  <2>4. q < whole + 1
    BY <2>3
  <2>5. q <= most
    BY <1>7, <2>4
  <2>6. PICK j \in Int : q = s * j
    BY <1>2, <1>14 DEF StepOf, Divides
  <2>7. s * j < s * (n + 1)
    BY <1>9, <2>5, <2>6
  <2>8. j < n + 1
    BY <2>7
  <2>9. j <= n
    BY <2>8
  <2>10. s * j <= s * n
    BY <2>9
  <2>11. QED
    BY <1>10, <2>6, <2>10
<1>15. QED
  BY <1>11, <1>12, <1>13, <1>14 DEF IsGreatest, Affordable
===============================================================================
