---------------------------- MODULE CommonProofs ----------------------------
(***************************************************************************)
(* Facts that the proofs about the components share: what a sum over a     *)
(* finite set of keys is worth, sequences without repetitions, and the     *)
(* lists that the links of an arena stand for.  An induction is the least  *)
(* counterexample: the set of the naturals, or of the finite sets, for     *)
(* which a fact fails has no minimal element.                              *)
(***************************************************************************)
EXTENDS Sums, Sequences, FiniteSetTheorems, WellFoundedInduction, TLAPS

\* How a leaf is tried: Zenon for a second, which is cheap, then the SMT solver
\* and Zenon in turn, and the SMT solver once more with more time.
USE ZenonT(1), SMT, Zenon, Z3T(20)

Less == {p \in Nat \X Nat : p[1] < p[2]}

\* The order of the naturals is well founded.
LEMMA LessWellFounded == IsWellFoundedOn(Less, Nat)
<1>1. Less = OpToRel(<, Nat)
  BY SMT DEF OpToRel, Less
<1> QED
  BY Zenon, <1>1, NatLessThanWellFounded

\* A non-empty set of naturals has a least element.
LEMMA LeastNatural ==
  ASSUME NEW X, X \subseteq Nat, X # {}
  PROVE  \E x \in X : \A y \in X : x <= y
<1>1. PICK x \in X : \A y \in X : ~ (<<y, x>> \in Less)
  BY Zenon, LessWellFounded, WFMin
<1>2. ASSUME NEW y \in X PROVE x <= y
  <2>1. <<y, x>> \notin Less /\ x \in Nat /\ y \in Nat
    BY Zenon, <1>1
  <2> QED
    BY SMT, <2>1 DEF Less
<1> QED
  BY <1>2

\* A non-empty set of naturals with an upper bound has a greatest element.
LEMMA GreatestNatural ==
  ASSUME NEW X, X \subseteq Nat, X # {}, NEW n \in Nat, \A y \in X : y <= n
  PROVE  \E x \in X : \A y \in X : y <= x
<1> DEFINE Upper == {m \in Nat : \A y \in X : y <= m}
<1>1. PICK u \in Upper : \A m \in Upper : u <= m
  <2>1. Upper \subseteq Nat /\ n \in Upper
    OBVIOUS
  <2> QED
    BY Zenon, <2>1, LeastNatural
<1>2. u \in X
  <2>1. SUFFICES ASSUME u \notin X PROVE FALSE
    OBVIOUS
  <2>2. \A y \in X : y \in Nat /\ y < u
    BY SMT, <1>1, <2>1
  <2>3. u - 1 \in Upper
    <3>1. PICK y \in X : TRUE
      OBVIOUS
    <3>2. u \in Nat /\ y \in Nat /\ y < u
      BY Zenon, <1>1, <2>2, <3>1
    <3> QED
      BY SMT, <2>2, <3>2
  <2>4. u <= u - 1 /\ u \in Nat
    BY Zenon, <1>1, <2>3
  <2> QED
    BY SMT, <2>4
<1> QED
  BY <1>1, <1>2

\* Induction over the naturals, for a set of them.
LEMMA SetInduction ==
  ASSUME NEW X, 0 \in X, \A n \in Nat : n \in X => n + 1 \in X
  PROVE  Nat \subseteq X
<1> DEFINE Bad == Nat \ X
<1>1. SUFFICES ASSUME Bad # {} PROVE FALSE
  OBVIOUS
<1>2. Bad \subseteq Nat
  OBVIOUS
<1>3. PICK m \in Bad : \A n \in Bad : m <= n
  BY Zenon, <1>1, <1>2, LeastNatural
<1>4. m \in Nat /\ m # 0 /\ m \notin X
  BY <1>3
<1>5. m - 1 \in Nat /\ m - 1 + 1 = m /\ ~ (m <= m - 1)
  BY SMT, <1>4
<1>6. m - 1 \in X
  BY <1>3, <1>5
<1>7. m \in X
  BY <1>5, <1>6
<1> QED
  BY <1>4, <1>7

\* One step of a recursion from base: what the equation of a recursive function
\* over 0..n makes of g.
Recursion(base, step, n, g) ==
  [m \in 0..n |-> IF m = 0 THEN base ELSE step[<<m, g[m - 1]>>]]

\* g is the function that the recursion defines, with values in V.
Solves(g, base, step, n, V) == g \in [0..n -> V] /\ g = Recursion(base, step, n, g)

\* The steps of the recursion stay in V.
StaysIn(step, V) == \A m \in Nat, v \in V : step[<<m, v>>] \in V

\* A recursion over 0..n has a solution.
LEMMA RecursionExists ==
  ASSUME NEW V, NEW base \in V, NEW step, StaysIn(step, V), NEW n \in Nat
  PROVE  \E g : Solves(g, base, step, n, V)
<1> DEFINE X == {k \in Nat : \E g : Solves(g, base, step, k, V)}
<1>1. 0 \in X
  <2> DEFINE g == [m \in 0..0 |-> base]
  <2>1. g \in [0..0 -> V] /\ g = Recursion(base, step, 0, g)
    BY SMT DEF Recursion
  <2> QED
    BY <2>1 DEF Solves
<1>2. ASSUME NEW k \in Nat, k \in X
      PROVE  k + 1 \in X
  <2>1. PICK g \in [0..k -> V] : g = Recursion(base, step, k, g)
    BY <1>2 DEF Solves
  <2> DEFINE h == [m \in 0..(k + 1) |-> IF m = k + 1 THEN step[<<k + 1, g[k]>>] ELSE g[m]]
  <2>2. h \in [0..(k + 1) -> V]
    <3>1. g[k] \in V /\ k + 1 \in Nat
      BY SMT
    <3>2. step[<<k + 1, g[k]>>] \in V
      BY <3>1 DEF StaysIn
    <3> QED
      BY SMT, <3>2
  <2>3. ASSUME NEW m \in 0..(k + 1)
        PROVE  h[m] = Recursion(base, step, k + 1, h)[m]
    <3>1. CASE m = k + 1
      <4>1. k \in 0..(k + 1) /\ k # k + 1 /\ m # 0 /\ m - 1 = k
        BY SMT, <3>1
      <4>2. h[k] = g[k] /\ h[m] = step[<<k + 1, g[k]>>]
        BY <3>1, <4>1
      <4>3. Recursion(base, step, k + 1, h)[m] = step[<<m, h[m - 1]>>]
        BY <4>1 DEF Recursion
      <4> HIDE DEF h
      <4> QED
        BY <3>1, <4>1, <4>2, <4>3
    <3>2. CASE m # k + 1
      <4>1. m \in 0..k /\ h[m] = g[m]
        BY SMT, <3>2
      <4>2. g[m] = IF m = 0 THEN base ELSE step[<<m, g[m - 1]>>]
        BY <2>1, <4>1 DEF Recursion
      <4>3. m # 0 => m - 1 \in 0..(k + 1) /\ m - 1 # k + 1
        BY SMT, <4>1
      <4>4. m # 0 => h[m - 1] = g[m - 1]
        BY <4>3
      <4>5. Recursion(base, step, k + 1, h)[m] = IF m = 0 THEN base ELSE step[<<m, h[m - 1]>>]
        BY DEF Recursion
      <4> HIDE DEF h
      <4> QED
        BY <4>1, <4>2, <4>4, <4>5
    <3> QED
      BY <3>1, <3>2
  <2>4. h = Recursion(base, step, k + 1, h)
    <3>1. DOMAIN h = 0..(k + 1) /\ h = [m \in 0..(k + 1) |-> h[m]]
      OBVIOUS
    <3> HIDE DEF h
    <3>2. [m \in 0..(k + 1) |-> h[m]] = Recursion(base, step, k + 1, h)
      BY <2>3 DEF Recursion
    <3> QED
      BY <3>1, <3>2
  <2> HIDE DEF h
  <2> QED
    BY SMT, <2>2, <2>4 DEF Solves
<1> HIDE DEF X
<1>3. Nat \subseteq X
  BY <1>1, <1>2, SetInduction
<1>4. n \in X
  BY <1>3
<1> QED
  BY <1>4 DEF X

\* A non-empty family of subsets of a finite set has a minimal member.
LEMMA MinimalSubset ==
  ASSUME NEW S, IsFiniteSet(S), NEW F \in SUBSET SUBSET S, F # {}
  PROVE  \E T \in F : \A U \in F : U \subseteq T => U = T
<1>1. FiniteSubsetsOf(S) = SUBSET S
  BY Zenon, FS_FiniteSubsetsOfFinite
<1>2. PICK T \in F : \A U \in F : ~ (<<U, T>> \in StrictSubsetOrdering(S))
  BY ZenonT(60), <1>1, FS_StrictSubsetOrderingWellFounded, WFMin
<1>3. ASSUME NEW U \in F, U \subseteq T PROVE U = T
  <2>1. <<U, T>> \notin StrictSubsetOrdering(S)
    BY Zenon, <1>2
  <2> QED
    BY <1>3, <2>1 DEF StrictSubsetOrdering
<1> QED
  BY Zenon, <1>3

\* A finite set of naturals has a greatest element.
LEMMA FiniteGreatest ==
  ASSUME NEW S, IsFiniteSet(S), S \subseteq Nat, S # {}
  PROVE  \E m \in S : \A n \in S : n <= m
<1> DEFINE Bad == {T \in SUBSET S : T # {} /\ ~ \E m \in T : \A n \in T : n <= m}
<1>1. SUFFICES ASSUME Bad # {} PROVE FALSE
  OBVIOUS
<1>2. PICK T \in Bad : \A U \in Bad : U \subseteq T => U = T
  <2>1. Bad \in SUBSET SUBSET S
    OBVIOUS
  <2> HIDE DEF Bad
  <2> QED
    BY ONLY IsFiniteSet(S), <1>1, <2>1, MinimalSubset
<1>3. T \in SUBSET S /\ T # {} /\ ~ \E m \in T : \A n \in T : n <= m
  OBVIOUS
<1>4. PICK x \in T : TRUE
  BY <1>3
<1>5. T \ {x} \in SUBSET S /\ T \ {x} \notin Bad
  BY <1>2, <1>3, <1>4
<1>6. T \ {x} # {}
  <2>1. SUFFICES ASSUME T \ {x} = {} PROVE FALSE
    OBVIOUS
  <2>2. x \in Nat /\ \A n \in T : n = x
    BY <1>3, <2>1
  <2> QED
    BY SMT, <1>3, <2>2
<1>7. PICK m \in T \ {x} : \A n \in T \ {x} : n <= m
  BY Zenon, <1>5, <1>6
<1>8. x \in Nat /\ m \in Nat
  BY <1>3, <1>7
<1>9. CASE x <= m
  <2>1. m \in T /\ \A n \in T : n <= m
    BY <1>7, <1>9
  <2> QED
    BY Zenon, <1>3, <2>1
<1>10. CASE m <= x
  <2>1. \A n \in T : n \in Nat
    BY <1>3
  <2>2. \A n \in T : n <= x
    BY SMT, <1>7, <1>8, <1>10, <2>1
  <2> QED
    BY Zenon, <1>3, <2>2
<1> QED
  BY SMT, <1>8, <1>9, <1>10

-----------------------------------------------------------------------------
\* The fold behind a sum takes one element at a time.
Pick(s) == CHOOSE x \in s : TRUE

Unfolded(f, S, g) ==
  [s \in SUBSET S |-> IF s = {} THEN 0 ELSE f[Pick(s)] + g[s \ {Pick(s)}]]

Totals(f, S) == CHOOSE g : g = Unfolded(f, S, g)

\* A sum is the last value of that fold.
LEMMA SumIsTotal ==
  ASSUME NEW f, NEW S
  PROVE  SumOver(f, S) = Totals(f, S)[S]
  BY DEF SumOver, MapThenSumSet, MapThenFoldSet, Totals, Unfolded, Pick

\* The element taken is an element.
LEMMA PickIn ==
  ASSUME NEW S, NEW s \in SUBSET S, s # {}
  PROVE  Pick(s) \in s /\ Pick(s) \in S /\ s \ {Pick(s)} \in SUBSET S
  BY DEF Pick

\* The equation of the fold has a solution: one that is right on the sets of
\* at most n elements exists for every n.
LEMMA TotalsExist ==
  ASSUME NEW S, IsFiniteSet(S), NEW f, \A x \in S : f[x] \in Int
  PROVE  \E g : g = Unfolded(f, S, g)
<1> DEFINE Right(g, n) == \A s \in SUBSET S : Cardinality(s) <= n =>
                             g[s] = Unfolded(f, S, g)[s]
           Bad == {n \in Nat : ~ \E g \in [SUBSET S -> Int] : Right(g, n)}
<1>0. \A s \in SUBSET S : IsFiniteSet(s) /\ Cardinality(s) \in Nat
                          /\ Cardinality(s) <= Cardinality(S)
  BY FS_Subset, FS_CardinalityType
<1>1. Bad = {}
  <2>1. SUFFICES ASSUME Bad # {} PROVE FALSE
    OBVIOUS
  <2>2. PICK m \in Bad : \A n \in Bad : m <= n
    <3>1. Bad \subseteq Nat
      OBVIOUS
    <3> HIDE DEF Bad
    <3> QED
      BY Zenon, <2>1, <3>1, LeastNatural
  <2>3. CASE m = 0
    <3> DEFINE g == [s \in SUBSET S |-> 0]
    <3>1. g \in [SUBSET S -> Int]
      BY SMT
    <3>2. ASSUME NEW s \in SUBSET S, Cardinality(s) <= 0
          PROVE  g[s] = Unfolded(f, S, g)[s]
      <4>1. s = {}
        BY SMT, <1>0, <3>2, FS_EmptySet
      <4> QED
        BY <4>1 DEF Unfolded
    <3>3. Right(g, m)
      BY <2>3, <3>2
    <3> QED
      BY Zenon, <2>2, <3>1, <3>3
  <2>4. CASE m # 0
    <3>1. m - 1 \in Nat /\ m - 1 \notin Bad /\ m \in Nat
      <4>1. m \in Nat
        OBVIOUS
      <4> HIDE DEF Bad
      <4> QED
        BY SMT, <2>2, <2>4, <4>1
    <3>2. PICK g \in [SUBSET S -> Int] : Right(g, m - 1)
      BY Zenon, <3>1
    <3> DEFINE h == [s \in SUBSET S |->
                       IF Cardinality(s) = m THEN f[Pick(s)] + g[s \ {Pick(s)}]
                                             ELSE g[s]]
    <3>3. \A s \in SUBSET S : s # {} =>
             /\ f[Pick(s)] \in Int
             /\ s \ {Pick(s)} \in SUBSET S
             /\ Cardinality(s \ {Pick(s)}) = Cardinality(s) - 1
      <4>1. SUFFICES ASSUME NEW s \in SUBSET S, s # {}
                     PROVE  /\ f[Pick(s)] \in Int
                            /\ s \ {Pick(s)} \in SUBSET S
                            /\ Cardinality(s \ {Pick(s)}) = Cardinality(s) - 1
        BY Zenon
      <4>2. Pick(s) \in s /\ Pick(s) \in S /\ s \ {Pick(s)} \in SUBSET S
        BY Zenon, <4>1, PickIn
      <4> QED
        BY ZenonT(60), <1>0, <4>2, FS_RemoveElement
    <3>4. \A s \in SUBSET S : Cardinality(s) = m => s # {}
      BY <2>4, FS_EmptySet
    <3>5. h \in [SUBSET S -> Int]
      BY SMT, <3>2, <3>3, <3>4
    <3>6. ASSUME NEW s \in SUBSET S, Cardinality(s) <= m
          PROVE  h[s] = Unfolded(f, S, h)[s]
      <4>1. CASE s = {}
        <5>1. h[s] = g[s]
          BY <3>4, <4>1
        <5>2. g[s] = Unfolded(f, S, g)[s]
          BY SMT, <3>1, <3>2, <4>1, FS_EmptySet
        <5> QED
          BY <4>1, <5>1, <5>2 DEF Unfolded
      <4>2. CASE s # {}
        <5> DEFINE r == s \ {Pick(s)}
        <5>1. r \in SUBSET S /\ Cardinality(r) = Cardinality(s) - 1
              /\ Cardinality(s) \in Nat
          BY Zenon, <1>0, <3>3, <4>2
        <5>2. h[r] = g[r]
          BY SMT, <3>1, <3>6, <5>1
        <5>3. Unfolded(f, S, h)[s] = f[Pick(s)] + g[r]
          BY <4>2, <5>2 DEF Unfolded
        <5>4. h[s] = f[Pick(s)] + g[r]
          <6>1. CASE Cardinality(s) = m
            BY <6>1
          <6>2. CASE Cardinality(s) # m
            <7>1. g[s] = Unfolded(f, S, g)[s]
              BY SMT, <3>1, <3>2, <3>6, <5>1, <6>2
            <7> QED
              BY <4>2, <6>2, <7>1 DEF Unfolded
          <6> QED
            BY <6>1, <6>2
        <5> QED
          BY <5>3, <5>4
      <4> QED
        BY <4>1, <4>2
    <3>7. Right(h, m)
      BY <3>6
    <3> HIDE DEF h
    <3> QED
      BY Zenon, <2>2, <3>5, <3>7
  <2> QED
    BY <2>3, <2>4
<1>2. PICK g \in [SUBSET S -> Int] : Right(g, Cardinality(S))
  BY <1>1, FS_CardinalityType
<1>3. \A s \in SUBSET S : g[s] = Unfolded(f, S, g)[s]
  BY <1>0, <1>2
<1>4. g = Unfolded(f, S, g)
  BY <1>3 DEF Unfolded
<1> QED
  BY Zenon, <1>4
\* The fold solves its equation.
LEMMA TotalsUnfold ==
  ASSUME NEW S, IsFiniteSet(S), NEW f, \A x \in S : f[x] \in Int
  PROVE  /\ Totals(f, S)[{}] = 0
         /\ \A s \in SUBSET S : s # {} =>
               Totals(f, S)[s] = f[Pick(s)] + Totals(f, S)[s \ {Pick(s)}]
<1>1. Totals(f, S) = Unfolded(f, S, Totals(f, S))
  BY Zenon, TotalsExist DEF Totals
<1> DEFINE g == Totals(f, S)
<1>2. g = Unfolded(f, S, g)
  BY <1>1
<1> HIDE DEF g
<1>3. /\ g[{}] = 0
      /\ \A s \in SUBSET S : s # {} => g[s] = f[Pick(s)] + g[s \ {Pick(s)}]
  BY <1>2 DEF Unfolded
<1> QED
  BY <1>3 DEF g

\* Its values are integers.
LEMMA TotalsType ==
  ASSUME NEW S, IsFiniteSet(S), NEW f, \A x \in S : f[x] \in Int
  PROVE  \A s \in SUBSET S : Totals(f, S)[s] \in Int
<1> DEFINE Bad == {s \in SUBSET S : Totals(f, S)[s] \notin Int}
<1>1. SUFFICES ASSUME Bad # {} PROVE FALSE
  OBVIOUS
<1>2. PICK s \in Bad : \A t \in Bad : t \subseteq s => t = s
  <2>1. Bad \in SUBSET SUBSET S
    OBVIOUS
  <2> HIDE DEF Bad
  <2> QED
    BY SMT, <1>1, <2>1, MinimalSubset
<1>3. s \in SUBSET S /\ s # {} /\ Totals(f, S)[s] \notin Int
  BY SMT, TotalsUnfold
<1>4. Pick(s) \in s /\ Pick(s) \in S /\ s \ {Pick(s)} \in SUBSET S
  BY Zenon, <1>3, PickIn
<1>5. s \ {Pick(s)} \notin Bad
  BY <1>2, <1>4
<1>6. Totals(f, S)[s] = f[Pick(s)] + Totals(f, S)[s \ {Pick(s)}]
  BY Zenon, <1>3, TotalsUnfold
<1>7. f[Pick(s)] \in Int /\ Totals(f, S)[s \ {Pick(s)}] \in Int
  BY Zenon, <1>4, <1>5
<1> QED
  BY SMT, <1>3, <1>6, <1>7

\* A total does not depend on the set it is taken in, nor on the values of
\* the function elsewhere.
LEMMA TotalsAgree ==
  ASSUME NEW S, IsFiniteSet(S), NEW f, \A x \in S : f[x] \in Int,
         NEW T, T \subseteq S, NEW g, \A x \in T : g[x] = f[x]
  PROVE  \A s \in SUBSET T : Totals(g, T)[s] = Totals(f, S)[s]
<1> DEFINE Bad == {s \in SUBSET T : Totals(g, T)[s] # Totals(f, S)[s]}
<1>0. IsFiniteSet(T) /\ (\A x \in T : g[x] \in Int) /\ SUBSET T \subseteq SUBSET S
  BY FS_Subset
<1>1. SUFFICES ASSUME Bad # {} PROVE FALSE
  OBVIOUS
<1>2. PICK s \in Bad : \A t \in Bad : t \subseteq s => t = s
  <2>1. Bad \in SUBSET SUBSET T
    OBVIOUS
  <2> HIDE DEF Bad
  <2> QED
    BY SMT, <1>0, <1>1, <2>1, MinimalSubset
<1>3. s \in SUBSET T /\ s \in SUBSET S /\ Totals(g, T)[s] # Totals(f, S)[s]
  BY Zenon, <1>0
<1>4. s # {}
  BY ZenonT(60), <1>0, <1>3, TotalsUnfold
<1>5. Pick(s) \in s /\ Pick(s) \in T /\ s \ {Pick(s)} \in SUBSET T
  BY Zenon, <1>3, <1>4, PickIn
<1>6. s \ {Pick(s)} \notin Bad
  BY <1>2, <1>5
<1>7. Totals(f, S)[s] = f[Pick(s)] + Totals(f, S)[s \ {Pick(s)}]
  BY ZenonT(60), <1>3, <1>4, TotalsUnfold
<1>8. Totals(g, T)[s] = g[Pick(s)] + Totals(g, T)[s \ {Pick(s)}]
  BY Zenon, <1>0, <1>3, <1>4, TotalsUnfold
<1>9. g[Pick(s)] = f[Pick(s)] /\ Totals(g, T)[s \ {Pick(s)}] = Totals(f, S)[s \ {Pick(s)}]
  BY Zenon, <1>5, <1>6
<1> QED
  BY Zenon, <1>3, <1>7, <1>8, <1>9

\* The order in which the elements are taken does not matter.
LEMMA TotalsRemove ==
  ASSUME NEW S, IsFiniteSet(S), NEW f, \A x \in S : f[x] \in Int
  PROVE  \A s \in SUBSET S : \A x \in s :
            Totals(f, S)[s] = f[x] + Totals(f, S)[s \ {x}]
<1> DEFINE T(s) == Totals(f, S)[s]
           Bad == {s \in SUBSET S : \E x \in s : T(s) # f[x] + T(s \ {x})}
<1>1. SUFFICES ASSUME Bad # {} PROVE FALSE
  OBVIOUS
<1>2. PICK s \in Bad : \A t \in Bad : t \subseteq s => t = s
  <2>1. Bad \in SUBSET SUBSET S
    OBVIOUS
  <2> HIDE DEF Bad
  <2> QED
    BY SMT, <1>1, <2>1, MinimalSubset
<1>3. PICK x \in s : T(s) # f[x] + T(s \ {x})
  OBVIOUS
<1> DEFINE y == Pick(s)
<1>4. s \in SUBSET S /\ y \in s
  BY PickIn
<1>5. T(s) = f[y] + T(s \ {y})
  BY Zenon, <1>4, TotalsUnfold
<1>6. x # y
  BY Zenon, <1>3, <1>5
<1> DEFINE r == (s \ {y}) \ {x}
<1> HIDE DEF y
<1>7. T(s \ {y}) = f[x] + T(r)
  <2>1. s \ {y} \in SUBSET S /\ s \ {y} # s /\ x \in s \ {y}
    BY <1>4, <1>6
  <2>2. s \ {y} \notin Bad
    BY <1>2, <2>1
  <2> QED
    BY Zenon, <2>1, <2>2
<1>8. T(s \ {x}) = f[y] + T(r)
  <2>1. s \ {x} \in SUBSET S /\ s \ {x} # s /\ y \in s \ {x} /\ (s \ {x}) \ {y} = r
    BY <1>4, <1>6
  <2>2. s \ {x} \notin Bad
    BY <1>2, <2>1
  <2> QED
    BY Zenon, <2>1, <2>2
<1>9. r \in SUBSET S /\ x \in S /\ y \in S
  BY <1>4
<1>10. T(r) \in Int /\ f[x] \in Int /\ f[y] \in Int
  BY Zenon, <1>9, TotalsType
<1> HIDE DEF T
<1> QED
  BY SMT, <1>3, <1>5, <1>7, <1>8, <1>10
-----------------------------------------------------------------------------
\* The empty sum is zero.
LEMMA SumEmpty ==
  ASSUME NEW f
  PROVE  SumOver(f, {}) = 0
<1>1. IsFiniteSet({}) /\ \A x \in {} : f[x] \in Int
  BY FS_EmptySet
<1>2. Totals(f, {})[{}] = 0
  BY Zenon, <1>1, TotalsUnfold
<1> QED
  BY Zenon, <1>2, SumIsTotal

\* A sum of integers is an integer.
LEMMA SumType ==
  ASSUME NEW S, IsFiniteSet(S), NEW f, \A x \in S : f[x] \in Int
  PROVE  SumOver(f, S) \in Int
  BY TotalsType, SumIsTotal

\* Only the values on the set count.
LEMMA SumSame ==
  ASSUME NEW S, IsFiniteSet(S), NEW f, \A x \in S : f[x] \in Int,
         NEW g, \A x \in S : g[x] = f[x]
  PROVE  SumOver(g, S) = SumOver(f, S)
<1>1. S \subseteq S /\ S \in SUBSET S
  OBVIOUS
<1>2. \A s \in SUBSET S : Totals(g, S)[s] = Totals(f, S)[s]
  BY SMT, <1>1, TotalsAgree
<1> QED
  BY Zenon, <1>1, <1>2, SumIsTotal

\* One key can be taken out of a sum.
LEMMA SumRemove ==
  ASSUME NEW S, IsFiniteSet(S), NEW f, \A x \in S : f[x] \in Int, NEW x \in S
  PROVE  SumOver(f, S) = f[x] + SumOver(f, S \ {x})
<1> DEFINE R == S \ {x}
<1>1. R \subseteq S /\ R \in SUBSET R /\ S \in SUBSET S
  OBVIOUS
<1>2. Totals(f, R)[R] = Totals(f, S)[R]
  <2>1. \A y \in R : f[y] = f[y]
    OBVIOUS
  <2> HIDE DEF R
  <2>2. \A s \in SUBSET R : Totals(f, R)[s] = Totals(f, S)[s]
    BY SMT, <1>1, <2>1, TotalsAgree
  <2> QED
    BY Zenon, <1>1, <2>2
<1>3. Totals(f, S)[S] = f[x] + Totals(f, S)[R]
  <2> HIDE DEF R
  <2>1. Totals(f, S)[S] = f[x] + Totals(f, S)[S \ {x}]
    BY SMT, <1>1, TotalsRemove
  <2> QED
    BY Zenon, <2>1 DEF R
<1>4. SumOver(f, S) = Totals(f, S)[S] /\ SumOver(f, R) = Totals(f, R)[R]
  BY Zenon, SumIsTotal
<1> QED
  BY Zenon, <1>2, <1>3, <1>4

\* One key can be added to a sum.
LEMMA SumAdd ==
  ASSUME NEW S, IsFiniteSet(S), NEW f, \A y \in S : f[y] \in Int,
         NEW x, x \notin S, f[x] \in Int
  PROVE  SumOver(f, S \cup {x}) = SumOver(f, S) + f[x]
<1> DEFINE T == S \cup {x}
<1>1. IsFiniteSet(T) /\ x \in T /\ T \ {x} = S /\ \A y \in T : f[y] \in Int
  BY FS_AddElement
<1>2. SumOver(f, T) = f[x] + SumOver(f, S)
  <2> HIDE DEF T
  <2>1. SumOver(f, T) = f[x] + SumOver(f, T \ {x})
    BY Zenon, <1>1, SumRemove
  <2> QED
    BY Zenon, <1>1, <2>1
<1>3. SumOver(f, S) \in Int
  BY Zenon, SumType
<1> QED
  BY SMT, <1>1, <1>2, <1>3

\* Changing the value of one key changes the sum by the difference.
LEMMA SumChange ==
  ASSUME NEW S, IsFiniteSet(S), NEW x \in S,
         NEW f, \A y \in S : f[y] \in Int,
         NEW g, \A y \in S : g[y] \in Int,
         \A y \in S \ {x} : g[y] = f[y]
  PROVE  SumOver(g, S) = SumOver(f, S) - f[x] + g[x]
<1> DEFINE R == S \ {x}
<1>1. IsFiniteSet(R) /\ \A y \in R : f[y] \in Int
  BY FS_RemoveElement
<1>2. SumOver(g, R) = SumOver(f, R)
  BY Zenon, <1>1, SumSame
<1>3. SumOver(f, R) \in Int
  BY Zenon, <1>1, SumType
<1>4. SumOver(f, S) = f[x] + SumOver(f, R) /\ SumOver(g, S) = g[x] + SumOver(g, R)
  BY Zenon, SumRemove
<1> HIDE DEF R
<1> QED
  BY SMT, <1>2, <1>3, <1>4

\* A sum of naturals is a natural.
LEMMA SumNatural ==
  ASSUME NEW S, IsFiniteSet(S), NEW f, \A x \in S : f[x] \in Nat
  PROVE  SumOver(f, S) \in Nat
<1> DEFINE Bad == {T \in SUBSET S : SumOver(f, T) \notin Nat}
<1>1. SUFFICES ASSUME Bad # {} PROVE FALSE
  OBVIOUS
<1>2. PICK T \in Bad : \A U \in Bad : U \subseteq T => U = T
  <2>1. Bad \in SUBSET SUBSET S
    OBVIOUS
  <2> HIDE DEF Bad
  <2> QED
    BY SMT, <1>1, <2>1, MinimalSubset
<1>3. T \in SUBSET S /\ SumOver(f, T) \notin Nat
  OBVIOUS
<1>4. T # {}
  BY SMT, <1>3, SumEmpty
<1>5. PICK x \in T : TRUE
  BY <1>4
<1>6. T \ {x} \in SUBSET S /\ T \ {x} \notin Bad
  BY <1>2, <1>3, <1>5
<1>7. SumOver(f, T \ {x}) \in Nat /\ f[x] \in Nat
  BY Zenon, <1>3, <1>5, <1>6
<1>8. IsFiniteSet(T) /\ \A y \in T : f[y] \in Int
  BY SMT, <1>3, FS_Subset
<1>9. SumOver(f, T) = f[x] + SumOver(f, T \ {x})
  BY Zenon, <1>8, SumRemove
<1> QED
  BY SMT, <1>3, <1>7, <1>9

\* The sum over two sets that share no key is the sum of the sums.
LEMMA SumDisjoint ==
  ASSUME NEW S, IsFiniteSet(S), NEW T, IsFiniteSet(T), S \cap T = {},
         NEW f, \A x \in S \cup T : f[x] \in Int
  PROVE  SumOver(f, S \cup T) = SumOver(f, S) + SumOver(f, T)
<1> DEFINE Bad == {U \in SUBSET T : SumOver(f, S \cup U) # SumOver(f, S) + SumOver(f, U)}
<1>1. SUFFICES ASSUME Bad # {} PROVE FALSE
  OBVIOUS
<1>2. PICK U \in Bad : \A V \in Bad : V \subseteq U => V = U
  <2>1. Bad \in SUBSET SUBSET T
    OBVIOUS
  <2> HIDE DEF Bad
  <2> QED
    BY SMT, <1>1, <2>1, MinimalSubset
<1>3. U \in SUBSET T /\ SumOver(f, S \cup U) # SumOver(f, S) + SumOver(f, U)
  OBVIOUS
<1>4. SumOver(f, S) \in Int
  BY SumType
<1>5. U # {}
  <2>1. S \cup {} = S
    OBVIOUS
  <2> QED
    BY <1>3, <1>4, <2>1, SumEmpty
<1>6. PICK x \in U : TRUE
  BY <1>5
<1> DEFINE V == U \ {x}
<1>7. V \in SUBSET T /\ V \notin Bad /\ x \in T /\ x \notin S
  BY <1>2, <1>3, <1>6
<1>8. SumOver(f, S \cup V) = SumOver(f, S) + SumOver(f, V)
  BY Zenon, <1>7
<1>9. IsFiniteSet(U) /\ IsFiniteSet(V) /\ IsFiniteSet(S \cup U)
  BY <1>3, <1>7, FS_Subset, FS_Union
<1>10. SumOver(f, U) = f[x] + SumOver(f, V)
  <2>1. \A y \in U : f[y] \in Int
    BY <1>3
  <2> QED
    BY Zenon, <1>6, <1>9, <2>1, SumRemove
<1>11. SumOver(f, S \cup U) = f[x] + SumOver(f, S \cup V)
  <2> DEFINE W == S \cup U
  <2>1. W \ {x} = S \cup V /\ x \in W /\ \A y \in W : f[y] \in Int
    BY <1>3, <1>6, <1>7
  <2>2. IsFiniteSet(W)
    BY Zenon, <1>9
  <2>3. SumOver(f, W) = f[x] + SumOver(f, W \ {x})
    <3> HIDE DEF W
    <3> QED
      BY Zenon, <2>1, <2>2, SumRemove
  <2> QED
    BY Zenon, <2>1, <2>3
<1>12. SumOver(f, V) \in Int /\ f[x] \in Int
  <2>1. \A y \in V : f[y] \in Int
    BY <1>3
  <2> QED
    BY Zenon, <1>7, <1>9, <2>1, SumType
<1> HIDE DEF V
<1> QED
  BY SMT, <1>3, <1>4, <1>8, <1>10, <1>11, <1>12
\* Sums over two sets count the keys they share twice.
LEMMA SumUnion ==
  ASSUME NEW S, IsFiniteSet(S), NEW T, IsFiniteSet(T),
         NEW f, \A x \in S \cup T : f[x] \in Int
  PROVE  SumOver(f, S \cup T) + SumOver(f, S \cap T) = SumOver(f, S) + SumOver(f, T)
<1> DEFINE R == T \ S
           M == S \cap T
<1>1. /\ IsFiniteSet(R) /\ IsFiniteSet(M)
      /\ S \cap R = {} /\ M \cap R = {}
      /\ S \cup R = S \cup T /\ M \cup R = T
      /\ \A x \in S \cup R : f[x] \in Int
      /\ \A x \in M \cup R : f[x] \in Int
      /\ (\A x \in S : f[x] \in Int) /\ (\A x \in R : f[x] \in Int) /\ (\A x \in M : f[x] \in Int)
  BY FS_Difference, FS_Intersection
<1> HIDE DEF R, M
<1>2. SumOver(f, S \cup R) = SumOver(f, S) + SumOver(f, R)
  BY ZenonT(60), <1>1, SumDisjoint
<1>3. SumOver(f, M \cup R) = SumOver(f, M) + SumOver(f, R)
  BY ZenonT(60), <1>1, SumDisjoint
<1>4. SumOver(f, S) \in Int /\ SumOver(f, R) \in Int /\ SumOver(f, M) \in Int
  BY Zenon, <1>1, SumType
<1>5. SumOver(f, S \cup T) = SumOver(f, S) + SumOver(f, R)
      /\ SumOver(f, T) = SumOver(f, M) + SumOver(f, R)
  BY Zenon, <1>1, <1>2, <1>3
<1> QED
  BY SMT, <1>4, <1>5 DEF M

\* A sum of naturals over more keys is not smaller.
LEMMA SumMonotone ==
  ASSUME NEW T, IsFiniteSet(T), NEW f, \A x \in T : f[x] \in Nat,
         NEW S, S \subseteq T
  PROVE  SumOver(f, S) <= SumOver(f, T)
<1> DEFINE R == T \ S
<1>1. /\ IsFiniteSet(S) /\ IsFiniteSet(R) /\ S \cap R = {} /\ S \cup R = T
      /\ (\A x \in S \cup R : f[x] \in Int) /\ (\A x \in S : f[x] \in Int) /\ \A x \in R : f[x] \in Nat
  BY SMT, FS_Subset, FS_Difference
<1> HIDE DEF R
<1>2. SumOver(f, S \cup R) = SumOver(f, S) + SumOver(f, R)
  BY Zenon, <1>1, SumDisjoint
<1>3. SumOver(f, S) \in Int /\ SumOver(f, R) \in Nat
  BY Zenon, <1>1, SumType, SumNatural
<1>4. SumOver(f, T) = SumOver(f, S) + SumOver(f, R)
  BY Zenon, <1>1, <1>2
<1> QED
  BY SMT, <1>3, <1>4

\* The sum of a constant.
LEMMA SumConstant ==
  ASSUME NEW S, IsFiniteSet(S), NEW c \in Int, NEW f, \A x \in S : f[x] = c
  PROVE  SumOver(f, S) = Cardinality(S) * c
<1> DEFINE Bad == {T \in SUBSET S : SumOver(f, T) # Cardinality(T) * c}
<1>1. SUFFICES ASSUME Bad # {} PROVE FALSE
  OBVIOUS
<1>2. PICK T \in Bad : \A U \in Bad : U \subseteq T => U = T
  <2>1. Bad \in SUBSET SUBSET S
    OBVIOUS
  <2> HIDE DEF Bad
  <2> QED
    BY ONLY IsFiniteSet(S), <1>1, <2>1, MinimalSubset
<1>3. T \in SUBSET S /\ SumOver(f, T) # Cardinality(T) * c
  OBVIOUS
<1>4. T # {}
  <2>1. SumOver(f, {}) = 0 /\ Cardinality({}) = 0
    BY SumEmpty, FS_EmptySet
  <2> QED
    BY SMT, <1>3, <2>1
<1>5. PICK x \in T : TRUE
  BY <1>4
<1>6. T \ {x} \in SUBSET S /\ T \ {x} \notin Bad
  BY <1>2, <1>3, <1>5
<1>7. SumOver(f, T \ {x}) = Cardinality(T \ {x}) * c /\ f[x] = c
  BY Zenon, <1>3, <1>5, <1>6
<1>8. IsFiniteSet(T) /\ \A y \in T : f[y] \in Int
  BY <1>3, FS_Subset
<1>9. SumOver(f, T) = f[x] + SumOver(f, T \ {x})
  BY Zenon, <1>8, SumRemove
<1>10. Cardinality(T) \in Nat /\ Cardinality(T \ {x}) = Cardinality(T) - 1
  BY <1>8, FS_RemoveElement, FS_CardinalityType
<1>11. \A n \in Nat : n * c = c + (n - 1) * c
  BY SMT
<1>12. Cardinality(T) * c = c + (Cardinality(T) - 1) * c
  BY <1>10, <1>11
<1> QED
  BY <1>3, <1>7, <1>9, <1>10, <1>12

\* A value of a sum of naturals is at most the sum.
LEMMA SumBounds ==
  ASSUME NEW S, IsFiniteSet(S), NEW f, \A x \in S : f[x] \in Nat, NEW x \in S
  PROVE  f[x] <= SumOver(f, S)
<1>1. (\A y \in S : f[y] \in Int) /\ f[x] \in Nat
  BY SMT
<1>2. SumOver(f, S) = f[x] + SumOver(f, S \ {x})
  BY Zenon, <1>1, SumRemove
<1>3. SumOver(f, S \ {x}) \in Nat
  <2>1. IsFiniteSet(S \ {x}) /\ \A y \in S \ {x} : f[y] \in Nat
    BY FS_RemoveElement
  <2> QED
    BY <2>1, SumNatural
<1> QED
  BY SMT, <1>1, <1>2, <1>3

-----------------------------------------------------------------------------
(* Sequences without repetitions, and the lists that links stand for.      *)

\* No element occurs twice.
Distinct(s) == \A i, j \in 1..Len(s) : s[i] = s[j] => i = j

\* The sequence without its i-th element.
TakeOut(s, i) == SubSeq(s, 1, i - 1) \o SubSeq(s, i + 1, Len(s))

\* Taking an element out of a sequence leaves the others, in place.
LEMMA RemoveAtKeeps ==
  ASSUME NEW S, NEW s \in Seq(S), NEW i \in 1..Len(s)
  PROVE  LET r == SubSeq(s, 1, i - 1) \o SubSeq(s, i + 1, Len(s))
         IN /\ r \in Seq(S) /\ Len(r) = Len(s) - 1
            /\ \A j \in 1..(Len(s) - 1) : r[j] = IF j < i THEN s[j] ELSE s[j + 1]
<1> DEFINE a == SubSeq(s, 1, i - 1)
           b == SubSeq(s, i + 1, Len(s))
<1>1. a \in Seq(S) /\ Len(a) = i - 1 /\ \A j \in 1..(i - 1) : a[j] = s[j]
  BY SMT
<1>2. b \in Seq(S) /\ Len(b) = Len(s) - i /\ \A j \in 1..(Len(s) - i) : b[j] = s[j + i]
  BY SMT
<1> HIDE DEF a, b
<1>4. a \o b \in Seq(S) /\ Len(a \o b) = Len(s) - 1
  <2>1. a \in Seq(S) /\ b \in Seq(S)
    BY <1>1, <1>2
  <2>2. a \o b \in Seq(S) /\ Len(a \o b) = Len(a) + Len(b)
    BY ONLY <2>1
  <2>3. Len(a \o b) = Len(s) - 1
    BY SMT, <1>1, <1>2, <2>2
  <2> QED
    BY <2>2, <2>3
<1>5. ASSUME NEW j \in 1..(Len(s) - 1)
      PROVE  (a \o b)[j] = IF j < i THEN s[j] ELSE s[j + 1]
  <2>1. CASE j < i
    BY SMT, <1>1, <1>2, <2>1
  <2>2. CASE ~ (j < i)
    <3>1. (a \o b)[j] = b[j - (i - 1)] /\ j - (i - 1) \in 1..(Len(s) - i)
      BY <1>1, <1>2, <2>2
    <3>2. b[j - (i - 1)] = s[j - (i - 1) + i]
      BY <1>2, <3>1
    <3> QED
      BY SMT, <2>2, <3>1, <3>2
  <2> QED
    BY <2>1, <2>2
<1> QED
  BY <1>4, <1>5 DEF a, b

\* Taking an element out of a sequence without repetitions: the others stay, in
\* place.
LEMMA TakeOutFacts ==
  ASSUME NEW S, NEW s \in Seq(S), Distinct(s), NEW i \in 1..Len(s)
  PROVE  /\ TakeOut(s, i) \in Seq(S) /\ Len(TakeOut(s, i)) = Len(s) - 1
         /\ \A j \in 1..(Len(s) - 1) :
              TakeOut(s, i)[j] = IF j < i THEN s[j] ELSE s[j + 1]
         /\ Distinct(TakeOut(s, i))
         /\ Range(TakeOut(s, i)) = Range(s) \ {s[i]}
<1> DEFINE r == TakeOut(s, i)
<1>1. /\ r \in Seq(S) /\ Len(r) = Len(s) - 1
      /\ \A j \in 1..(Len(s) - 1) : r[j] = IF j < i THEN s[j] ELSE s[j + 1]
  BY RemoveAtKeeps DEF TakeOut
<1> HIDE DEF r
<1>2. Distinct(r)
  <2> SUFFICES ASSUME NEW a \in 1..Len(r), NEW b \in 1..Len(r), r[a] = r[b] PROVE a = b
    BY Zenon DEF Distinct
  <2> DEFINE p == IF a < i THEN a ELSE a + 1
             q == IF b < i THEN b ELSE b + 1
  <2>1. a \in 1..(Len(s) - 1) /\ b \in 1..(Len(s) - 1)
    BY <1>1
  <2>2. p \in 1..Len(s) /\ q \in 1..Len(s)
    BY SMT, <2>1
  <2>3. s[p] = r[a] /\ s[q] = r[b]
    BY <1>1, <2>1
  <2> HIDE DEF p, q
  <2>4. p = q
    BY Zenon, <2>2, <2>3 DEF Distinct
  <2> QED
    BY SMT, <2>1, <2>4 DEF p, q
<1>3. Range(r) = {r[j] : j \in 1..Len(r)} /\ Range(s) = {s[j] : j \in 1..Len(s)}
  <2>1. DOMAIN r = 1..Len(r) /\ DOMAIN s = 1..Len(s)
    BY SMT, <1>1
  <2> QED
    BY Zenon, <2>1 DEF Range
<1>4. ASSUME NEW x \in Range(r) PROVE x \in Range(s) \ {s[i]}
  <2>1. PICK j \in 1..Len(r) : x = r[j]
    BY <1>3
  <2>2. PICK h \in 1..Len(s) : h # i /\ x = s[h]
    BY SMT, <1>1, <2>1
  <2> QED
    BY <1>3, <2>2 DEF Distinct
<1>5. ASSUME NEW x \in Range(s), x # s[i] PROVE x \in Range(r)
  <2>1. PICK h \in 1..Len(s) : x = s[h]
    BY <1>3
  <2>2. CASE h < i
    BY SMT, <1>1, <1>3, <2>1, <2>2
  <2>3. CASE h > i
    <3>1. h - 1 \in 1..(Len(s) - 1) /\ ~ (h - 1 < i) /\ h - 1 + 1 = h
      BY SMT, <2>3
    <3> QED
      BY <1>1, <1>3, <2>1, <3>1
  <2> QED
    BY SMT, <1>5, <2>1, <2>2, <2>3
<1> QED
  BY <1>1, <1>2, <1>4, <1>5 DEF r

\* Putting a new element in front.
LEMMA InFrontFacts ==
  ASSUME NEW S, NEW s \in Seq(S), Distinct(s), NEW x \in S, x \notin Range(s)
  PROVE  /\ <<x>> \o s \in Seq(S) /\ Len(<<x>> \o s) = Len(s) + 1
         /\ (<<x>> \o s)[1] = x /\ \A j \in 1..Len(s) : (<<x>> \o s)[j + 1] = s[j]
         /\ \A j \in 1..(Len(s) + 1) : j = 1 \/ (j - 1 \in 1..Len(s) /\ (<<x>> \o s)[j] = s[j - 1])
         /\ Distinct(<<x>> \o s)
         /\ Range(<<x>> \o s) = Range(s) \cup {x}
<1> DEFINE r == <<x>> \o s
<1>1. /\ r \in Seq(S) /\ Len(r) = Len(s) + 1 /\ r[1] = x
      /\ \A j \in 1..Len(s) : r[j + 1] = s[j]
  BY SMT
<1>2. \A j \in 1..Len(r) : j = 1 \/ (j - 1 \in 1..Len(s) /\ r[j] = s[j - 1])
  BY SMT, <1>1
<1> HIDE DEF r
<1>3. Distinct(r)
  <2> SUFFICES ASSUME NEW i \in 1..Len(r), NEW j \in 1..Len(r), r[i] = r[j] PROVE i = j
    BY DEF Distinct
  <2>1. CASE i = 1 \/ j = 1
    BY SMT, <1>1, <1>2, <2>1 DEF Range
  <2>2. CASE i # 1 /\ j # 1
    <3>1. s[i - 1] = s[j - 1] /\ i - 1 \in 1..Len(s) /\ j - 1 \in 1..Len(s)
      BY <1>2, <2>2
    <3>2. i - 1 = j - 1
      BY <3>1 DEF Distinct
    <3> QED
      BY SMT, <3>2
  <2> QED
    BY <2>1, <2>2
<1>4. Range(r) = Range(s) \cup {x}
  <2>0. DOMAIN r = 1..Len(r) /\ DOMAIN s = 1..Len(s)
    BY SMT, <1>1
  <2>1. ASSUME NEW y \in Range(r) PROVE y \in Range(s) \cup {x}
    <3>1. PICK j \in 1..Len(r) : y = r[j]
      BY Zenon, <2>0, <2>1 DEF Range
    <3>2. y = x \/ (j - 1 \in 1..Len(s) /\ y = s[j - 1])
      BY Zenon, <1>1, <1>2, <3>1
    <3> QED
      BY Zenon, <2>0, <3>2 DEF Range
  <2>2. ASSUME NEW y \in Range(s) PROVE y \in Range(r)
    <3>1. PICK j \in 1..Len(s) : y = s[j]
      BY SMT DEF Range
    <3>2. j + 1 \in 1..Len(r) /\ r[j + 1] = y
      BY SMT, <1>1, <3>1
    <3> QED
      BY Zenon, <2>0, <3>2 DEF Range
  <2>3. x \in Range(r)
    BY SMT, <1>1 DEF Range
  <2> QED
    BY <2>1, <2>2, <2>3
<1> QED
  BY <1>1, <1>2, <1>3, <1>4 DEF r

\* No slot: the links of an arena count its slots from one.
NoSlot == 0

\* The list that a head, a tail and the functions of the next and of the previous
\* slot stand for.
Chain(head, tail, nx, pv, s) ==
  /\ Len(s) = 0 => head = NoSlot /\ tail = NoSlot
  /\ Len(s) # 0 => /\ head = s[1] /\ pv[s[1]] = NoSlot
                   /\ tail = s[Len(s)] /\ nx[s[Len(s)]] = NoSlot
  /\ \A m \in 1..(Len(s) - 1) : nx[s[m]] = s[m + 1] /\ pv[s[m + 1]] = s[m]

\* The neighbours of i are joined: the links, and the ends of the list.
Bypassed(nx, pv, ux, uv, i, P) ==
  /\ \A j \in P : j # i => ux[j] = IF j = pv[i] THEN nx[i] ELSE nx[j]
  /\ \A j \in P : j # i => uv[j] = IF j # pv[i] /\ j = nx[i] THEN pv[i] ELSE pv[j]
BypassedEnd(a, b, end) == IF a = NoSlot THEN b ELSE end

\* Taking a slot out of a chain.
LEMMA ChainUnlink ==
  ASSUME NEW P, NoSlot \notin P, NEW s \in Seq(P), Distinct(s), NEW n \in 1..Len(s),
         NEW nx, NEW pv, NEW head, NEW tail, Chain(head, tail, nx, pv, s),
         NEW ux, NEW uv, Bypassed(nx, pv, ux, uv, s[n], P)
  PROVE  Chain(BypassedEnd(pv[s[n]], nx[s[n]], head), BypassedEnd(nx[s[n]], pv[s[n]], tail),
               ux, uv, TakeOut(s, n))
<1> DEFINE i == s[n]
           L == Len(s)
           r == TakeOut(s, n)
           h == BypassedEnd(pv[i], nx[i], head)
           t == BypassedEnd(nx[i], pv[i], tail)
<1>1. i \in P /\ L \in Nat /\ L # 0 /\ \A m \in 1..L : s[m] \in P /\ s[m] # NoSlot
  BY SMT
<1>2. /\ head = s[1] /\ pv[s[1]] = NoSlot /\ tail = s[L] /\ nx[s[L]] = NoSlot
      /\ \A m \in 1..(L - 1) : nx[s[m]] = s[m + 1] /\ pv[s[m + 1]] = s[m]
  BY <1>1 DEF Chain
<1>3. /\ n = 1 => pv[i] = NoSlot
      /\ n # 1 => n - 1 \in 1..L /\ pv[i] = s[n - 1] /\ pv[i] # NoSlot
      /\ n = L => nx[i] = NoSlot
      /\ n # L => n + 1 \in 1..L /\ nx[i] = s[n + 1] /\ nx[i] # NoSlot
  <2>1. n # 1 => n - 1 \in 1..L /\ n - 1 \in 1..(L - 1) /\ n - 1 + 1 = n
    BY SMT, <1>1
  <2>2. n # L => n + 1 \in 1..L /\ n \in 1..(L - 1)
    BY SMT, <1>1
  <2>3. n # 1 => pv[i] = s[n - 1]
    <3>1. n # 1 => pv[s[n - 1 + 1]] = s[n - 1]
      BY <1>2, <2>1
    <3> QED
      BY <2>1, <3>1
  <2>4. n # L => nx[i] = s[n + 1]
    BY <1>2, <2>2
  <2>5. (n = 1 => pv[i] = NoSlot) /\ (n = L => nx[i] = NoSlot)
    BY <1>2
  <2> QED
    BY <1>1, <2>1, <2>2, <2>3, <2>4, <2>5
<1>4. /\ r \in Seq(P) /\ Len(r) = L - 1
      /\ \A j \in 1..(L - 1) : r[j] = IF j < n THEN s[j] ELSE s[j + 1]
  BY TakeOutFacts
<1>5. \A a, b \in 1..L : s[a] = s[b] => a = b
  BY DEF Distinct
<1>6. ASSUME NEW m \in 1..L, m # n
      PROVE  /\ s[m] # i /\ (s[m] = pv[i] <=> m = n - 1) /\ (s[m] = nx[i] <=> m = n + 1)
             /\ ux[s[m]] = IF m = n - 1 THEN nx[i] ELSE nx[s[m]]
             /\ uv[s[m]] = IF m = n + 1 THEN pv[i] ELSE pv[s[m]]
  <2>1. s[m] # i /\ (s[m] = pv[i] <=> m = n - 1) /\ (s[m] = nx[i] <=> m = n + 1)
    BY <1>1, <1>3, <1>5, <1>6
  <2> QED
    BY SMT, <1>1, <2>1 DEF Bypassed
<1> HIDE DEF r, i
<1>0. /\ h = IF pv[i] = NoSlot THEN nx[i] ELSE head
      /\ t = IF nx[i] = NoSlot THEN pv[i] ELSE tail
  BY DEF BypassedEnd
<1> HIDE DEF h, t
<1>7. L = 1 => h = NoSlot /\ t = NoSlot
  BY SMT, <1>0, <1>3
<1>8. ASSUME L # 1 PROVE h = r[1] /\ uv[r[1]] = NoSlot
  <2>1. CASE n = 1
    <3>1. r[1] = s[2] /\ 2 \in 1..L /\ h = s[2]
      BY <1>0, <1>1, <1>3, <1>4, <1>8, <2>1
    <3> QED
      BY SMT, <1>3, <1>6, <2>1, <3>1
  <2>2. CASE n # 1
    <3>1. r[1] = s[1] /\ 1 \in 1..L /\ h = s[1]
      BY <1>0, <1>1, <1>2, <1>3, <1>4, <1>8, <2>2
    <3> QED
      BY SMT, <1>2, <1>3, <1>6, <2>2, <3>1
  <2> QED
    BY <2>1, <2>2
<1>9. ASSUME L # 1 PROVE t = r[L - 1] /\ ux[r[L - 1]] = NoSlot
  <2>1. CASE n = L
    <3>1. r[L - 1] = s[L - 1] /\ L - 1 \in 1..L /\ t = s[L - 1]
      BY SMT, <1>0, <1>1, <1>3, <1>4, <1>9, <2>1
    <3> QED
      BY SMT, <1>3, <1>6, <2>1, <3>1
  <2>2. CASE n # L
    <3>1. r[L - 1] = s[L] /\ L \in 1..L /\ t = s[L]
      BY <1>0, <1>1, <1>2, <1>3, <1>4, <1>9, <2>2
    <3> QED
      BY SMT, <1>2, <1>3, <1>6, <2>2, <3>1
  <2> QED
    BY <2>1, <2>2
<1>10. ASSUME NEW m \in 1..(L - 2) PROVE ux[r[m]] = r[m + 1] /\ uv[r[m + 1]] = r[m]
  <2>1. CASE m < n - 1
    <3>0. /\ m \in 1..(L - 1) /\ m + 1 \in 1..(L - 1) /\ m \in 1..L /\ m + 1 \in 1..L
          /\ m < n /\ m + 1 < n
      BY SMT, <1>1, <2>1
    <3>1. r[m] = s[m] /\ m \in 1..L /\ r[m + 1] = s[m + 1] /\ m + 1 \in 1..L /\ m \in 1..(L - 1)
      BY <1>4, <3>0
    <3> QED
      BY SMT, <1>2, <1>6, <2>1, <3>1
  <2>2. CASE m = n - 1
    <3>1. r[m] = s[m] /\ m \in 1..L /\ r[m + 1] = s[m + 2] /\ m + 2 \in 1..L /\ n # 1 /\ n # L
      BY SMT, <1>1, <1>4, <2>2
    <3> QED
      BY SMT, <1>3, <1>6, <2>2, <3>1
  <2>3. CASE m > n - 1
    <3>1. /\ r[m] = s[m + 1] /\ m + 1 \in 1..L /\ r[m + 1] = s[m + 2] /\ m + 2 \in 1..L
          /\ m + 1 \in 1..(L - 1)
      BY SMT, <1>1, <1>4, <2>3
    <3>2. nx[s[m + 1]] = s[m + 2] /\ pv[s[m + 2]] = s[m + 1]
      BY SMT, <1>2, <3>1
    <3>3. m + 1 # n /\ m + 2 # n /\ m + 1 # n - 1 /\ m + 2 # n + 1
      BY SMT, <1>1, <2>3
    <3> QED
      BY <1>6, <3>1, <3>2, <3>3
  <2> QED
    BY SMT, <1>1, <2>1, <2>2, <2>3
<1> QED
  BY SMT, <1>1, <1>4, <1>7, <1>8, <1>9, <1>10 DEF Chain, r, i, h, t

\* The slot i is in front of the old head: the links.
Fronted(nx, pv, ux, uv, i, head, P) ==
  /\ ux[i] = head /\ uv[i] = NoSlot
  /\ \A j \in P : j # i => ux[j] = nx[j]
  /\ \A j \in P : j # i => uv[j] = IF j = head THEN i ELSE pv[j]

\* Putting a slot in front of a chain.
LEMMA ChainPush ==
  ASSUME NEW P, NoSlot \notin P, NEW s \in Seq(P), Distinct(s), NEW i \in P, i \notin Range(s),
         NEW nx, NEW pv, NEW head, NEW tail, Chain(head, tail, nx, pv, s),
         NEW ux, NEW uv, Fronted(nx, pv, ux, uv, i, head, P)
  PROVE  Chain(i, BypassedEnd(tail, i, tail), ux, uv, <<i>> \o s)
<1> DEFINE L == Len(s)
           r == <<i>> \o s
           t == IF tail = NoSlot THEN i ELSE tail
<1>0. /\ ux[i] = head /\ uv[i] = NoSlot
      /\ \A j \in P : j # i => ux[j] = nx[j]
      /\ \A j \in P : j # i => uv[j] = IF j = head THEN i ELSE pv[j]
  BY Zenon DEF Fronted
<1>1. L \in Nat /\ i # NoSlot /\ \A m \in 1..L : s[m] \in P /\ s[m] # NoSlot /\ s[m] # i
  BY SMT DEF Range
<1>2. /\ L = 0 => head = NoSlot /\ tail = NoSlot
      /\ L # 0 => head = s[1] /\ pv[s[1]] = NoSlot /\ tail = s[L] /\ nx[s[L]] = NoSlot
      /\ \A m \in 1..(L - 1) : nx[s[m]] = s[m + 1] /\ pv[s[m + 1]] = s[m]
  BY DEF Chain
<1>3. /\ r \in Seq(P) /\ Len(r) = L + 1 /\ r[1] = i
      /\ \A j \in 1..L : r[j + 1] = s[j]
  BY SMT, InFrontFacts
<1>4. \A a, b \in 1..L : s[a] = s[b] => a = b
  BY DEF Distinct
<1>5. ASSUME NEW m \in 1..L
      PROVE ux[s[m]] = nx[s[m]] /\ uv[s[m]] = IF m = 1 THEN i ELSE pv[s[m]]
  <2>1. s[m] = head <=> m = 1
    BY SMT, <1>1, <1>2, <1>4
  <2> QED
    BY <1>0, <1>1, <2>1
<1> HIDE DEF r
<1>6. t = r[L + 1] /\ ux[r[L + 1]] = NoSlot
  <2>1. CASE L = 0
    BY SMT, <1>0, <1>2, <1>3, <2>1
  <2>2. CASE L # 0
    <3>1. L \in 1..L /\ r[L + 1] = s[L] /\ tail = s[L] /\ tail # NoSlot
      BY SMT, <1>1, <1>2, <1>3, <2>2
    <3> QED
      BY SMT, <1>2, <1>5, <2>2, <3>1
  <2> QED
    BY <2>1, <2>2
<1>7. ASSUME NEW m \in 1..L PROVE ux[r[m]] = r[m + 1] /\ uv[r[m + 1]] = r[m]
  <2>1. CASE m = 1
    BY SMT, <1>0, <1>1, <1>2, <1>3, <1>5, <2>1
  <2>2. CASE m # 1
    <3>0. m - 1 \in 1..L /\ m - 1 \in 1..(L - 1) /\ (m - 1) + 1 = m
      BY SMT, <1>1, <2>2
    <3>1. /\ m - 1 \in 1..L /\ m - 1 \in 1..(L - 1) /\ r[m] = s[m - 1] /\ r[m + 1] = s[m]
      BY Zenon, <1>3, <3>0
    <3>2. nx[s[m - 1]] = s[m] /\ pv[s[m]] = s[m - 1]
      BY SMT, <1>1, <1>2, <3>1
    <3> QED
      BY <1>5, <2>2, <3>1, <3>2
  <2> QED
    BY <2>1, <2>2
<1> HIDE DEF t
<1>8. Chain(i, t, ux, uv, r)
  BY SMT, <1>0, <1>1, <1>3, <1>6, <1>7 DEF Chain
<1> QED
  BY Zenon, <1>8 DEF BypassedEnd, t, r

\* Sequences with the same elements are the same.
LEMMA SameSequence ==
  ASSUME NEW S, NEW s \in Seq(S), NEW t \in Seq(S), Len(s) = Len(t),
         \A j \in 1..Len(s) : s[j] = t[j]
  PROVE  s = t
<1>1. s \in [1..Len(s) -> S] /\ t \in [1..Len(s) -> S]
  BY SMT
<1> QED
  BY SMT, <1>1

\* The list with its n-th slot moved to the front.
MovedUp(s, n) == <<s[n]>> \o TakeOut(s, n)

\* Moving a slot to the front keeps the slots of a list.
LEMMA MovedUpFacts ==
  ASSUME NEW S, NEW s \in Seq(S), Distinct(s), NEW n \in 1..Len(s)
  PROVE  /\ MovedUp(s, n) \in Seq(S) /\ Len(MovedUp(s, n)) = Len(s)
         /\ Distinct(MovedUp(s, n)) /\ Range(MovedUp(s, n)) = Range(s)
         /\ MovedUp(s, n)[1] = s[n]
         /\ \A j \in 1..(Len(s) - 1) : MovedUp(s, n)[j + 1] = TakeOut(s, n)[j]
         /\ n = 1 => MovedUp(s, n) = s
<1> DEFINE r == TakeOut(s, n)
           t == MovedUp(s, n)
<1>1. /\ r \in Seq(S) /\ Len(r) = Len(s) - 1 /\ Distinct(r) /\ Range(r) = Range(s) \ {s[n]}
      /\ \A j \in 1..(Len(s) - 1) : r[j] = IF j < n THEN s[j] ELSE s[j + 1]
  BY SMT, TakeOutFacts
<1>2. s[n] \in S /\ s[n] \notin Range(r) /\ s[n] \in Range(s) /\ Len(s) \in Nat
  <2>1. s[n] \in S /\ Len(s) \in Nat /\ n \in DOMAIN s
    BY SMT
  <2>2. s[n] \in Range(s)
    BY Zenon, <2>1 DEF Range
  <2> QED
    BY <1>1, <2>1, <2>2
<1> HIDE DEF r
<1>3. /\ t \in Seq(S) /\ Len(t) = Len(r) + 1 /\ t[1] = s[n]
      /\ \A j \in 1..Len(r) : t[j + 1] = r[j]
      /\ Distinct(t) /\ Range(t) = Range(r) \cup {s[n]}
  BY SMT, <1>1, <1>2, InFrontFacts DEF MovedUp, r
<1>4. Len(t) = Len(s) /\ Range(t) = Range(s)
  BY SMT, <1>1, <1>2, <1>3
<1> HIDE DEF t
<1>5. ASSUME n = 1 PROVE t = s
  <2>1. ASSUME NEW j \in 1..Len(s) PROVE t[j] = s[j]
    <3>1. CASE j = 1
      BY <1>3, <1>5, <3>1
    <3>2. CASE j # 1
      <4>1. j - 1 \in 1..Len(r) /\ j - 1 \in 1..(Len(s) - 1) /\ j - 1 + 1 = j /\ ~ (j - 1 < n)
        BY SMT, <1>1, <1>2, <1>5, <3>2
      <4>2. t[j - 1 + 1] = r[j - 1] /\ r[j - 1] = s[j - 1 + 1]
        BY <1>1, <1>3, <4>1
      <4> QED
        BY <4>1, <4>2
    <3> QED
      BY <3>1, <3>2
  <2> QED
    BY <1>3, <1>4, <2>1, SameSequence
<1> QED
  BY <1>1, <1>3, <1>4, <1>5 DEF t, r

\* A sequence over a set is one over a larger set.
LEMMA SeqMono ==
  ASSUME NEW P, NEW Q, P \subseteq Q, NEW s \in Seq(P)
  PROVE  s \in Seq(Q)
<1>1. s \in [1..Len(s) -> Q] /\ Len(s) \in Nat
  BY SMT
<1> QED
  BY SMT, <1>1

\* A sequence is one over its elements.
LEMMA SeqOfRange ==
  ASSUME NEW P, NEW s \in Seq(P)
  PROVE  s \in Seq(Range(s)) /\ Range(s) \subseteq P
<1>1. Len(s) \in Nat /\ DOMAIN s = 1..Len(s) /\ s = [j \in 1..Len(s) |-> s[j]]
  BY SMT
<1>2. \A j \in 1..Len(s) : s[j] \in Range(s)
  BY Zenon, <1>1 DEF Range
<1>3. s \in [1..Len(s) -> Range(s)]
  BY <1>1, <1>2
<1>4. s \in Seq(Range(s))
  BY SMT, <1>1, <1>3
<1>5. Range(s) \subseteq P
  BY SMT DEF Range
<1> QED
  BY <1>4, <1>5

\* f is q with the element x more.
OneMore(f, q, x, S) == f \in Seq(S) /\ Distinct(f) /\ Range(f) = Range(q) \cup {x}

\* Appending an element that is not there yet.
LEMMA AppendFresh ==
  ASSUME NEW S, NEW q \in Seq(S), NEW x \in S, Distinct(q), x \notin Range(q)
  PROVE  OneMore(Append(q, x), q, x, S)
<1> DEFINE L == Len(q)
           f == Append(q, x)
<1>1. /\ L \in Nat /\ f \in Seq(S) /\ Len(f) = L + 1 /\ f[L + 1] = x
      /\ \A j \in 1..L : f[j] = q[j]
  BY SMT
<1>2. DOMAIN f = 1..Len(f) /\ DOMAIN q = 1..L
  BY SMT, <1>1
<1>3. Range(q) = {q[j] : j \in 1..L} /\ Range(f) = {f[j] : j \in 1..Len(f)}
  BY Zenon, <1>2 DEF Range
<1> HIDE DEF f, L
<1>4. ASSUME NEW j \in 1..Len(f)
      PROVE  j = L + 1 \/ (j \in 1..L /\ f[j] \in Range(q))
  <2>1. j = L + 1 \/ j \in 1..L
    BY SMT, <1>1
  <2> QED
    BY Zenon, <1>1, <1>3, <2>1
<1>5. Distinct(f)
  <2> SUFFICES ASSUME NEW a \in 1..Len(f), NEW b \in 1..Len(f), f[a] = f[b] PROVE a = b
    BY Zenon DEF Distinct
  <2>1. CASE a \in 1..L /\ b \in 1..L
    <3>1. q[a] = q[b]
      BY Zenon, <1>1, <2>1
    <3> QED
      BY <2>1, <3>1 DEF Distinct, L
  <2> QED
    BY Zenon, <1>1, <1>4, <2>1
<1>6. Range(f) = Range(q) \cup {x}
  <2>1. ASSUME NEW y \in Range(f) PROVE y \in Range(q) \cup {x}
    BY Zenon, <1>1, <1>3, <1>4
  <2>2. L + 1 \in 1..Len(f) /\ \A j \in 1..L : j \in 1..Len(f)
    BY SMT, <1>1
  <2>3. ASSUME NEW y \in Range(q) PROVE y \in Range(f)
    BY Zenon, <1>1, <1>3, <2>2
  <2>4. x \in Range(f)
    BY Zenon, <1>1, <1>3, <2>2
  <2> QED
    BY Zenon, <2>1, <2>3, <2>4
<1> QED
  BY Zenon, <1>1, <1>5, <1>6 DEF f, OneMore

\* Dropping the last element of a sequence without repetitions.
LEMMA DropLast ==
  ASSUME NEW S, NEW q \in Seq(S), Distinct(q), q # <<>>
  PROVE  /\ q[Len(q)] \in S /\ q[Len(q)] \in Range(q)
         /\ SubSeq(q, 1, Len(q) - 1) \in Seq(S) /\ Distinct(SubSeq(q, 1, Len(q) - 1))
         /\ Range(SubSeq(q, 1, Len(q) - 1)) = Range(q) \ {q[Len(q)]}
<1> DEFINE F == Len(q)
           i == q[F]
           f == SubSeq(q, 1, F - 1)
<1>1. F \in Nat /\ F # 0 /\ F \in 1..F /\ i \in S /\ DOMAIN q = 1..F
  BY SMT
<1>2. f \in Seq(S) /\ Len(f) = F - 1 /\ \A j \in 1..(F - 1) : f[j] = q[j]
  BY SMT, <1>1
<1>3. DOMAIN f = 1..(F - 1)
  BY SMT, <1>1, <1>2
<1>4. Range(q) = {q[j] : j \in 1..F} /\ Range(f) = {f[j] : j \in 1..(F - 1)}
  BY Zenon, <1>1, <1>3 DEF Range
<1>5. \A a, b \in 1..F : q[a] = q[b] => a = b
  BY Zenon DEF Distinct
<1> HIDE DEF f, F
<1>6. \A j \in 1..(F - 1) : j \in 1..F /\ j # F
  BY SMT, <1>1
<1>7. Distinct(f)
  <2> SUFFICES ASSUME NEW a \in 1..(F - 1), NEW b \in 1..(F - 1), f[a] = f[b] PROVE a = b
    BY Zenon, <1>2 DEF Distinct
  <2> QED
    BY Zenon, <1>2, <1>5, <1>6
<1>8. ASSUME NEW y \in Range(f) PROVE y \in Range(q) \ {i}
  <2>1. PICK j \in 1..(F - 1) : y = f[j]
    BY Zenon, <1>4
  <2>2. y = q[j] /\ y # i
    BY Zenon, <1>1, <1>2, <1>5, <1>6, <2>1
  <2> QED
    BY Zenon, <1>4, <1>6, <2>2
<1>9. ASSUME NEW y \in Range(q), y # i PROVE y \in Range(f)
  <2>1. PICK j \in 1..F : y = q[j]
    BY Zenon, <1>4
  <2>2. j # F
    BY Zenon, <1>9, <2>1
  <2>3. j \in 1..(F - 1)
    BY SMT, <1>1, <2>2
  <2> QED
    BY Zenon, <1>2, <1>4, <2>1, <2>3
<1>10. Range(f) = Range(q) \ {i}
  BY Zenon, <1>8, <1>9
<1>11. i \in Range(q)
  BY Zenon, <1>1, <1>4
<1> QED
  BY Zenon, <1>1, <1>2, <1>7, <1>10, <1>11 DEF f, F

\* A sequence without repetitions is as long as it has elements.
LEMMA DistinctLength ==
  ASSUME NEW S, NEW s \in Seq(S), Distinct(s)
  PROVE  Cardinality(Range(s)) = Len(s)
<1>1. s \in Bijection(1..Len(s), Range(s))
  BY SMT DEF Bijection, Injection, Surjection, IsInjective, Distinct, Range
<1>2. ExistsBijection(1..Len(s), Range(s))
  BY Zenon, <1>1 DEF ExistsBijection
<1>3. Len(s) \in Nat
  BY SMT
<1>4. IsFiniteSet(1..Len(s)) /\ Cardinality(1..Len(s)) = Len(s)
  <2>1. ASSUME NEW n \in Nat PROVE IsFiniteSet(1..n) /\ Cardinality(1..n) = n
    BY SMT, FS_Interval
  <2> QED
    BY Zenon, <1>3, <2>1
<1> QED
  BY Zenon, <1>2, <1>4, FS_Bijection

\* The links determine the list.
LEMMA ChainUnique ==
  ASSUME NEW P, NoSlot \notin P, NEW s \in Seq(P), NEW t \in Seq(P),
         NEW head, NEW tail, NEW nx, NEW pv, Chain(head, tail, nx, pv, s), Chain(head, tail, nx, pv, t)
  PROVE  Len(s) <= Len(t) /\ \A j \in 1..Len(s) : s[j] = t[j]
<1> DEFINE L == Len(s)
           K == Len(t)
           Bad == {j \in Nat : j # 0 /\ j <= L /\ ~ (j <= K /\ s[j] = t[j])}
<1>1. /\ L \in Nat /\ K \in Nat /\ \A j \in 1..L : s[j] # NoSlot
      /\ \A j \in 1..K : t[j] # NoSlot
  BY SMT
<1>2. /\ L # 0 => head = s[1] /\ nx[s[L]] = NoSlot
      /\ K # 0 => head = t[1] /\ nx[t[K]] = NoSlot
      /\ K = 0 => head = NoSlot
      /\ \A m \in 1..(L - 1) : nx[s[m]] = s[m + 1]
      /\ \A m \in 1..(K - 1) : nx[t[m]] = t[m + 1]
  BY DEF Chain
<1> HIDE DEF L, K
<1>3. Bad = {}
  <2>1. SUFFICES ASSUME Bad # {} PROVE FALSE
    OBVIOUS
  <2>2. PICK j \in Bad : \A h \in Bad : j <= h
    <3>1. Bad \subseteq Nat
      OBVIOUS
    <3> HIDE DEF Bad
    <3> QED
      BY <2>1, <3>1, LeastNatural
  <2>3. j \in Nat /\ j # 0 /\ j <= L /\ ~ (j <= K /\ s[j] = t[j])
    OBVIOUS
  <2>4. CASE j = 1
    <3>1. L # 0 /\ 1 \in 1..L
      BY SMT, <1>1, <2>3, <2>4
    <3>2. K # 0
      BY <1>1, <1>2, <3>1
    <3> QED
      BY SMT, <1>1, <1>2, <2>3, <2>4, <3>1, <3>2
  <2>5. CASE j # 1
    <3>1. /\ j - 1 \in Nat /\ j - 1 # 0 /\ j - 1 <= L /\ j - 1 \in 1..(L - 1) /\ j \in 1..L
          /\ j - 1 + 1 = j /\ ~ (j <= j - 1)
      BY SMT, <1>1, <2>3, <2>5
    <3>2. j - 1 <= K /\ s[j - 1] = t[j - 1]
      <4>1. j - 1 \notin Bad
        <5> HIDE DEF Bad
        <5> QED
          BY <2>2, <3>1
      <4> QED
        BY <3>1, <4>1
    <3>3. nx[s[j - 1]] = s[j] /\ s[j] # NoSlot
      BY <1>1, <1>2, <3>1
    <3>4. CASE j - 1 = K
      <4>1. K # 0
        BY <3>1, <3>4
      <4> QED
        BY <1>2, <3>2, <3>3, <3>4, <4>1
    <3>5. CASE j - 1 # K
      <4>1. j <= K /\ j - 1 \in 1..(K - 1)
        BY SMT, <1>1, <3>1, <3>2, <3>5
      <4>2. nx[t[j - 1]] = t[j]
        BY <1>2, <3>1, <4>1
      <4> QED
        BY <2>3, <3>2, <3>3, <4>1, <4>2
    <3> QED
      BY <3>4, <3>5
  <2> QED
    BY <2>4, <2>5
<1>4. \A j \in 1..L : j <= K /\ s[j] = t[j]
  BY SMT, <1>1, <1>3
<1>5. L <= K
  <2>1. CASE L = 0
    BY SMT, <1>1, <2>1
  <2>2. CASE L # 0
    BY SMT, <1>1, <1>4, <2>2
  <2> QED
    BY <2>1, <2>2
<1> QED
  BY <1>4, <1>5 DEF L, K

\* Taking the last entry out.
LEMMA TakeLast ==
  ASSUME NEW S, NEW s \in Seq(S), Distinct(s), NEW n \in 1..Len(s)
  PROVE  LET r == SubSeq(s, 1, n) IN TakeOut(r, n) = SubSeq(s, 1, n - 1) /\ Len(r) = n /\ r[n] = s[n]
<1> DEFINE r == SubSeq(s, 1, n)
           q == SubSeq(s, 1, n - 1)
<1>1. r \in Seq(S) /\ Len(r) = n /\ \A j \in 1..n : r[j] = s[j]
  BY SMT
<1>2. q \in Seq(S) /\ Len(q) = n - 1 /\ \A j \in 1..(n - 1) : q[j] = s[j]
  BY SMT
<1>3. n \in Nat /\ n <= Len(s) /\ Len(s) \in Nat
  BY SMT
<1> HIDE DEF r, q
<1>4. Distinct(r) /\ n \in 1..Len(r)
  BY SMT, <1>1, <1>3 DEF Distinct
<1>5. /\ TakeOut(r, n) \in Seq(S) /\ Len(TakeOut(r, n)) = n - 1
      /\ \A j \in 1..(n - 1) : TakeOut(r, n)[j] = IF j < n THEN r[j] ELSE r[j + 1]
  BY <1>1, <1>4, TakeOutFacts
<1>6. \A j \in 1..(n - 1) : TakeOut(r, n)[j] = q[j]
  BY SMT, <1>1, <1>2, <1>3, <1>5
<1>7. TakeOut(r, n) = q
  BY <1>2, <1>5, <1>6, SameSequence
<1> QED
  BY SMT, <1>1, <1>3, <1>7 DEF r, q

\* The keys of the listed slots.
KeysOf(c, s) == [n \in 1..Len(s) |-> c.nodes[s[n]].key]

\* Taking a slot out of the list takes its key out of the keys.
LEMMA KeysTakeOut ==
  ASSUME NEW P, NEW s \in Seq(P), Distinct(s), NEW n \in 1..Len(s), NEW c, NEW d, NEW K,
         \A i \in Range(s) : c.nodes[i].key \in K,
         \A i \in Range(s) \ {s[n]} : d.nodes[i].key = c.nodes[i].key
  PROVE  KeysOf(d, TakeOut(s, n)) = TakeOut(KeysOf(c, s), n)
<1> DEFINE t == TakeOut(s, n)
           o == KeysOf(c, s)
           q == KeysOf(d, t)
           r == TakeOut(o, n)
<1>1. /\ t \in Seq(P) /\ Len(t) = Len(s) - 1 /\ Range(t) = Range(s) \ {s[n]}
      /\ \A j \in 1..(Len(s) - 1) : t[j] = IF j < n THEN s[j] ELSE s[j + 1]
  BY SMT, TakeOutFacts
<1>2. Len(s) \in Nat /\ \A j \in 1..Len(s) : s[j] \in Range(s)
  <2>1. DOMAIN s = 1..Len(s) /\ Len(s) \in Nat
    BY SMT
  <2> QED
    BY Zenon, <2>1 DEF Range
<1>3. o \in [1..Len(s) -> K] /\ \A j \in 1..Len(s) : o[j] = c.nodes[s[j]].key
  BY <1>2 DEF KeysOf
<1> HIDE DEF o
<1>4. o \in Seq(K) /\ Len(o) = Len(s)
  <2>1. o \in Seq(K) /\ DOMAIN o = 1..Len(s)
    BY SMT, <1>2, <1>3
  <2> QED
    BY SMT, <1>2, <2>1
<1>5. /\ r \in Seq(K) /\ Len(r) = Len(s) - 1
      /\ \A j \in 1..(Len(s) - 1) : r[j] = IF j < n THEN o[j] ELSE o[j + 1]
  BY <1>4, RemoveAtKeeps DEF TakeOut
<1> HIDE DEF r, t
<1>6. \A j \in 1..Len(t) : t[j] \in Range(t)
  <2>1. DOMAIN t = 1..Len(t)
    BY SMT, <1>1
  <2> QED
    BY Zenon, <2>1 DEF Range
<1>7. ASSUME NEW j \in 1..(Len(s) - 1) PROVE d.nodes[t[j]].key = r[j]
  <2>1. t[j] \in Range(s) \ {s[n]}
    BY <1>1, <1>6
  <2>2. d.nodes[t[j]].key = c.nodes[t[j]].key
    BY <2>1
  <2>3. j \in 1..Len(s) /\ j + 1 \in 1..Len(s)
    BY SMT, <1>2
  <2> QED
    BY <1>1, <1>3, <1>5, <2>2, <2>3
<1>8. r = [j \in 1..(Len(s) - 1) |-> r[j]]
  BY SMT, <1>5
<1>9. q = r
  BY <1>1, <1>7, <1>8 DEF KeysOf
<1> QED
  BY <1>9 DEF r, t, o

\* A slot in front of the list puts its key in front of the keys.
LEMMA KeysInFront ==
  ASSUME NEW P, NEW s \in Seq(P), NEW i \in P, NEW d, NEW K,
         \A j \in Range(s) \cup {i} : d.nodes[j].key \in K
  PROVE  KeysOf(d, <<i>> \o s) = <<d.nodes[i].key>> \o KeysOf(d, s)
<1> DEFINE t == <<i>> \o s
           o == KeysOf(d, s)
           k == d.nodes[i].key
           r == <<k>> \o o
<1>1. t \in Seq(P) /\ Len(t) = Len(s) + 1 /\ t[1] = i /\ \A j \in 1..Len(s) : t[j + 1] = s[j]
  BY SMT
<1>2. Len(s) \in Nat /\ \A j \in 1..Len(s) : s[j] \in Range(s)
  <2>1. DOMAIN s = 1..Len(s) /\ Len(s) \in Nat
    BY SMT
  <2> QED
    BY Zenon, <2>1 DEF Range
<1>3. o \in [1..Len(s) -> K] /\ \A j \in 1..Len(s) : o[j] = d.nodes[s[j]].key
  BY <1>2 DEF KeysOf
<1> HIDE DEF o, t
<1>4. o \in Seq(K) /\ Len(o) = Len(s) /\ k \in K
  <2>1. o \in Seq(K) /\ DOMAIN o = 1..Len(s) /\ k \in K
    BY SMT, <1>2, <1>3
  <2> QED
    BY SMT, <1>2, <2>1
<1> HIDE DEF k
<1>5. r \in Seq(K) /\ Len(r) = Len(s) + 1 /\ r[1] = k /\ \A j \in 1..Len(s) : r[j + 1] = o[j]
  BY SMT, <1>4
<1> HIDE DEF r
<1>6. ASSUME NEW j \in 1..(Len(s) + 1) PROVE d.nodes[t[j]].key = r[j]
  <2>1. CASE j = 1
    BY <1>1, <1>5, <2>1 DEF k
  <2>2. CASE j # 1
    <3>1. j - 1 \in 1..Len(s) /\ j - 1 + 1 = j
      BY SMT, <1>2, <2>2
    <3>2. t[j] = s[j - 1] /\ r[j] = o[j - 1]
      BY <1>1, <1>5, <3>1
    <3> QED
      BY <1>3, <3>1, <3>2
  <2> QED
    BY <2>1, <2>2
<1>7. r = [j \in 1..(Len(s) + 1) |-> r[j]]
  BY SMT, <1>5
<1>8. KeysOf(d, t) = r
  BY <1>1, <1>6, <1>7 DEF KeysOf
<1> QED
  BY <1>8 DEF r, t, o, k

\* The keys of the first slots of the list are the first keys.
LEMMA KeysFirst ==
  ASSUME NEW P, NEW s \in Seq(P), NEW c, NEW d, NEW n \in 0..Len(s),
         \A i \in Range(s) : d.nodes[i].key = c.nodes[i].key
  PROVE  KeysOf(d, SubSeq(s, 1, n)) = SubSeq(KeysOf(c, s), 1, n)
<1> DEFINE K == {c.nodes[i].key : i \in Range(s)}
           t == SubSeq(s, 1, n)
           o == KeysOf(c, s)
           r == SubSeq(o, 1, n)
<1>1. t \in Seq(P) /\ Len(t) = n /\ \A j \in 1..n : t[j] = s[j]
  BY SMT
<1>2. Len(s) \in Nat /\ \A j \in 1..Len(s) : s[j] \in Range(s)
  <2>1. DOMAIN s = 1..Len(s) /\ Len(s) \in Nat
    BY SMT
  <2> QED
    BY Zenon, <2>1 DEF Range
<1>3. o \in [1..Len(s) -> K] /\ \A j \in 1..Len(s) : o[j] = c.nodes[s[j]].key
  BY <1>2 DEF KeysOf
<1> HIDE DEF o, t, K
<1>4. o \in Seq(K) /\ Len(o) = Len(s)
  <2>1. o \in Seq(K) /\ DOMAIN o = 1..Len(s)
    BY SMT, <1>2, <1>3
  <2> QED
    BY SMT, <1>2, <2>1
<1>5. r \in Seq(K) /\ Len(r) = n /\ \A j \in 1..n : r[j] = o[j]
  BY SMT, <1>4
<1> HIDE DEF r
<1>6. \A j \in 1..n : d.nodes[t[j]].key = r[j]
  BY <1>1, <1>2, <1>3, <1>5
<1>7. r = [j \in 1..n |-> r[j]]
  BY SMT, <1>5
<1>8. KeysOf(d, t) = r
  BY <1>1, <1>6, <1>7 DEF KeysOf
<1> QED
  BY <1>8 DEF r, t, o
=============================================================================
