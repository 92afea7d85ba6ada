--------------------------- MODULE FiniteInduction --------------------------
(***************************************************************************)
(* Induction over finite sets, in a form that takes a set and no operator  *)
(* as its hypothesis, and what follows from it: extreme elements, and what *)
(* the folds and sums of the community modules compute, which pick the     *)
(* elements of a set in an order of their own.                             *)
(***************************************************************************)
EXTENDS Functions, Integers, FiniteSetTheorems, WellFoundedInduction, TLAPS

LEMMA SubsetsWellFounded ==
  ASSUME NEW S, IsFiniteSet(S)
  PROVE  IsWellFoundedOn(StrictSubsetOrdering(S), SUBSET S)
BY FS_StrictSubsetOrderingWellFounded, FS_FiniteSubsetsOfFinite

(* A set of subsets that holds a set when it holds everything of one        *)
(* element less holds them all.                                             *)
LEMMA SubsetInductionAll ==
  ASSUME NEW S, IsFiniteSet(S), NEW Good,
         \A T \in SUBSET S : (\A x \in T : T \ {x} \in Good) => T \in Good
  PROVE  \A T \in SUBSET S : T \in Good
<1> DEFINE R == StrictSubsetOrdering(S)
           Bad == (SUBSET S) \ Good
<1> SUFFICES ASSUME Bad # {} PROVE FALSE
  OBVIOUS
<1>1. IsWellFoundedOn(R, SUBSET S)
  BY SubsetsWellFounded
<1>2. PICK T \in Bad : \A U \in Bad : <<U, T>> \notin R
  <2>1. Bad \subseteq SUBSET S /\ Bad # {}
    OBVIOUS
  <2> HIDE DEF R, Bad
  <2> QED BY <1>1, <2>1, WFMin
<1>3. PICK x \in T : T \ {x} \notin Good
  OBVIOUS
<1>4. T \ {x} \in Bad
  BY <1>3
<1>5. <<T \ {x}, T>> \in R
  BY <1>3 DEF StrictSubsetOrdering
<1> QED BY <1>2, <1>4, <1>5

(* It is enough that it holds the empty set, and a set when it holds one of *)
(* one element less.                                                        *)
LEMMA SubsetInduction ==
  ASSUME NEW S, IsFiniteSet(S), NEW Good,
         {} \in Good,
         \A T \in SUBSET S : \A x \in T : T \ {x} \in Good => T \in Good
  PROVE  \A T \in SUBSET S : T \in Good
<1>1. ASSUME NEW T \in SUBSET S, \A x \in T : T \ {x} \in Good
      PROVE  T \in Good
  <2>1. CASE T = {}
    BY <2>1
  <2>2. CASE T # {}
    <3>1. PICK x \in T : TRUE
      BY <2>2
    <3> QED BY <1>1, <3>1
  <2> QED BY <2>1, <2>2
<1> QED BY <1>1, SubsetInductionAll

(* A bounded, nonempty set of naturals has a largest element.               *)
LEMMA LargestOf ==
  ASSUME NEW b \in Nat, NEW S \in SUBSET (0..b), S # {}
  PROVE  \E n \in S : \A m \in S : m <= n
<1> DEFINE Good == {T \in SUBSET S : T = {} \/ \E n \in T : \A m \in T : m <= n}
<1>1. IsFiniteSet(S)
  <2>1. IsFiniteSet(0..b)
    BY FS_Interval
  <2> QED BY <2>1, FS_Subset
<1>2. \A T \in SUBSET S : \A x \in T : T \ {x} \in Good => T \in Good
  <2> SUFFICES ASSUME NEW T \in SUBSET S, NEW x \in T, T \ {x} \in Good
               PROVE  \E n \in T : \A m \in T : m <= n
    OBVIOUS
  <2>1. CASE T \ {x} = {}
    BY <2>1
  <2>2. CASE T \ {x} # {}
    <3>1. PICK n \in T \ {x} : \A m \in T \ {x} : m <= n
      BY <2>2
    <3>2. CASE x <= n
      BY <3>1, <3>2
    <3>3. CASE ~(x <= n)
      <4>1. \A m \in T : m <= x
        BY <3>1, <3>3
      <4> QED BY <4>1
    <3> QED BY <3>2, <3>3
  <2> QED BY <2>1, <2>2
<1>3. \A T \in SUBSET S : T \in Good
  <2>1. {} \in Good  OBVIOUS
  <2> HIDE DEF Good
  <2> QED BY <1>1, <1>2, <2>1, SubsetInduction
<1> QED BY <1>3

(* A finite, nonempty set has an element that is first in an order without  *)
(* cycles of two: "before" is the set of ordered pairs.                     *)
LEMMA FirstOf ==
  ASSUME NEW S, IsFiniteSet(S), S # {}, NEW before,
         \A x \in S : <<x, x>> \notin before,
         \A x, y, z \in S : <<x, y>> \in before /\ <<y, z>> \in before => <<x, z>> \in before
  PROVE  \E x \in S : \A y \in S : <<y, x>> \notin before
<1> DEFINE Good == {T \in SUBSET S : T = {} \/ \E x \in T : \A y \in T : <<y, x>> \notin before}
<1>1. \A T \in SUBSET S : \A x \in T : T \ {x} \in Good => T \in Good
  <2> SUFFICES ASSUME NEW T \in SUBSET S, NEW x \in T, T \ {x} \in Good
               PROVE  \E n \in T : \A m \in T : <<m, n>> \notin before
    OBVIOUS
  <2>1. CASE T \ {x} = {}
    <3>1. \A m \in T : m = x
      BY <2>1
    <3> QED BY <3>1
  <2>2. CASE T \ {x} # {}
    <3>1. PICK n \in T \ {x} : \A m \in T \ {x} : <<m, n>> \notin before
      BY <2>2
    <3>2. CASE <<x, n>> \notin before
      BY <3>1, <3>2
    <3>3. CASE <<x, n>> \in before
      <4>1. \A m \in T : <<m, x>> \notin before
        BY <3>1, <3>3
      <4> QED BY <4>1
    <3> QED BY <3>2, <3>3
  <2> QED BY <2>1, <2>2
<1>2. \A T \in SUBSET S : T \in Good
  <2>1. {} \in Good  OBVIOUS
  <2> HIDE DEF Good
  <2> QED BY <1>1, <2>1, SubsetInduction
<1> QED BY <1>2

-----------------------------------------------------------------------------
(* Counting up to a bound.                                                  *)
LEMMA IntervalInduction ==
  ASSUME NEW b \in Nat, NEW Good,
         0 \in Good, \A n \in 0..(b - 1) : n \in Good => n + 1 \in Good
  PROVE  \A n \in 0..b : n \in Good
<1> DEFINE Back == {i \in 0..b : b - i \notin Good}
<1> SUFFICES ASSUME NEW n \in 0..b, n \notin Good PROVE FALSE
  OBVIOUS
<1>1. Back \in SUBSET (0..b)
  OBVIOUS
<1>2. b - n \in Back
  OBVIOUS
<1>3. PICK k \in Back : \A m \in Back : m <= k
  <2> HIDE DEF Back
  <2> QED BY <1>1, <1>2, LargestOf
<1>4. k \in 0..b /\ b - k \notin Good
  OBVIOUS
<1>5. k + 1 \in 0..b /\ b - (k + 1) \notin Good
  BY <1>4
<1>6. k + 1 \in Back
  BY <1>5
<1> QED BY <1>3, <1>4, <1>6

(* Folds.  They pick the elements of a set by CHOOSE, one after the other,  *)
(* and combine what they have so far with the next by step[element, value]. *)
Pick(s) == CHOOSE x \in s : TRUE

LEMMA PickIsIn ==
  ASSUME NEW s, s # {}
  PROVE  Pick(s) \in s
BY DEF Pick

(* The table of what a fold computes for every subset exists: it is built   *)
(* by the size of the subsets.                                              *)
Folding(D, V, base, step) ==
  IsFiniteSet(D) /\ base \in V /\ step \in [D \X V -> V]

FoldsTo(D, base, step, g) ==
  g = [s \in SUBSET D |-> IF s = {} THEN base ELSE step[<<Pick(s), g[s \ {Pick(s)}]>>]]

LEMMA FoldExists ==
  ASSUME NEW D, NEW V, NEW base, NEW step, Folding(D, V, base, step)
  PROVE  \E g \in [SUBSET D -> V] : FoldsTo(D, base, step, g)
<1> USE DEF Folding
<1> DEFINE b == Cardinality(D)
           F == [SUBSET D -> V]
           Fits(g, n) == \A s \in SUBSET D : Cardinality(s) <= n =>
             g[s] = IF s = {} THEN base ELSE step[<<Pick(s), g[s \ {Pick(s)}]>>]
           Bad == {n \in 0..b : ~\E g \in F : Fits(g, n)}
<1>1. b \in Nat /\ \A s \in SUBSET D : Cardinality(s) \in Nat /\ Cardinality(s) <= b
  BY FS_Subset, FS_CardinalityType
<1>2. \A s \in SUBSET D : s # {} => /\ Pick(s) \in D /\ Pick(s) \in s
                                    /\ s \ {Pick(s)} \in SUBSET D
                                    /\ Cardinality(s \ {Pick(s)}) = Cardinality(s) - 1
  BY PickIsIn, FS_RemoveElement, FS_Subset
<1>3. 0 \notin Bad
  <2> DEFINE g == [s \in SUBSET D |-> base]
  <2>1. \A s \in SUBSET D : Cardinality(s) <= 0 => s = {}
    BY <1>1, FS_EmptySet, FS_Subset
  <2>2. g \in F /\ Fits(g, 0)
    BY <2>1
  <2> QED BY <2>2
<1>4. ASSUME NEW n \in 0..(b - 1), n \notin Bad PROVE n + 1 \notin Bad
  <2>0. n \in Nat /\ n \in 0..b
    BY <1>1
  <2>1. PICK g \in F : Fits(g, n)
    <3> HIDE DEF Fits, F
    <3> QED BY <1>4, <2>0
  <2> DEFINE h == [s \in SUBSET D |->
                     IF Cardinality(s) <= n THEN g[s]
                     ELSE step[<<Pick(s), g[s \ {Pick(s)}]>>]]
  <2>2. \A s \in SUBSET D : ~(Cardinality(s) <= n) => s # {}
    <3>1. Cardinality({}) = 0 /\ 0 <= n
      BY FS_EmptySet, <2>0
    <3> QED BY <3>1
  <2>3. h \in F
    <3> SUFFICES ASSUME NEW s \in SUBSET D PROVE h[s] \in V
      OBVIOUS
    <3>1. CASE Cardinality(s) <= n
      BY <3>1, <2>1
    <3>2. CASE ~(Cardinality(s) <= n)
      <4>1. Pick(s) \in D /\ s \ {Pick(s)} \in SUBSET D
        BY <3>2, <2>2, <1>2
      <4>2. g[s \ {Pick(s)}] \in V
        BY <4>1, <2>1
      <4>3. step[<<Pick(s), g[s \ {Pick(s)}]>>] \in V
        BY <4>1, <4>2
      <4> QED BY <3>2, <4>3
    <3> QED BY <3>1, <3>2
  <2>4. Fits(h, n + 1)
    <3> SUFFICES ASSUME NEW s \in SUBSET D, Cardinality(s) <= n + 1
                 PROVE  h[s] = IF s = {} THEN base ELSE step[<<Pick(s), h[s \ {Pick(s)}]>>]
      OBVIOUS
    <3>1. CASE s = {}
      <4>1. Cardinality(s) <= n
        BY <3>1, <2>2
      <4> QED BY <3>1, <4>1, <2>1
    <3>2. CASE s # {}
      <4>1. s \ {Pick(s)} \in SUBSET D /\ Cardinality(s \ {Pick(s)}) <= n
        BY <3>2, <1>1, <1>2
      <4>2. h[s \ {Pick(s)}] = g[s \ {Pick(s)}]
        BY <4>1
      <4>3. CASE Cardinality(s) <= n
        <5>1. h[s] = g[s]
          BY <4>3
        <5>2. g[s] = step[<<Pick(s), g[s \ {Pick(s)}]>>]
          BY <2>1, <3>2, <4>3
        <5> QED BY <3>2, <4>2, <5>1, <5>2
      <4>4. CASE ~(Cardinality(s) <= n)
        BY <3>2, <4>2, <4>4
      <4> QED BY <4>3, <4>4
    <3> QED BY <3>1, <3>2
  <2> HIDE DEF h, Fits, F
  <2> QED BY <2>3, <2>4
<1>5. ASSUME NEW n \in 0..b PROVE n \notin Bad
  <2> DEFINE Good == {i \in 0..b : i \notin Bad}
  <2>1. 0 \in Good /\ \A i \in 0..(b - 1) : i \in Good => i + 1 \in Good
    <3> HIDE DEF Bad
    <3> QED BY <1>1, <1>3, <1>4
  <2>2. n \in Good
    <3> HIDE DEF Good, b
    <3> QED BY <1>1, <2>1, IntervalInduction
  <2> QED BY <2>2
<1>6. PICK g \in F : Fits(g, b)
  <2>1. b \in 0..b
    BY <1>1
  <2> HIDE DEF Fits, F
  <2> QED BY <1>5, <2>1
<1>7. \A s \in SUBSET D :
        g[s] = IF s = {} THEN base ELSE step[<<Pick(s), g[s \ {Pick(s)}]>>]
  BY <1>1, <1>6
<1>8. g = [s \in SUBSET D |-> g[s]]
  BY <1>6
<1> QED BY <1>6, <1>7, <1>8 DEF FoldsTo

-----------------------------------------------------------------------------
(* Sums.  The table of the sums over all subsets of S satisfies this        *)
(* equation, and SumFunctionOnSet looks a sum up in it.                     *)
SumsOf(f, S, g) ==
  g = [s \in SUBSET S |-> IF s = {} THEN 0 ELSE f[Pick(s)] + g[s \ {Pick(s)}]]

Summable(f, S) == IsFiniteSet(S) /\ \A x \in S : f[x] \in Int

LEMMA SumsExist ==
  ASSUME NEW f, NEW S, Summable(f, S)
  PROVE  \E g : SumsOf(f, S, g)
<1> DEFINE step == [p \in S \X Int |-> f[p[1]] + p[2]]
<1>1. IsFiniteSet(S) /\ step \in [S \X Int -> Int]
  BY DEF Summable
<1>2. PICK g \in [SUBSET S -> Int] :
        g = [s \in SUBSET S |-> IF s = {} THEN 0 ELSE step[<<Pick(s), g[s \ {Pick(s)}]>>]]
  <2> HIDE DEF step
  <2>1. Folding(S, Int, 0, step)
    BY <1>1 DEF Folding
  <2>2. PICK g \in [SUBSET S -> Int] : FoldsTo(S, 0, step, g)
    BY <2>1, FoldExists
  <2> QED BY <2>2 DEF FoldsTo
<1>3. \A s \in SUBSET S : s # {} =>
        step[<<Pick(s), g[s \ {Pick(s)}]>>] = f[Pick(s)] + g[s \ {Pick(s)}]
  BY PickIsIn
<1>4. g = [s \in SUBSET S |-> IF s = {} THEN 0 ELSE f[Pick(s)] + g[s \ {Pick(s)}]]
  <2> HIDE DEF step
  <2> QED BY <1>2, <1>3
<1> QED BY <1>4 DEF SumsOf

LEMMA SumsStep ==
  ASSUME NEW f, NEW S, NEW g, SumsOf(f, S, g)
  PROVE  \A s \in SUBSET S :
           /\ s = {} => g[s] = 0
           /\ s # {} => g[s] = f[Pick(s)] + g[s \ {Pick(s)}] /\ Pick(s) \in s
<1> SUFFICES ASSUME NEW s \in SUBSET S
             PROVE  /\ s = {} => g[s] = 0
                    /\ s # {} => g[s] = f[Pick(s)] + g[s \ {Pick(s)}] /\ Pick(s) \in s
  OBVIOUS
<1>1. g[s] = IF s = {} THEN 0 ELSE f[Pick(s)] + g[s \ {Pick(s)}]
  BY DEF SumsOf
<1>2. s # {} => Pick(s) \in s
  BY PickIsIn
<1> QED BY <1>1, <1>2

LEMMA SumsType ==
  ASSUME NEW f, NEW S, Summable(f, S), NEW g, SumsOf(f, S, g)
  PROVE  \A s \in SUBSET S : g[s] \in Int
<1> DEFINE Good == {s \in SUBSET S : g[s] \in Int}
<1>0. \A s \in SUBSET S :
          /\ s = {} => g[s] = 0
          /\ s # {} => g[s] = f[Pick(s)] + g[s \ {Pick(s)}] /\ Pick(s) \in s
  BY SumsStep
<1>1. IsFiniteSet(S) /\ \A x \in S : f[x] \in Int
  BY DEF Summable
<1>2. ASSUME NEW s \in SUBSET S, \A x \in s : s \ {x} \in Good
      PROVE  s \in Good
  <2>1. CASE s = {}
    <3>1. g[s] = 0
      BY <1>0, <2>1
    <3> QED BY <3>1
  <2>2. CASE s # {}
    <3>1. g[s] = f[Pick(s)] + g[s \ {Pick(s)}] /\ Pick(s) \in s
      BY <1>0, <2>2
    <3> QED BY <1>1, <1>2, <3>1
  <2> QED BY <2>1, <2>2
<1>3. \A s \in SUBSET S : s \in Good
  <2> HIDE DEF Good
  <2> QED BY <1>1, <1>2, SubsetInductionAll
<1> QED BY <1>3

(* Two functions that agree on a set have the same table.                   *)
LEMMA SumsAgree ==
  ASSUME NEW f, NEW S, NEW g, SumsOf(f, S, g),
         NEW e, NEW T, NEW h, SumsOf(e, T, h),
         IsFiniteSet(T), T \subseteq S, \A x \in T : e[x] = f[x]
  PROVE  \A s \in SUBSET T : h[s] = g[s]
<1> DEFINE Good == {s \in SUBSET T : h[s] = g[s]}
<1>1. \A s \in SUBSET S :
          /\ s = {} => g[s] = 0
          /\ s # {} => g[s] = f[Pick(s)] + g[s \ {Pick(s)}] /\ Pick(s) \in s
  BY SumsStep
<1>2. \A s \in SUBSET T :
          /\ s = {} => h[s] = 0
          /\ s # {} => h[s] = e[Pick(s)] + h[s \ {Pick(s)}] /\ Pick(s) \in s
  BY SumsStep
<1>3. ASSUME NEW s \in SUBSET T, \A x \in s : s \ {x} \in Good
      PROVE  s \in Good
  <2>1. s \in SUBSET S
    OBVIOUS
  <2>2. CASE s = {}
    BY <1>1, <1>2, <2>1, <2>2
  <2>3. CASE s # {}
    <3>1. g[s] = f[Pick(s)] + g[s \ {Pick(s)}] /\ Pick(s) \in s
      BY <1>1, <2>1, <2>3
    <3>2. h[s] = e[Pick(s)] + h[s \ {Pick(s)}]
      BY <1>2, <2>3
    <3> QED BY <1>3, <3>1, <3>2
  <2> QED BY <2>2, <2>3
<1>4. \A s \in SUBSET T : s \in Good
  <2> HIDE DEF Good
  <2> QED BY <1>3, SubsetInductionAll
<1> QED BY <1>4

(* The order in which the elements are picked does not matter.              *)
LEMMA SumsAnyOrder ==
  ASSUME NEW f, NEW S, Summable(f, S), NEW g, SumsOf(f, S, g)
  PROVE  \A s \in SUBSET S : \A x \in s : g[s] = f[x] + g[s \ {x}]
<1> DEFINE Good == {s \in SUBSET S : \A x \in s : g[s] = f[x] + g[s \ {x}]}
<1>0. \A s \in SUBSET S :
          /\ s = {} => g[s] = 0
          /\ s # {} => g[s] = f[Pick(s)] + g[s \ {Pick(s)}] /\ Pick(s) \in s
  BY SumsStep
<1>1. IsFiniteSet(S) /\ \A x \in S : f[x] \in Int
  BY DEF Summable
<1>2. \A s \in SUBSET S : g[s] \in Int
  BY SumsType
<1>3. ASSUME NEW s \in SUBSET S, \A x \in s : s \ {x} \in Good
      PROVE  s \in Good
  <2> SUFFICES ASSUME NEW x \in s PROVE g[s] = f[x] + g[s \ {x}]
    OBVIOUS
  <2> DEFINE p == Pick(s)
  <2>1. p \in s /\ g[s] = f[p] + g[s \ {p}]
    BY <1>0
  <2> HIDE DEF p
  <2>2. CASE x = p
    BY <2>1, <2>2
  <2>3. CASE x # p
    <3>1. g[s \ {p}] = f[x] + g[(s \ {p}) \ {x}]
      BY <1>3, <2>1, <2>3
    <3>2. g[s \ {x}] = f[p] + g[(s \ {x}) \ {p}]
      BY <1>3, <2>1, <2>3
    <3>3. (s \ {p}) \ {x} = (s \ {x}) \ {p}
      OBVIOUS
    <3> DEFINE A == g[s \ {p}]  B == g[s \ {x}]  C == g[(s \ {p}) \ {x}]
    <3>4. g[s] = f[p] + A /\ A = f[x] + C /\ B = f[p] + C
      BY <2>1, <3>1, <3>2, <3>3
    <3>5. f[x] \in Int /\ f[p] \in Int /\ A \in Int /\ B \in Int /\ C \in Int
      BY <1>1, <1>2, <2>1
    <3>6. g[s] = f[x] + B
      <4> HIDE DEF A, B, C
      <4> QED BY <3>4, <3>5
    <3> QED BY <3>6
  <2> QED BY <2>2, <2>3
<1>4. \A s \in SUBSET S : s \in Good
  <2> HIDE DEF Good
  <2> QED BY <1>1, <1>3, SubsetInductionAll
<1> QED BY <1>4

(* SumFunctionOnSet is a look-up in the table.                              *)
LEMMA SumIs ==
  ASSUME NEW f, NEW S, Summable(f, S), NEW g, SumsOf(f, S, g),
         NEW T \in SUBSET S
  PROVE  SumFunctionOnSet(f, T) = g[T]
<1> DEFINE table == CHOOSE h :
             h = [s \in SUBSET T |->
                    IF s = {} THEN 0
                    ELSE f[CHOOSE x \in s : TRUE] + h[s \ {CHOOSE x \in s : TRUE}]]
<1>1. IsFiniteSet(T) /\ Summable(f, T)
  BY FS_Subset DEF Summable
<1>2. \E h : SumsOf(f, T, h)
  BY <1>1, SumsExist
<1>3. SumsOf(f, T, table)
  BY <1>2 DEF SumsOf, Pick
<1>4. SumFunctionOnSet(f, T) = table[T]
  BY DEF SumFunctionOnSet, FoldFunctionOnSet, MapThenFoldSet
<1>5. table[T] = g[T]
  <2> HIDE DEF table
  <2> QED BY <1>1, <1>3, SumsAgree
<1> QED BY <1>4, <1>5

-----------------------------------------------------------------------------
(* What is known of a sum.                                                  *)

LEMMA SumEmpty ==
  ASSUME NEW f
  PROVE  SumFunctionOnSet(f, {}) = 0
<1>1. Summable(f, {})
  BY FS_EmptySet DEF Summable
<1>2. PICK g : SumsOf(f, {}, g)
  BY <1>1, SumsExist
<1>3. SumFunctionOnSet(f, {}) = g[{}]
  BY <1>1, <1>2, SumIs
<1>4. \A s \in SUBSET {} : s = {} => g[s] = 0
  BY <1>2, SumsStep
<1> QED BY <1>3, <1>4

LEMMA SumType ==
  ASSUME NEW f, NEW S, Summable(f, S)
  PROVE  SumFunctionOnSet(f, S) \in Int
<1>1. PICK g : SumsOf(f, S, g)
  BY SumsExist
<1>2. SumFunctionOnSet(f, S) = g[S]
  BY <1>1, SumIs
<1> QED BY <1>1, <1>2, SumsType

LEMMA SumSplit ==
  ASSUME NEW f, NEW S, Summable(f, S), NEW x \in S
  PROVE  /\ Summable(f, S \ {x})
         /\ SumFunctionOnSet(f, S) = f[x] + SumFunctionOnSet(f, S \ {x})
<1>1. PICK g : SumsOf(f, S, g)
  BY SumsExist
<1>2. SumFunctionOnSet(f, S) = g[S]
  BY <1>1, SumIs
<1>3. SumFunctionOnSet(f, S \ {x}) = g[S \ {x}]
  <2> PICK T : T = S \ {x}
    OBVIOUS
  <2>1. T \in SUBSET S
    OBVIOUS
  <2>2. SumFunctionOnSet(f, T) = g[T]
    BY <1>1, <2>1, SumIs
  <2> QED BY <2>2
<1>4. g[S] = f[x] + g[S \ {x}]
  BY <1>1, SumsAnyOrder
<1>5. Summable(f, S \ {x})
  BY FS_Subset DEF Summable
<1> QED BY <1>2, <1>3, <1>4, <1>5

LEMMA SumOfOne ==
  ASSUME NEW f, NEW x, f[x] \in Int
  PROVE  SumFunctionOnSet(f, {x}) = f[x]
<1>1. Summable(f, {x})
  BY FS_Singleton DEF Summable
<1>2. {x} \ {x} = {}
  OBVIOUS
<1>3. SumFunctionOnSet(f, {x}) = f[x] + SumFunctionOnSet(f, {x} \ {x})
  BY <1>1, SumSplit
<1>4. SumFunctionOnSet(f, {x} \ {x}) = 0
  BY <1>2, SumEmpty
<1> QED BY <1>3, <1>4

(* The sums of two functions that agree on a set are the same.              *)
LEMMA SumSame ==
  ASSUME NEW f, NEW e, NEW S, Summable(f, S), \A x \in S : e[x] = f[x]
  PROVE  SumFunctionOnSet(e, S) = SumFunctionOnSet(f, S)
<1>1. Summable(e, S)
  BY DEF Summable
<1>2. PICK g : SumsOf(f, S, g)
  BY SumsExist
<1>3. PICK h : SumsOf(e, S, h)
  BY <1>1, SumsExist
<1>4. h[S] = g[S]
  BY <1>2, <1>3, SumsAgree DEF Summable
<1>5. SumFunctionOnSet(e, S) = h[S]
  BY <1>1, <1>3, SumIs
<1>6. SumFunctionOnSet(f, S) = g[S]
  BY <1>2, SumIs
<1> QED BY <1>4, <1>5, <1>6

(* The values of a function on a finite set are finitely many.              *)
LEMMA ImageFinite ==
  ASSUME NEW f, IsFiniteSet(DOMAIN f)
  PROVE  IsFiniteSet({f[x] : x \in DOMAIN f})
<1> DEFINE T == {f[x] : x \in DOMAIN f}
           g == [x \in DOMAIN f |-> f[x]]
<1>1. g \in Surjection(DOMAIN f, T)
  BY DEF Surjection
<1> HIDE DEF T, g
<1>2. IsFiniteSet(T)
  BY <1>1, FS_Surjection
<1> QED BY <1>2 DEF T

(* Sums of two families, of two sets, of smaller terms.                     *)
LEMMA SumPlus ==
  ASSUME NEW f, NEW e, NEW h, NEW S, Summable(f, S), Summable(e, S),
         \A x \in S : h[x] = f[x] + e[x]
  PROVE  SumFunctionOnSet(h, S) = SumFunctionOnSet(f, S) + SumFunctionOnSet(e, S)
<1> DEFINE Good == {T \in SUBSET S : SumFunctionOnSet(h, T)
                                       = SumFunctionOnSet(f, T) + SumFunctionOnSet(e, T)}
<1>1. IsFiniteSet(S)
  BY DEF Summable
<1>2. {} \in Good
  BY SumEmpty
<1>3. ASSUME NEW T \in SUBSET S, NEW x \in T, T \ {x} \in Good PROVE T \in Good
  <2>1. Summable(f, T) /\ Summable(e, T) /\ Summable(h, T)
    BY FS_Subset DEF Summable
  <2>2. /\ SumFunctionOnSet(f, T) = f[x] + SumFunctionOnSet(f, T \ {x})
        /\ SumFunctionOnSet(f, T \ {x}) \in Int
    BY <2>1, SumSplit, SumType
  <2>3. /\ SumFunctionOnSet(e, T) = e[x] + SumFunctionOnSet(e, T \ {x})
        /\ SumFunctionOnSet(e, T \ {x}) \in Int
    BY <2>1, SumSplit, SumType
  <2>4. SumFunctionOnSet(h, T) = h[x] + SumFunctionOnSet(h, T \ {x})
    BY <2>1, SumSplit
  <2>5. f[x] \in Int /\ e[x] \in Int /\ h[x] = f[x] + e[x]
    BY <2>1 DEF Summable
  <2>6. SumFunctionOnSet(h, T \ {x})
          = SumFunctionOnSet(f, T \ {x}) + SumFunctionOnSet(e, T \ {x})
    BY <1>3
  <2> QED BY <2>2, <2>3, <2>4, <2>5, <2>6
<1>4. S \in Good
  <2>1. \A T \in SUBSET S : \A x \in T : T \ {x} \in Good => T \in Good
    BY <1>3
  <2> HIDE DEF Good
  <2>2. \A T \in SUBSET S : T \in Good
    BY <1>1, <1>2, <2>1, SubsetInduction
  <2> QED BY <2>2
<1> QED BY <1>4

LEMMA SumNegative ==
  ASSUME NEW f, NEW h, NEW S, Summable(f, S), \A x \in S : h[x] = -f[x]
  PROVE  SumFunctionOnSet(h, S) = -SumFunctionOnSet(f, S)
<1> DEFINE zero == [x \in S |-> 0]
<1>1. Summable(h, S) /\ Summable(zero, S)
  BY DEF Summable
<1>2. \A x \in S : zero[x] = f[x] + h[x] /\ zero[x] = zero[x] + zero[x]
  BY DEF Summable
<1> HIDE DEF zero
<1>3. SumFunctionOnSet(zero, S) = SumFunctionOnSet(f, S) + SumFunctionOnSet(h, S)
  BY <1>1, <1>2, SumPlus
<1>4. SumFunctionOnSet(zero, S) = SumFunctionOnSet(zero, S) + SumFunctionOnSet(zero, S)
  BY <1>1, <1>2, SumPlus
<1>5. /\ SumFunctionOnSet(zero, S) \in Int /\ SumFunctionOnSet(f, S) \in Int
      /\ SumFunctionOnSet(h, S) \in Int
  BY <1>1, SumType
<1>6. \A a, b, c \in Int : a = b + c /\ a = a + a => c = -b
  OBVIOUS
<1> QED BY <1>3, <1>4, <1>5, <1>6

LEMMA SumDisjoint ==
  ASSUME NEW f, NEW S, NEW T, Summable(f, S \cup T), S \cap T = {}
  PROVE  SumFunctionOnSet(f, S \cup T) = SumFunctionOnSet(f, S) + SumFunctionOnSet(f, T)
<1> DEFINE Good == {U \in SUBSET T : SumFunctionOnSet(f, S \cup U)
                                       = SumFunctionOnSet(f, S) + SumFunctionOnSet(f, U)}
<1>1. \A U \in SUBSET (S \cup T) : Summable(f, U)
  BY FS_Subset DEF Summable
<1>2. IsFiniteSet(T)
  BY <1>1 DEF Summable
<1>3. {} \in Good
  <2>1. SumFunctionOnSet(f, S) \in Int
    BY <1>1, SumType
  <2>2. S \cup {} = S
    OBVIOUS
  <2> QED BY <2>1, <2>2, SumEmpty
<1>4. ASSUME NEW U \in SUBSET T, NEW x \in U, U \ {x} \in Good PROVE U \in Good
  <2>1. Summable(f, U) /\ Summable(f, S \cup U) /\ Summable(f, S) /\ Summable(f, U \ {x})
    BY <1>1
  <2>2. SumFunctionOnSet(f, U) = f[x] + SumFunctionOnSet(f, U \ {x})
    BY <2>1, SumSplit
  <2>3. (S \cup U) \ {x} = S \cup (U \ {x}) /\ x \in S \cup U
    OBVIOUS
  <2>4. SumFunctionOnSet(f, S \cup U) = f[x] + SumFunctionOnSet(f, S \cup (U \ {x}))
    <3>1. SumFunctionOnSet(f, S \cup U) = f[x] + SumFunctionOnSet(f, (S \cup U) \ {x})
      BY <2>1, <2>3, SumSplit
    <3> QED BY <3>1, <2>3
  <2>5. SumFunctionOnSet(f, S \cup (U \ {x}))
          = SumFunctionOnSet(f, S) + SumFunctionOnSet(f, U \ {x})
    BY <1>4
  <2>6. f[x] \in Int /\ SumFunctionOnSet(f, S) \in Int /\ SumFunctionOnSet(f, U \ {x}) \in Int
    BY <2>1, SumType DEF Summable
  <2>7. SumFunctionOnSet(f, S \cup U) = SumFunctionOnSet(f, S) + SumFunctionOnSet(f, U)
    BY <2>2, <2>4, <2>5, <2>6
  <2> QED BY <2>7
<1>5. T \in Good
  <2>1. \A U \in SUBSET T : \A x \in U : U \ {x} \in Good => U \in Good
    BY <1>4
  <2> HIDE DEF Good
  <2>2. \A U \in SUBSET T : U \in Good
    BY <1>2, <1>3, <2>1, SubsetInduction
  <2> QED BY <2>2
<1> QED BY <1>5

LEMMA SumNat ==
  ASSUME NEW f, NEW S, Summable(f, S), \A x \in S : f[x] >= 0
  PROVE  SumFunctionOnSet(f, S) >= 0
<1> DEFINE Good == {T \in SUBSET S : SumFunctionOnSet(f, T) >= 0}
<1>1. IsFiniteSet(S)
  BY DEF Summable
<1>2. {} \in Good
  BY SumEmpty
<1>3. ASSUME NEW T \in SUBSET S, NEW x \in T, T \ {x} \in Good PROVE T \in Good
  <2>1. Summable(f, T)
    BY FS_Subset DEF Summable
  <2>2. SumFunctionOnSet(f, T) = f[x] + SumFunctionOnSet(f, T \ {x})
        /\ SumFunctionOnSet(f, T \ {x}) \in Int
    BY <2>1, SumSplit, SumType
  <2>3. f[x] \in Int /\ f[x] >= 0 /\ SumFunctionOnSet(f, T \ {x}) >= 0
    BY <1>3, <2>1 DEF Summable
  <2>4. SumFunctionOnSet(f, T) >= 0
    BY <2>2, <2>3
  <2> QED BY <2>4
<1>4. \A T \in SUBSET S : T \in Good
  <2>1. \A T \in SUBSET S : \A x \in T : T \ {x} \in Good => T \in Good
    BY <1>3
  <2> HIDE DEF Good
  <2> QED BY <1>1, <1>2, <2>1, SubsetInduction
<1> QED BY <1>4

LEMMA SumWithin ==
  ASSUME NEW f, NEW S, NEW T \in SUBSET S, Summable(f, S), \A x \in S : f[x] >= 0
  PROVE  /\ SumFunctionOnSet(f, T) <= SumFunctionOnSet(f, S)
         /\ SumFunctionOnSet(f, T) >= 0
<1>1. Summable(f, T) /\ Summable(f, S \ T) /\ T \cup (S \ T) = S /\ T \cap (S \ T) = {}
  BY FS_Subset DEF Summable
<1>2. SumFunctionOnSet(f, S) = SumFunctionOnSet(f, T) + SumFunctionOnSet(f, S \ T)
  <2> PICK U : U = S \ T
    OBVIOUS
  <2>1. SumFunctionOnSet(f, T \cup U) = SumFunctionOnSet(f, T) + SumFunctionOnSet(f, U)
    BY <1>1, SumDisjoint
  <2> QED BY <1>1, <2>1
<1>3. SumFunctionOnSet(f, S \ T) \in Int /\ SumFunctionOnSet(f, T) \in Int
  BY <1>1, SumType
<1>4. SumFunctionOnSet(f, S \ T) >= 0 /\ SumFunctionOnSet(f, T) >= 0
  <2> PICK U : U = S \ T
    OBVIOUS
  <2>1. SumFunctionOnSet(f, U) >= 0
    BY <1>1, SumNat
  <2>2. SumFunctionOnSet(f, T) >= 0
    BY <1>1, SumNat
  <2> QED BY <2>1, <2>2
<1>5. \A a, b, c \in Int : a = b + c /\ c >= 0 => b <= a
  OBVIOUS
<1> QED BY <1>2, <1>3, <1>4, <1>5

LEMMA SumBounded ==
  ASSUME NEW f, NEW e, NEW S, Summable(f, S), Summable(e, S),
         \A x \in S : -e[x] <= f[x] /\ f[x] <= e[x]
  PROVE  /\ -SumFunctionOnSet(e, S) <= SumFunctionOnSet(f, S)
         /\ SumFunctionOnSet(f, S) <= SumFunctionOnSet(e, S)
<1> DEFINE over  == [x \in S |-> e[x] + f[x]]
           under == [x \in S |-> -f[x]]
           less  == [x \in S |-> e[x] + under[x]]
<1>1. /\ Summable(over, S) /\ \A x \in S : over[x] = e[x] + f[x] /\ over[x] >= 0
      /\ Summable(under, S) /\ \A x \in S : under[x] = -f[x]
      /\ Summable(less, S) /\ \A x \in S : less[x] = e[x] + under[x] /\ less[x] >= 0
  BY DEF Summable
<1> HIDE DEF over, under, less
<1>2. SumFunctionOnSet(over, S) = SumFunctionOnSet(e, S) + SumFunctionOnSet(f, S)
  BY <1>1, SumPlus
<1>3. SumFunctionOnSet(under, S) = -SumFunctionOnSet(f, S)
  BY <1>1, SumNegative
<1>4. SumFunctionOnSet(less, S) = SumFunctionOnSet(e, S) + SumFunctionOnSet(under, S)
  BY <1>1, SumPlus
<1>5. SumFunctionOnSet(over, S) >= 0 /\ SumFunctionOnSet(less, S) >= 0
  BY <1>1, SumNat
<1>6. SumFunctionOnSet(e, S) \in Int /\ SumFunctionOnSet(f, S) \in Int
  BY SumType
<1>7. \A a, b \in Int : a + b >= 0 /\ a + (-b) >= 0 => -a <= b /\ b <= a
  OBVIOUS
<1> QED BY <1>2, <1>3, <1>4, <1>5, <1>6, <1>7

(* A sum over pairs is one of sums.                                         *)
Tagged(n, S) == {<<n, e>> : e \in S}

AllTagged(I, S) == UNION {Tagged(n, S[n]) : n \in I}

LEMMA SumOfTagged ==
  ASSUME NEW f, NEW n, NEW S, IsFiniteSet(S), \A e \in S : f[<<n, e>>] \in Int,
         NEW h, \A e \in S : h[e] = f[<<n, e>>]
  PROVE  /\ Summable(f, Tagged(n, S))
         /\ SumFunctionOnSet(f, Tagged(n, S)) = SumFunctionOnSet(h, S)
<1> DEFINE Good ==
             {T \in SUBSET S :
                /\ Summable(f, Tagged(n, T))
                /\ SumFunctionOnSet(f, Tagged(n, T)) = SumFunctionOnSet(h, T)}
<1>1. {} \in Good
  <2>1. Tagged(n, {}) = {}
    BY DEF Tagged
  <2>2. Summable(f, {})
    BY FS_EmptySet DEF Summable
  <2> QED BY <2>1, <2>2, SumEmpty
<1>2. ASSUME NEW T \in SUBSET S, NEW x \in T, T \ {x} \in Good PROVE T \in Good
  <2>1. /\ Tagged(n, T) = Tagged(n, T \ {x}) \cup {<<n, x>>} /\ <<n, x>> \in Tagged(n, T)
        /\ Tagged(n, T) \ {<<n, x>>} = Tagged(n, T \ {x})
        /\ \A p \in Tagged(n, T) : f[p] \in Int
    BY DEF Tagged
  <2>2. Summable(f, Tagged(n, T))
    <3>1. IsFiniteSet(Tagged(n, T \ {x}))
      BY <1>2 DEF Summable
    <3>2. IsFiniteSet(Tagged(n, T \ {x}) \cup {<<n, x>>})
      <4> PICK p : p = <<n, x>>
        OBVIOUS
      <4>1. IsFiniteSet(Tagged(n, T \ {x}) \cup {p})
        BY <3>1, FS_AddElement
      <4> QED BY <4>1
    <3> QED BY <2>1, <3>2 DEF Summable
  <2>3. SumFunctionOnSet(f, Tagged(n, T)) = f[<<n, x>>] + SumFunctionOnSet(f, Tagged(n, T \ {x}))
    <3> PICK p : p = <<n, x>>
      OBVIOUS
    <3>1. SumFunctionOnSet(f, Tagged(n, T)) = f[p] + SumFunctionOnSet(f, Tagged(n, T) \ {p})
      <4> PICK U : U = Tagged(n, T)
        OBVIOUS
      <4>1. Summable(f, U) /\ p \in U
        BY <2>1, <2>2
      <4>2. SumFunctionOnSet(f, U) = f[p] + SumFunctionOnSet(f, U \ {p})
        BY <4>1, SumSplit
      <4> QED BY <4>2
    <3> QED BY <3>1, <2>1
  <2>4. SumFunctionOnSet(h, T) = h[x] + SumFunctionOnSet(h, T \ {x})
    <3>1. Summable(h, T)
      BY FS_Subset DEF Summable
    <3> QED BY <3>1, SumSplit
  <2>5. SumFunctionOnSet(f, Tagged(n, T)) = SumFunctionOnSet(h, T)
    <3>1. h[x] = f[<<n, x>>]
          /\ SumFunctionOnSet(f, Tagged(n, T \ {x})) = SumFunctionOnSet(h, T \ {x})
      BY <1>2
    <3> QED BY <2>3, <2>4, <3>1
  <2> QED BY <2>2, <2>5
<1>3. \A T \in SUBSET S : T \in Good
  <2>1. \A T \in SUBSET S : \A x \in T : T \ {x} \in Good => T \in Good
    BY <1>2
  <2> HIDE DEF Good
  <2> QED BY <1>1, <2>1, SubsetInduction
<1> QED BY <1>3

LEMMA SumOfPairs ==
  ASSUME NEW I, IsFiniteSet(I), NEW f, NEW S, NEW h,
         \A n \in I : /\ Summable(f, Tagged(n, S[n]))
                      /\ SumFunctionOnSet(f, Tagged(n, S[n])) = h[n]
  PROVE  /\ Summable(f, AllTagged(I, S))
         /\ Summable(h, I)
         /\ SumFunctionOnSet(f, AllTagged(I, S)) = SumFunctionOnSet(h, I)
<1> DEFINE Good ==
             {J \in SUBSET I :
                /\ Summable(f, AllTagged(J, S))
                /\ SumFunctionOnSet(f, AllTagged(J, S)) = SumFunctionOnSet(h, J)}
<1>1. Summable(h, I)
  <2>1. \A n \in I : /\ Summable(f, Tagged(n, S[n]))
                     /\ SumFunctionOnSet(f, Tagged(n, S[n])) = h[n]
    OBVIOUS
  <2>2. \A n \in I : h[n] \in Int
    BY <2>1, SumType
  <2> QED BY <2>2 DEF Summable
<1>2. {} \in Good
  <2>1. AllTagged({}, S) = {}
    BY DEF AllTagged
  <2>2. Summable(f, {})
    BY FS_EmptySet DEF Summable
  <2> QED BY <2>1, <2>2, SumEmpty
<1>3. ASSUME NEW J \in SUBSET I, NEW n \in J, J \ {n} \in Good PROVE J \in Good
  <2>1. Summable(f, Tagged(n, S[n])) /\ SumFunctionOnSet(f, Tagged(n, S[n])) = h[n]
    OBVIOUS
  <2>2. /\ AllTagged(J, S) = Tagged(n, S[n]) \cup AllTagged(J \ {n}, S)
        /\ Tagged(n, S[n]) \cap AllTagged(J \ {n}, S) = {}
    BY DEF AllTagged, Tagged
  <2>3. Summable(f, AllTagged(J \ {n}, S))
        /\ SumFunctionOnSet(f, AllTagged(J \ {n}, S)) = SumFunctionOnSet(h, J \ {n})
    BY <1>3
  <2>4. Summable(f, AllTagged(J, S))
    <3>1. IsFiniteSet(Tagged(n, S[n])) /\ IsFiniteSet(AllTagged(J \ {n}, S))
      BY <2>1, <2>3 DEF Summable
    <3>2. IsFiniteSet(Tagged(n, S[n]) \cup AllTagged(J \ {n}, S))
      BY <3>1, FS_Union
    <3> QED BY <2>1, <2>2, <2>3, <3>2 DEF Summable
  <2>5. SumFunctionOnSet(f, AllTagged(J, S))
          = SumFunctionOnSet(f, Tagged(n, S[n])) + SumFunctionOnSet(f, AllTagged(J \ {n}, S))
    <3> PICK U : U = AllTagged(J \ {n}, S)
      OBVIOUS
    <3>1. Summable(f, Tagged(n, S[n]) \cup U) /\ Tagged(n, S[n]) \cap U = {}
      BY <2>2, <2>4
    <3>2. SumFunctionOnSet(f, Tagged(n, S[n]) \cup U)
            = SumFunctionOnSet(f, Tagged(n, S[n])) + SumFunctionOnSet(f, U)
      BY <3>1, SumDisjoint
    <3> QED BY <3>2, <2>2
  <2>6. SumFunctionOnSet(h, J) = h[n] + SumFunctionOnSet(h, J \ {n})
    <3>1. Summable(h, J)
      BY <1>1, FS_Subset DEF Summable
    <3> QED BY <3>1, SumSplit
  <2>7. SumFunctionOnSet(f, AllTagged(J, S)) = SumFunctionOnSet(h, J)
    BY <2>1, <2>3, <2>5, <2>6
  <2> QED BY <2>4, <2>7
<1>4. \A J \in SUBSET I : J \in Good
  <2>1. \A J \in SUBSET I : \A n \in J : J \ {n} \in Good => J \in Good
    BY <1>3
  <2> HIDE DEF Good
  <2> QED BY <1>2, <2>1, SubsetInduction
<1>5. I \in Good
  BY <1>4
<1> QED BY <1>1, <1>5
=============================================================================
