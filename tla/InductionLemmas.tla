--------------------------- MODULE InductionLemmas ---------------------------
(***************************************************************************)
(* Induction over the natural numbers and over the subsets of a finite set *)
(* in a form without operator parameters: the statement to be proved is    *)
(* the set of what it holds for.  It rests on the library's theorem that   *)
(* finite sets are well founded under inclusion.  Then the sum over a      *)
(* finite set, as the community modules fold it, does not depend on the    *)
(* order in which the elements are chosen.                                 *)
(***************************************************************************)
EXTENDS Integers, FiniteSets, FiniteSetTheorems, WellFoundedInduction, TLAPS

(* A set of natural numbers that is not empty has a least element: its     *)
(* initial segment is minimal among those of the other elements.           *)
LEMMA LeastNatural ==
  ASSUME NEW T, T \subseteq Nat, T # {}
  PROVE  \E x \in T : \A y \in T : x <= y
<1> DEFINE R        == StrictSubsetOrdering(Nat)
           Segments == {0..n : n \in T}
<1>1. IsWellFoundedOn(R, FiniteSubsetsOf(Nat))
  BY FS_StrictSubsetOrderingWellFounded
<1>2. \A n \in Nat : 0..n \in SUBSET Nat /\ IsFiniteSet(0..n)
  BY FS_Interval
<1>3. Segments \subseteq FiniteSubsetsOf(Nat) /\ Segments # {}
  BY <1>2 DEF FiniteSubsetsOf
<1> HIDE DEF Segments, R
<1>4. PICK X \in Segments : \A Y \in Segments : ~ (<<Y, X>> \in R)
  BY <1>1, <1>3, WFMin
<1> USE DEF Segments, R
<1>5. PICK x \in T : X = 0..x
  BY <1>4
<1>6. ASSUME NEW y \in T, y < x PROVE FALSE
  <2>1. 0..y \in Segments /\ 0..y \subseteq 0..x /\ x \in 0..x /\ x \notin 0..y
    BY <1>6
  <2> QED
    BY <1>2, <1>4, <1>5, <2>1 DEF StrictSubsetOrdering
<1> QED
  BY <1>6

(* And one that is bounded has a greatest.                                 *)
LEMMA GreatestNatural ==
  ASSUME NEW T, T \subseteq Nat, T # {}, NEW n \in Nat, \A x \in T : x <= n
  PROVE  \E x \in T : \A y \in T : x >= y
<1> DEFINE Gaps == {n - x : x \in T}
<1>1. Gaps \subseteq Nat /\ Gaps # {}
  <2>1. \A x \in T : n - x \in Nat
    OBVIOUS
  <2> QED
    BY <2>1
<1> HIDE DEF Gaps
<1>2. PICK g \in Gaps : \A h \in Gaps : g <= h
  BY <1>1, LeastNatural
<1> USE DEF Gaps
<1>3. PICK x \in T : g = n - x
  BY <1>2
<1>4. ASSUME NEW y \in T PROVE x >= y
  <2>1. x \in Nat /\ y \in Nat /\ n - x <= n - y
    BY <1>2, <1>3, <1>4
  <2> HIDE DEF Gaps
  <2> QED
    BY <2>1
<1> QED
  BY <1>4

(* Induction up to n.                                                      *)
LEMMA UpTo ==
  ASSUME NEW n \in Nat, NEW S,
         0 \in S, \A i \in 0..n : i # n /\ i \in S => i + 1 \in S
  PROVE  0..n \subseteq S
<1> DEFINE T == (0..n) \ S
<1> SUFFICES ASSUME T # {} PROVE FALSE
  OBVIOUS
<1>1. T \subseteq Nat
  OBVIOUS
<1> HIDE DEF T
<1>2. PICK x \in T : \A y \in T : x <= y
  BY <1>1, LeastNatural
<1> USE DEF T
<1>3. x \in 1..n /\ x - 1 \in 0..n /\ x - 1 \notin T
  BY <1>2
<1> QED
  BY <1>3

(* The number after i, up to n.                                            *)
LEMMA NextNumber ==
  ASSUME NEW n \in Nat, NEW i \in 0..n, i # n
  PROVE  i + 1 \in 1..n /\ i + 1 \in 0..n /\ i + 1 # 0 /\ (i + 1) - 1 = i
  OBVIOUS

(* Induction over the subsets of S.                                        *)
LEMMA SubsetInduction ==
  ASSUME NEW S, IsFiniteSet(S), NEW P,
         \A s \in SUBSET S : (\A x \in s : s \ {x} \in P) => s \in P
  PROVE  SUBSET S \subseteq P
<1> DEFINE R   == StrictSubsetOrdering(S)
           Bad == (SUBSET S) \ P
<1> SUFFICES ASSUME Bad # {} PROVE FALSE
  OBVIOUS
<1>1. IsWellFoundedOn(R, FiniteSubsetsOf(S))
  BY FS_StrictSubsetOrderingWellFounded
<1>2. \A s \in SUBSET S : IsFiniteSet(s)
  BY FS_Subset
<1>3. Bad \subseteq FiniteSubsetsOf(S)
  BY <1>2 DEF FiniteSubsetsOf
<1> HIDE DEF Bad, R
<1>4. PICK s \in Bad : \A t \in Bad : ~ (<<t, s>> \in R)
  BY <1>1, <1>3, WFMin
<1> USE DEF Bad, R
<1>5. ASSUME NEW x \in s PROVE s \ {x} \in P
  <2>1. s \ {x} \in SUBSET S /\ s \ {x} # s /\ s \ {x} \subseteq s
    BY <1>5
  <2>2. <<s \ {x}, s>> \in R
    BY <1>2, <2>1 DEF StrictSubsetOrdering
  <2> QED
    BY <1>4, <2>1, <2>2
<1> QED
  BY <1>5

-----------------------------------------------------------------------------
(* Sums: g gives each subset of S the sum of the weights of its elements.  *)

SumStep(weight, g, s) ==
  IF s = {} THEN 0
  ELSE LET x == CHOOSE x \in s : TRUE IN weight[x] + g[s \ {x}]
IsSum(weight, g, S) == g = [s \in SUBSET S |-> SumStep(weight, g, s)]

(* The recursive definition is a function: by induction on the size of the *)
(* subsets.                                                                *)
Small(S, m) == {s \in SUBSET S : Cardinality(s) <= m}
IsSumUpTo(weight, g, S, m) == g = [s \in Small(S, m) |-> SumStep(weight, g, s)]

\* Every finite set has a sum of its weights.
LEMMA SumExists ==
  ASSUME NEW S, IsFiniteSet(S), NEW weight
  PROVE  \E g : IsSum(weight, g, S)
<1> DEFINE n == Cardinality(S)
           D == {m \in 0..n : \E g : IsSumUpTo(weight, g, S, m)}
<1>1. n \in Nat
  BY FS_CardinalityType
<1>2. \A s \in SUBSET S : IsFiniteSet(s) /\ Cardinality(s) \in Nat /\ Cardinality(s) <= n
  BY FS_Subset, FS_CardinalityType
<1>3. 0 \in D
  <2> DEFINE g == [s \in Small(S, 0) |-> 0]
  <2>1. \A s \in Small(S, 0) : s = {}
    BY <1>2, FS_EmptySet DEF Small
  <2>2. IsSumUpTo(weight, g, S, 0)
    BY <2>1 DEF SumStep, IsSumUpTo
  <2> HIDE DEF g
  <2> QED
    BY <1>1, <2>2
<1>4. ASSUME NEW m \in 0..n, m # n, m \in D
      PROVE  m + 1 \in D
  <2>1. PICK g : IsSumUpTo(weight, g, S, m)
    BY <1>4
  <2> DEFINE h == [s \in Small(S, m + 1) |-> SumStep(weight, g, s)]
  <2>2. ASSUME NEW s \in Small(S, m + 1) PROVE h[s] = SumStep(weight, h, s)
    <3>1. CASE s = {}
      BY <3>1 DEF SumStep
    <3>2. CASE s # {}
      <4> DEFINE x == CHOOSE x \in s : TRUE
                 r == s \ {x}
      <4>1. x \in s
        BY <3>2
      <4>2. r \in SUBSET S /\ Cardinality(r) = Cardinality(s) - 1
        BY <1>2, <4>1, FS_RemoveElement DEF Small
      <4>3. r \in Small(S, m) /\ r \in Small(S, m + 1)
        BY <1>1, <1>2, <4>2 DEF Small
      <4>4. h[r] = SumStep(weight, g, r) /\ g[r] = SumStep(weight, g, r)
        <5>1. h[r] = SumStep(weight, g, r)
          BY <4>3
        <5> HIDE DEF h, r
        <5>2. g[r] = SumStep(weight, g, r)
          BY <2>1, <4>3 DEF IsSumUpTo
        <5> QED
          BY <5>1, <5>2
      <4>5. h[s] = SumStep(weight, g, s)
        OBVIOUS
      <4> HIDE DEF h
      <4> QED
        BY <3>2, <4>4, <4>5 DEF SumStep
    <3> QED
      BY <3>1, <3>2
  <2>3. IsSumUpTo(weight, h, S, m + 1)
    BY <2>2 DEF IsSumUpTo
  <2> HIDE DEF h
  <2>4. m + 1 \in 0..n
    BY <1>1, <1>4
  <2> QED
    BY <2>3, <2>4
<1> HIDE DEF D
<1>5. 0..n \subseteq D
  BY <1>1, <1>3, <1>4, UpTo
<1> USE DEF D
<1>6. n \in D
  BY <1>1, <1>5
<1>7. PICK g : IsSumUpTo(weight, g, S, n)
  BY <1>6
<1>8. Small(S, n) = SUBSET S
  BY <1>2 DEF Small
<1> QED
  BY <1>7, <1>8 DEF IsSum, IsSumUpTo

(* Two sums of the same weights are the same.                              *)
LEMMA SumsAgree ==
  ASSUME NEW S, IsFiniteSet(S), NEW weight, NEW g, IsSum(weight, g, S),
         NEW T \in SUBSET S, NEW v, NEW h, IsSum(v, h, T),
         \A x \in T : v[x] = weight[x]
  PROVE  \A s \in SUBSET T : h[s] = g[s]
<1> DEFINE P == {s \in SUBSET T : h[s] = g[s]}
<1>1. ASSUME NEW s \in SUBSET T, \A x \in s : s \ {x} \in P
      PROVE  s \in P
  <2>1. h[s] = SumStep(v, h, s)
    BY DEF IsSum
  <2>2. s \in SUBSET S /\ g[s] = SumStep(weight, g, s)
    BY DEF IsSum
  <2>3. SumStep(v, h, s) = SumStep(weight, g, s)
    <3>1. CASE s = {}
      BY <3>1 DEF SumStep
    <3>2. CASE s # {}
      <4> DEFINE x == CHOOSE x \in s : TRUE
      <4>1. x \in s
        BY <3>2
      <4>2. h[s \ {x}] = g[s \ {x}] /\ v[x] = weight[x]
        BY <1>1, <4>1
      <4> QED
        BY <3>2, <4>2 DEF SumStep
    <3> QED
      BY <3>1, <3>2
  <2> QED
    BY <2>1, <2>2, <2>3
<1>2. IsFiniteSet(T)
  BY FS_Subset
<1> HIDE DEF P
<1>3. SUBSET T \subseteq P
  BY <1>1, <1>2, SubsetInduction
<1> QED
  BY <1>3 DEF P

(* Any element can be taken out of a sum of integers first.                *)
LEMMA SumSplits ==
  ASSUME NEW S, IsFiniteSet(S), NEW weight, \A x \in S : weight[x] \in Int,
         NEW g, IsSum(weight, g, S)
  PROVE  /\ g[{}] = 0
         /\ \A s \in SUBSET S : g[s] \in Int /\ \A x \in s : g[s] = weight[x] + g[s \ {x}]
<1>0. \A s \in SUBSET S : g[s] = SumStep(weight, g, s)
  BY DEF IsSum
<1>1. g[{}] = 0
  BY <1>0 DEF SumStep
<1>2. \A s \in SUBSET S : g[s] \in Int
  <2> DEFINE P == {s \in SUBSET S : g[s] \in Int}
  <2>1. ASSUME NEW s \in SUBSET S, \A x \in s : s \ {x} \in P
        PROVE  s \in P
    <3>1. CASE s = {}
      BY <1>1, <3>1
    <3>2. CASE s # {}
      <4> DEFINE y == CHOOSE y \in s : TRUE
      <4>1. y \in s
        BY <3>2
      <4>2. g[s] = weight[y] + g[s \ {y}]
        BY <1>0, <3>2 DEF SumStep
      <4> HIDE DEF y
      <4> QED
        BY <2>1, <4>1, <4>2
    <3> QED
      BY <3>1, <3>2
  <2> HIDE DEF P
  <2>2. SUBSET S \subseteq P
    BY <2>1, SubsetInduction
  <2> QED
    BY <2>2 DEF P
<1> DEFINE P == {s \in SUBSET S : \A x \in s : g[s] = weight[x] + g[s \ {x}]}
<1>3. ASSUME NEW s \in SUBSET S, \A x \in s : s \ {x} \in P, NEW x \in s
      PROVE  g[s] = weight[x] + g[s \ {x}]
  <2> DEFINE y == CHOOSE y \in s : TRUE
  <2>1. y \in s
    OBVIOUS
  <2>2. g[s] = weight[y] + g[s \ {y}]
    BY <1>0, <1>3 DEF SumStep
  <2> HIDE DEF y
  <2>3. CASE x = y
    BY <2>2, <2>3
  <2>4. CASE x # y
    <3> DEFINE rest == (s \ {y}) \ {x}
    <3>1. g[s \ {y}] = weight[x] + g[rest]
      BY <1>3, <2>1, <2>4
    <3>2. rest = (s \ {x}) \ {y} /\ rest \in SUBSET S
      OBVIOUS
    <3>3. g[s \ {x}] = weight[y] + g[rest]
      BY <1>3, <2>1, <2>4, <3>2
    <3>4. g[rest] \in Int
      BY <1>2, <3>2
    <3>5. weight[x] \in Int /\ weight[y] \in Int
      BY <2>1
    <3> HIDE DEF rest
    <3> QED
      BY <2>2, <3>1, <3>3, <3>4, <3>5
  <2> QED
    BY <2>3, <2>4
<1>4. \A s \in SUBSET S : (\A x \in s : s \ {x} \in P) => s \in P
  BY <1>3
<1> HIDE DEF P
<1>5. SUBSET S \subseteq P
  BY <1>4, SubsetInduction
<1> QED
  BY <1>1, <1>2, <1>5 DEF P
=============================================================================
