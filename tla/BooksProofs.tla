----------------------------- MODULE BooksProofs -----------------------------
(***************************************************************************)
(* Proofs about books, which are sums.  EventClose: the books of an event   *)
(* are sound and what the evidence script certifies is complete, for any    *)
(* orders, requests, corrections, declarations, closes and reopenings.      *)
(* EventSimulation: stocks, goods and effects balance in every run of the   *)
(* simulator, and a run that has drained passes, for any scenario whose     *)
(* figures are valid, any number of bars and any capacities.                *)
(***************************************************************************)
EXTENDS EventClose, EventSimulation, InductionLemmas

-----------------------------------------------------------------------------
(* Sums.  Those of the reports are sums in the sense of InductionLemmas.    *)

\* The fold of the community modules is such a sum.
LEMMA SumIsFold ==
  ASSUME NEW S, IsFiniteSet(S), NEW f
  PROVE  \E g : IsSum(f, g, S) /\ SumFunctionOnSet(f, S) = g[S]
<1> DEFINE Iter(g, s) == IF s = {} THEN 0
                         ELSE LET x == CHOOSE x \in s : TRUE IN f[x] + g[s \ {x}]
           h == CHOOSE g : g = [s \in SUBSET S |-> Iter(g, s)]
<1>1. ASSUME NEW g PROVE [s \in SUBSET S |-> Iter(g, s)] = [s \in SUBSET S |-> SumStep(f, g, s)]
  BY DEF SumStep
<1>2. PICK g : IsSum(f, g, S)
  BY SumExists
<1>3. g = [s \in SUBSET S |-> Iter(g, s)]
  BY <1>1, <1>2 DEF IsSum
<1>4. h = [s \in SUBSET S |-> Iter(h, s)]
  BY <1>3
<1>5. SumFunctionOnSet(f, S) = h[S]
  BY DEF SumFunctionOnSet, FoldFunctionOnSet, MapThenFoldSet
<1>6. IsSum(f, h, S)
  BY <1>1, <1>4 DEF IsSum
<1> QED
  BY <1>5, <1>6

\* The empty sum.
LEMMA SumOfNone == ASSUME NEW f PROVE SumFunctionOnSet(f, {}) = 0
<1>1. PICK g : IsSum(f, g, {}) /\ SumFunctionOnSet(f, {}) = g[{}]
  BY SumIsFold, FS_EmptySet
<1> QED
  BY <1>1 DEF IsSum, SumStep

\* The same values have the same sum.
LEMMA SameSum ==
  ASSUME NEW S, IsFiniteSet(S), NEW f, NEW h, \A x \in S : f[x] = h[x]
  PROVE  SumFunctionOnSet(f, S) = SumFunctionOnSet(h, S)
<1>1. PICK g : IsSum(f, g, S) /\ SumFunctionOnSet(f, S) = g[S]
  BY SumIsFold
<1>2. PICK k : IsSum(h, k, S) /\ SumFunctionOnSet(h, S) = k[S]
  BY SumIsFold
<1>3. \A s \in SUBSET S : k[s] = g[s]
  BY <1>1, <1>2, SumsAgree
<1> QED
  BY <1>1, <1>2, <1>3

\* A sum is a whole number, from which any element can be taken.
LEMMA SumLess ==
  ASSUME NEW S, IsFiniteSet(S), NEW f, \A x \in S : f[x] \in Int
  PROVE  /\ SumFunctionOnSet(f, S) \in Int
         /\ \A x \in S : SumFunctionOnSet(f, S) = f[x] + SumFunctionOnSet(f, S \ {x})
<1>1. PICK g : IsSum(f, g, S) /\ SumFunctionOnSet(f, S) = g[S]
  BY SumIsFold
<1>2. \A s \in SUBSET S : g[s] \in Int /\ \A x \in s : g[s] = f[x] + g[s \ {x}]
  BY <1>1, SumSplits
<1>3. ASSUME NEW x \in S
      PROVE  SumFunctionOnSet(f, S \ {x}) = g[S \ {x}]
  <2> DEFINE T == S \ {x}
  <2>1. IsFiniteSet(T) /\ T \in SUBSET S
    BY FS_Subset
  <2> HIDE DEF T
  <2>2. PICK h : IsSum(f, h, T) /\ SumFunctionOnSet(f, T) = h[T]
    BY <2>1, SumIsFold
  <2>3. \A s \in SUBSET T : h[s] = g[s]
    BY <1>1, <2>1, <2>2, SumsAgree
  <2>4. SumFunctionOnSet(f, T) = g[T]
    BY <2>2, <2>3
  <2> QED
    BY <2>4 DEF T
<1>4. g[S] \in Int /\ \A x \in S : g[S] = f[x] + g[S \ {x}]
  BY <1>2
<1> QED
  BY <1>1, <1>3, <1>4

\* An element more adds its value.
LEMMA SumMore ==
  ASSUME NEW S, IsFiniteSet(S), NEW f, \A x \in S : f[x] \in Int,
         NEW x, x \notin S, f[x] \in Int
  PROVE  SumFunctionOnSet(f, S \cup {x}) = SumFunctionOnSet(f, S) + f[x]
<1>1. IsFiniteSet(S \cup {x}) /\ (S \cup {x}) \ {x} = S /\ \A y \in S \cup {x} : f[y] \in Int
  BY FS_AddElement
<1>2. SumFunctionOnSet(f, S \cup {x}) = f[x] + SumFunctionOnSet(f, S)
  BY <1>1, SumLess
<1>3. SumFunctionOnSet(f, S) \in Int
  BY SumLess
<1> QED
  BY <1>2, <1>3

\* Values that are not negative have such a sum.
LEMMA SumIsPositive ==
  ASSUME NEW S, IsFiniteSet(S), NEW f, \A x \in S : f[x] \in Nat
  PROVE  SumFunctionOnSet(f, S) \in Nat
<1> DEFINE P == {s \in SUBSET S : SumFunctionOnSet(f, s) \in Nat}
<1>1. ASSUME NEW s \in SUBSET S, \A x \in s : s \ {x} \in P PROVE s \in P
  <2>1. CASE s = {}
    BY <2>1, SumOfNone
  <2>2. CASE s # {}
    <3>1. PICK x \in s : TRUE
      BY <2>2
    <3>2. IsFiniteSet(s) /\ \A y \in s : f[y] \in Int
      BY FS_Subset
    <3>3. SumFunctionOnSet(f, s) = f[x] + SumFunctionOnSet(f, s \ {x})
      BY <3>2, SumLess
    <3>4. f[x] \in Nat /\ SumFunctionOnSet(f, s \ {x}) \in Nat
      BY <1>1
    <3> QED
      BY <3>3, <3>4
  <2> QED
    BY <2>1, <2>2
<1> HIDE DEF P
<1>2. SUBSET S \subseteq P
  BY <1>1, SubsetInduction
<1> QED
  BY <1>2 DEF P

\* The sum of differences is the difference of the sums.
LEMMA SumOfDifferences ==
  ASSUME NEW S, IsFiniteSet(S), NEW f, NEW g, NEW h,
         \A x \in S : f[x] \in Int /\ g[x] \in Int /\ h[x] = f[x] - g[x]
  PROVE  SumFunctionOnSet(h, S) = SumFunctionOnSet(f, S) - SumFunctionOnSet(g, S)
<1> DEFINE P == {s \in SUBSET S :
                   SumFunctionOnSet(h, s) = SumFunctionOnSet(f, s) - SumFunctionOnSet(g, s)}
<1>1. ASSUME NEW s \in SUBSET S, \A x \in s : s \ {x} \in P PROVE s \in P
  <2>1. CASE s = {}
    BY <2>1, SumOfNone
  <2>2. CASE s # {}
    <3>1. PICK x \in s : TRUE
      BY <2>2
    <3>2. /\ IsFiniteSet(s) /\ IsFiniteSet(s \ {x})
          /\ \A y \in s : f[y] \in Int /\ g[y] \in Int /\ h[y] \in Int
          /\ \A y \in s \ {x} : f[y] \in Int /\ g[y] \in Int
      BY FS_Subset
    <3>3. /\ SumFunctionOnSet(f, s) = f[x] + SumFunctionOnSet(f, s \ {x})
          /\ SumFunctionOnSet(g, s) = g[x] + SumFunctionOnSet(g, s \ {x})
          /\ SumFunctionOnSet(h, s) = h[x] + SumFunctionOnSet(h, s \ {x})
          /\ SumFunctionOnSet(f, s \ {x}) \in Int /\ SumFunctionOnSet(g, s \ {x}) \in Int
      BY <3>2, SumLess
    <3>4. /\ h[x] = f[x] - g[x] /\ f[x] \in Int /\ g[x] \in Int
          /\ SumFunctionOnSet(h, s \ {x})
               = SumFunctionOnSet(f, s \ {x}) - SumFunctionOnSet(g, s \ {x})
      BY <1>1
    <3> QED
      BY <3>3, <3>4
  <2> QED
    BY <2>1, <2>2
<1> HIDE DEF P
<1>2. SUBSET S \subseteq P
  BY <1>1, SubsetInduction
<1> QED
  BY <1>2 DEF P

\* What is zero does not count.
LEMMA SumWithoutZeros ==
  ASSUME NEW S, IsFiniteSet(S), NEW T \in SUBSET S, NEW f,
         \A x \in S : f[x] \in Int, \A x \in S \ T : f[x] = 0
  PROVE  SumFunctionOnSet(f, S) = SumFunctionOnSet(f, T)
<1> DEFINE P == {s \in SUBSET S : SumFunctionOnSet(f, s) = SumFunctionOnSet(f, s \cap T)}
<1>1. ASSUME NEW s \in SUBSET S, \A x \in s : s \ {x} \in P PROVE s \in P
  <2>1. CASE s = {}
    <3>1. s \cap T = s
      BY <2>1
    <3> QED
      BY <3>1
  <2>2. CASE s # {}
    <3>1. PICK x \in s : TRUE
      BY <2>2
    <3> DEFINE r == s \ {x}
    <3>2. /\ IsFiniteSet(s) /\ IsFiniteSet(s \cap T) /\ IsFiniteSet(r)
          /\ \A y \in s : f[y] \in Int
      BY FS_Subset
    <3>3. SumFunctionOnSet(f, s) = f[x] + SumFunctionOnSet(f, r) /\ SumFunctionOnSet(f, r) \in Int
      BY <3>2, SumLess
    <3>4. SumFunctionOnSet(f, r) = SumFunctionOnSet(f, r \cap T)
      BY <1>1
    <3>5. CASE x \in T
      <4>1. x \in s \cap T /\ (s \cap T) \ {x} = r \cap T /\ \A y \in s \cap T : f[y] \in Int
        BY <3>5
      <4>2. SumFunctionOnSet(f, s \cap T) = f[x] + SumFunctionOnSet(f, r \cap T)
        BY <3>2, <4>1, SumLess
      <4> QED
        BY <3>3, <3>4, <4>2
    <3>6. CASE x \notin T
      <4>1. f[x] = 0 /\ s \cap T = r \cap T
        BY <3>6
      <4> HIDE DEF r, P
      <4>2. SumFunctionOnSet(f, s) = SumFunctionOnSet(f, r)
        BY <3>3, <4>1
      <4>3. SumFunctionOnSet(f, s \cap T) = SumFunctionOnSet(f, r \cap T)
        BY <4>1
      <4> QED
        BY <3>4, <4>2, <4>3 DEF P
    <3> QED
      BY <3>5, <3>6
  <2> QED
    BY <2>1, <2>2
<1> HIDE DEF P
<1>2. SUBSET S \subseteq P
  BY <1>1, SubsetInduction
<1>3. S \in P /\ S \cap T = T
  BY <1>2
<1> QED
  BY <1>3 DEF P

\* Zeros sum to zero.
LEMMA SumOfZeros ==
  ASSUME NEW S, IsFiniteSet(S), NEW f, \A x \in S : f[x] = 0
  PROVE  SumFunctionOnSet(f, S) = 0
<1>1. SumFunctionOnSet(f, S) = SumFunctionOnSet(f, {})
  BY SumWithoutZeros
<1> QED
  BY <1>1, SumOfNone

Part(S, key, t) == {x \in S : key[x] = t}
Values(f, S) == {f[x] : x \in S}

\* A sum can be taken part by part.
LEMMA SumByParts ==
  ASSUME NEW S, IsFiniteSet(S), NEW f, \A x \in S : f[x] \in Int,
         NEW key, NEW T, IsFiniteSet(T), \A x \in S : key[x] \in T,
         NEW g, \A t \in T : g[t] = SumFunctionOnSet(f, Part(S, key, t))
  PROVE  SumFunctionOnSet(g, T) = SumFunctionOnSet(f, S)
<1> DEFINE Of(s, t) == Part(s, key, t)
           By(s) == [t \in T |-> SumFunctionOnSet(f, Of(s, t))]
           P == {s \in SUBSET S : SumFunctionOnSet(By(s), T) = SumFunctionOnSet(f, s)}
<1>0. ASSUME NEW s \in SUBSET S
      PROVE  /\ IsFiniteSet(s) /\ \A x \in s : f[x] \in Int
             /\ \A t \in T : By(s)[t] = SumFunctionOnSet(f, Of(s, t)) /\ By(s)[t] \in Int
  <2>1. IsFiniteSet(s) /\ \A x \in s : f[x] \in Int
    BY FS_Subset
  <2>2. ASSUME NEW t \in T PROVE SumFunctionOnSet(f, Of(s, t)) \in Int
    <3>1. IsFiniteSet(Of(s, t)) /\ \A x \in Of(s, t) : f[x] \in Int
      BY <2>1, FS_Subset DEF Part
    <3> HIDE DEF Of
    <3> QED
      BY <3>1, SumLess
  <2> QED
    BY <2>1, <2>2
<1>1. ASSUME NEW s \in SUBSET S, \A x \in s : s \ {x} \in P PROVE s \in P
  <2>1. CASE s = {}
    <3>1. \A t \in T : Of(s, t) = {}
      BY <2>1 DEF Part
    <3>2. \A t \in T : By(s)[t] = 0
      BY <3>1, SumOfNone
    <3> HIDE DEF By
    <3>3. SumFunctionOnSet(By(s), T) = 0
      BY <3>2, SumOfZeros
    <3> QED
      BY <2>1, <3>3, SumOfNone
  <2>2. CASE s # {}
    <3>1. PICK x \in s : TRUE
      BY <2>2
    <3> DEFINE r == s \ {x}
               u == key[x]
    <3>2. r \in SUBSET S /\ u \in T
      OBVIOUS
    <3>3. SumFunctionOnSet(f, s) = f[x] + SumFunctionOnSet(f, r) /\ SumFunctionOnSet(f, r) \in Int
      <4> HIDE DEF P, By
      <4>1. IsFiniteSet(s) /\ IsFiniteSet(r) /\ \A y \in s : f[y] \in Int
        BY <1>0, <3>2
      <4> QED
        BY <4>1, SumLess
    <3>4. By(s)[u] = f[x] + By(r)[u]
      <4>1. x \in Of(s, u) /\ Of(s, u) \ {x} = Of(r, u) /\ Of(s, u) \subseteq s
        BY DEF Part
      <4>2. IsFiniteSet(Of(s, u)) /\ \A y \in Of(s, u) : f[y] \in Int
        BY <1>0, <4>1, FS_Subset
      <4> HIDE DEF Of, u, r, By
      <4>3. SumFunctionOnSet(f, Of(s, u)) = f[x] + SumFunctionOnSet(f, Of(r, u))
        BY <4>1, <4>2, SumLess
      <4> QED
        BY <1>0, <3>2, <4>3
    <3>5. \A t \in T \ {u} : By(s)[t] = By(r)[t]
      <4>1. \A t \in T \ {u} : Of(s, t) = Of(r, t)
        BY DEF Part
      <4> QED
        BY <4>1
    <3> HIDE DEF By, Of, r, u
    <3>6. IsFiniteSet(T \ {u})
      BY FS_Subset
    <3>7. SumFunctionOnSet(By(s), T \ {u}) = SumFunctionOnSet(By(r), T \ {u})
      BY <3>5, <3>6, SameSum
    <3>8. /\ SumFunctionOnSet(By(s), T) = By(s)[u] + SumFunctionOnSet(By(s), T \ {u})
          /\ SumFunctionOnSet(By(r), T) = By(r)[u] + SumFunctionOnSet(By(r), T \ {u})
      BY <1>0, <3>2, SumLess
    <3>9. SumFunctionOnSet(By(r), T \ {u}) \in Int
      BY <1>0, <3>2, <3>6, SumLess
    <3>10. SumFunctionOnSet(By(r), T) = SumFunctionOnSet(f, r)
      BY <1>1 DEF r
    <3>11. f[x] \in Int /\ By(r)[u] \in Int
      BY <1>0, <3>2
    <3>12. SumFunctionOnSet(By(s), T) = SumFunctionOnSet(f, s)
      BY <3>3, <3>4, <3>7, <3>8, <3>9, <3>10, <3>11
    <3> QED
      BY <3>12
  <2> QED
    BY <2>1, <2>2
<1> HIDE DEF P
<1>2. SUBSET S \subseteq P
  BY <1>1, SubsetInduction
<1>3. SumFunctionOnSet(By(S), T) = SumFunctionOnSet(f, S)
  BY <1>2 DEF P
<1>4. \A t \in T : By(S)[t] = g[t]
  OBVIOUS
<1> HIDE DEF By
<1>5. SumFunctionOnSet(By(S), T) = SumFunctionOnSet(g, T)
  BY <1>4, SameSum
<1> QED
  BY <1>3, <1>5

\* The values on a finite set are finitely many.
LEMMA ImageIsFinite ==
  ASSUME NEW S, IsFiniteSet(S), NEW f
  PROVE  IsFiniteSet({f[x] : x \in S})
<1> DEFINE T == {f[x] : x \in S}
           h == [x \in S |-> f[x]]
<1>1. h \in Surjection(S, T)
  BY DEF Surjection
<1> HIDE DEF h, T
<1>2. IsFiniteSet(T)
  BY <1>1, FS_Surjection
<1> QED
  BY <1>2 DEF T

\* A sum over rows, one for each key, is a sum over the keys.
LEMMA SumOverRows ==
  ASSUME NEW S, IsFiniteSet(S), NEW row, \A x, y \in S : row[x] = row[y] => x = y,
         NEW f, \A x \in S : f[x] \in Int,
         NEW g, \A x \in S : g[row[x]] = f[x]
  PROVE  SumFunctionOnSet(g, Values(row, S)) = SumFunctionOnSet(f, S)
<1> DEFINE At(s) == {row[x] : x \in s}
           P == {s \in SUBSET S : SumFunctionOnSet(g, At(s)) = SumFunctionOnSet(f, s)}
<1>1. ASSUME NEW s \in SUBSET S, \A x \in s : s \ {x} \in P PROVE s \in P
  <2>0. IsFiniteSet(s) /\ IsFiniteSet(At(s))
    BY FS_Subset, ImageIsFinite
  <2>1. CASE s = {}
    <3>1. At(s) = {}
      BY <2>1
    <3> QED
      BY <2>1, <3>1, SumOfNone
  <2>2. CASE s # {}
    <3>1. PICK x \in s : TRUE
      BY <2>2
    <3>2. row[x] \in At(s) /\ At(s) \ {row[x]} = At(s \ {x}) /\ \A y \in At(s) : g[y] \in Int
      OBVIOUS
    <3>3. SumFunctionOnSet(g, At(s \ {x})) = SumFunctionOnSet(f, s \ {x})
      BY <1>1
    <3> HIDE DEF At
    <3>4. SumFunctionOnSet(g, At(s)) = g[row[x]] + SumFunctionOnSet(g, At(s) \ {row[x]})
      BY <2>0, <3>2, SumLess
    <3>5. SumFunctionOnSet(f, s) = f[x] + SumFunctionOnSet(f, s \ {x})
      BY <2>0, SumLess
    <3> QED
      BY <3>2, <3>3, <3>4, <3>5
  <2> QED
    BY <2>1, <2>2
<1> HIDE DEF P
<1>2. SUBSET S \subseteq P
  BY <1>1, SubsetInduction
<1>3. At(S) = Values(row, S)
  BY DEF Values
<1> HIDE DEF At
<1> QED
  BY <1>2, <1>3 DEF P

\* So many are the first numbers.
LEMMA CountUpTo ==
  ASSUME NEW n \in Nat
  PROVE  IsFiniteSet(1..n) /\ Cardinality(1..n) = n
  BY FS_Interval

-----------------------------------------------------------------------------
(* The books at one moment, and the report of them.                         *)

USE EventCloseAssumptions DEF EventCloseAssumptions

\* What the tables of a moment, present or past, may contain: corrections of
\* closed orders only, which take something away.
BooksAre(d) ==
  /\ d.orders \in [Orders -> Rows({"OPEN", "CLOSED"})]
  /\ d.attempts \in [ProviderOrders -> Rows({"UNKNOWN", "SUCCEEDED", "FAILED"})]
  /\ d.adjustments \subseteq Rows(Adjustments) /\ IsFiniteSet(d.adjustments)
  /\ d.declarations \subseteq Rows(Declarations) /\ IsFiniteSet(d.declarations)
  /\ \A r \in d.adjustments : r.value.order \in Closed(d) /\ r.value.amount \in Nat

\* Places, register and cashiers of orders are finitely many.
LEMMA PlacesAreFinite ==
  ASSUME NEW S \in SUBSET Orders
  PROVE  IsFiniteSet(S) /\ IsFiniteSet({Place[o] : o \in S})
<1>1. IsFiniteSet(S)
  BY FS_Subset
<1> QED
  BY <1>1, ImageIsFinite

\* What an order was reduced by is a number, and nothing while it is open.
LEMMA ReducedType ==
  ASSUME NEW d, BooksAre(d), NEW o, NEW kinds
  PROVE  Reduced(d, o, kinds) \in Nat /\ (o \notin Closed(d) => Reduced(d, o, kinds) = 0)
<1> DEFINE R == Reducing(d, o, kinds)
           w == [r \in R |-> r.value.amount]
<1>1. IsFiniteSet(R) /\ \A r \in R : r.value.amount \in Nat
  BY FS_Subset DEF Reducing, BooksAre
<1>2. o \notin Closed(d) => R = {}
  BY DEF Reducing, BooksAre
<1>3. \A r \in R : w[r] \in Nat
  BY <1>1
<1>4. Reduced(d, o, kinds) = SumFunctionOnSet(w, R)
  BY DEF Reduced, SumFunction
<1> HIDE DEF w, R
<1>5. SumFunctionOnSet(w, R) \in Nat
  BY <1>1, <1>3, SumIsPositive
<1>6. R = {} => SumFunctionOnSet(w, R) = 0
  BY SumOfNone
<1> QED
  BY <1>2, <1>4, <1>5, <1>6

\* So is what it was sold for.
LEMMA NetType ==
  ASSUME NEW d, BooksAre(d), NEW o \in Orders
  PROVE  Net(d)[o] = Total[o] - Reduced(d, o, Reductions) /\ Net(d)[o] \in Int
<1>1. Reduced(d, o, Reductions) \in Nat /\ Total[o] \in Nat
  BY ReducedType
<1> QED
  BY <1>1 DEF Net

\* Net sales are those of the closed orders.
LEMMA NetSalesAre ==
  ASSUME NEW d, BooksAre(d)
  PROVE  /\ NetSales(d) = SumFunctionOnSet(Net(d), Closed(d))
         /\ NetSales(d) \in Int /\ ElectronicTender(d) \in Int
<1> DEFINE w == [o \in Orders |-> Reduced(d, o, Reductions)]
           C == Closed(d)
<1>1. C \in SUBSET Orders /\ IsFiniteSet(C) /\ Settled(d) \in SUBSET Orders /\ IsFiniteSet(Settled(d))
  BY FS_Subset DEF Closed, Settled
<1>2. \A o \in Orders : /\ w[o] \in Int /\ Total[o] \in Int /\ Net(d)[o] = Total[o] - w[o]
                        /\ Net(d)[o] \in Int
                        /\ o \notin C => w[o] = 0
  BY ReducedType, NetType
<1>3. NetSales(d) = SumFunctionOnSet(Total, C) - SumFunctionOnSet(w, Orders)
  BY DEF NetSales, GrossSales, SumFunction
<1> HIDE DEF w, C
<1>4. SumFunctionOnSet(w, Orders) = SumFunctionOnSet(w, C)
  BY <1>1, <1>2, SumWithoutZeros
<1>5. SumFunctionOnSet(Net(d), C) = SumFunctionOnSet(Total, C) - SumFunctionOnSet(w, C)
  BY <1>1, <1>2, SumOfDifferences
<1>6. SumFunctionOnSet(Net(d), C) \in Int
  BY <1>1, <1>2, SumLess
<1>7. SumFunctionOnSet(Total, Settled(d)) \in Int
  BY <1>1, <1>2, SumLess
<1> QED
  BY <1>3, <1>4, <1>5, <1>6, <1>7 DEF ElectronicTender, C

\* The drilldowns of some places add up to the net sales at these places.
LEMMA DrilldownsAddUp ==
  ASSUME NEW d, BooksAre(d), NEW f, f.drilldowns = Drilldowns(d), NEW places
  PROVE  NetAt(f, places) = SumFunctionOnSet(Net(d), {o \in Closed(d) : Place[o] \in places})
<1> DEFINE C == Closed(d)
           S == {o \in C : Place[o] \in places}
           Q == {Place[o] : o \in S}
           At(p) == SumFunctionOnSet(Net(d), {o \in C : Place[o] = p})
           w == [p \in Q |-> At(p)]
           row == [p \in Q |-> [place |-> p, count |-> Cardinality({o \in C : Place[o] = p}),
                                net |-> At(p)]]
           R == {x \in Drilldowns(d) : x.place \in places}
           g == [x \in R |-> x.net]
<1>1. C \in SUBSET Orders /\ S \in SUBSET Orders
  BY DEF Closed
<1>2. IsFiniteSet(S) /\ IsFiniteSet(Q)
  BY <1>1, PlacesAreFinite
<1>3. R = Values(row, Q)
  <2> DEFINE line(p) == [place |-> p, count |-> Cardinality({o \in C : Place[o] = p}),
                         net |-> At(p)]
  <2>1. Drilldowns(d) = {line(p) : p \in {Place[o] : o \in C}}
    BY DEF Drilldowns
  <2>2. \A p : line(p).place = p
    OBVIOUS
  <2>3. \A p \in Q : row[p] = line(p)
    OBVIOUS
  <2> HIDE DEF row, line
  <2>4. R = {line(p) : p \in Q}
    BY <2>1, <2>2
  <2> QED
    BY <2>3, <2>4 DEF Values
<1>4. /\ \A p \in Q : row[p].place = p /\ row[p].net = w[p]
      /\ \A p \in Q : row[p] \in R /\ g[row[p]] = w[p]
  BY <1>3 DEF Values
<1>5. \A o \in Orders : Net(d)[o] \in Int
  BY NetType
<1>6. \A p \in Q : w[p] = SumFunctionOnSet(Net(d), Part(S, Place, p)) /\ w[p] \in Int
  <2> SUFFICES ASSUME NEW p \in Q
               PROVE  w[p] = SumFunctionOnSet(Net(d), Part(S, Place, p)) /\ w[p] \in Int
    OBVIOUS
  <2>1. {o \in C : Place[o] = p} = Part(S, Place, p)
    BY DEF Part
  <2>2. w[p] = SumFunctionOnSet(Net(d), Part(S, Place, p))
    BY <2>1
  <2> DEFINE T == Part(S, Place, p)
  <2>3. IsFiniteSet(T) /\ \A o \in T : Net(d)[o] \in Int
    BY <1>1, <1>2, <1>5, FS_Subset DEF Part
  <2> HIDE DEF T, w
  <2>4. SumFunctionOnSet(Net(d), T) \in Int
    BY <2>3, SumLess
  <2> QED
    BY <2>2, <2>4 DEF T
<1>7. NetAt(f, places) = SumFunctionOnSet(g, R)
  BY DEF NetAt, SumFunction
<1>8. /\ \A o \in S : Net(d)[o] \in Int /\ Place[o] \in Q
      /\ \A p, q \in Q : row[p] = row[q] => p = q
  BY <1>1, <1>4, <1>5
<1> HIDE DEF w, row, R, g, Q, S, C
<1>9. SumFunctionOnSet(g, R) = SumFunctionOnSet(w, Q)
  BY <1>2, <1>3, <1>4, <1>6, <1>8, SumOverRows
<1>10. SumFunctionOnSet(w, Q) = SumFunctionOnSet(Net(d), S)
  BY <1>2, <1>6, <1>8, SumByParts
<1> QED
  BY <1>7, <1>9, <1>10 DEF S, C

\* The cash expected at all places is that of all cash orders.
LEMMA CashExpectedAddsUp ==
  ASSUME NEW d, BooksAre(d)
  PROVE  /\ CashSummary(d).expected = SumFunctionOnSet(Net(d), Closed(d) \cap CashOrders)
         /\ IsFiniteSet(CashScopes(d))
<1> DEFINE S == Closed(d) \cap CashOrders
           D == CashDeclared(d)
           T == CashScopes(d)
           w == [s \in T |-> CashExpectedAt(d, s)]
<1>1. S \in SUBSET Orders
  BY DEF Closed
<1>2. IsFiniteSet(S) /\ IsFiniteSet({Place[o] : o \in S})
  BY <1>1, PlacesAreFinite
<1>3. IsFiniteSet(T)
  <2> DEFINE scope == [r \in D |-> r.value.scope]
             U == {scope[r] : r \in D}
  <2>1. IsFiniteSet(D)
    BY FS_Subset DEF CashDeclared, BooksAre
  <2>2. T = {Place[o] : o \in S} \cup U
    BY DEF CashScopes
  <2> HIDE DEF D, scope, S, T
  <2>3. IsFiniteSet(U)
    BY <2>1, ImageIsFinite
  <2> QED
    BY <1>2, <2>2, <2>3, FS_Union
<1>4. CashSummary(d).expected = SumFunctionOnSet(w, T)
  BY DEF CashSummary, SumFunction
<1>5. /\ \A o \in S : Net(d)[o] \in Int /\ Place[o] \in T
      /\ \A s \in T : w[s] = SumFunctionOnSet(Net(d), Part(S, Place, s))
  BY <1>1, NetType DEF CashScopes, CashExpectedAt, Part
<1> HIDE DEF w, T, S
<1>6. SumFunctionOnSet(w, T) = SumFunctionOnSet(Net(d), S)
  BY <1>2, <1>3, <1>5, SumByParts
<1> QED
  BY <1>3, <1>4, <1>6 DEF S, T

\* When every declaration is exact, what was declared is what was expected.
LEMMA ExactCash ==
  ASSUME NEW d, BooksAre(d), CashSummary(d).exact
  PROVE  CashSummary(d).declared = CashSummary(d).expected
<1> DEFINE T == CashScopes(d)
           declared == {s \in T : CashDeclaredAt(d, s) # {}}
           At(s) == LatestDeclared(CashDeclaredAt(d, s)).value.amount
           v == [s \in declared |-> At(s)]
           w == [s \in T |-> CashExpectedAt(d, s)]
<1>1. \A s \in T : s \in declared /\ At(s) = CashExpectedAt(d, s)
  BY DEF CashSummary
<1>2. declared = T
  BY <1>1
<1>3. CashSummary(d).expected = SumFunctionOnSet(w, T)
  BY DEF CashSummary, SumFunction
<1>4. CashSummary(d).declared = SumFunctionOnSet(v, declared)
  BY DEF CashSummary, SumFunction
<1>5. \A s \in T : v[s] = w[s]
  BY <1>1
<1>6. IsFiniteSet(T)
  BY CashExpectedAddsUp
<1> HIDE DEF v, w, T, declared
<1>7. SumFunctionOnSet(v, T) = SumFunctionOnSet(w, T)
  BY <1>5, <1>6, SameSum
<1> QED
  BY <1>2, <1>3, <1>4, <1>7

\* The figures are those of their sections.
LEMMA FiguresAre ==
  ASSUME NEW d
  PROVE  /\ Figures(d).net = NetSales(d) /\ Figures(d).drilldowns = Drilldowns(d)
         /\ Figures(d).cash = CashSummary(d)
         /\ Figures(d).methods.electronic = ElectronicTender(d)
         /\ Figures(d).financial.variance
              = ElectronicTender(d) + CashSummary(d).declared - NetSales(d)
  BY DEF Figures, Enrich, PaymentMethods, FinancialReconciliation

AddsUp(f) ==
  /\ NetAt(f, {Place[o] : o \in Orders}) = f.net
  /\ (CashPlaces = {Place[o] : o \in CashOrders}) =>
         /\ NetAt(f, CashPlaces) = f.cash.expected
         /\ (f.financial.conclusive /\ f.cash.exact) =>
               f.financial.variance = f.methods.electronic - (f.net - f.cash.expected)

\* A report of the books at one moment adds up.
LEMMA FiguresAddUp ==
  ASSUME NEW d, BooksAre(d)
  PROVE  AddsUp(Figures(d))
<1> DEFINE f == Figures(d)
<1>1. /\ f.net = NetSales(d) /\ f.drilldowns = Drilldowns(d) /\ f.cash = CashSummary(d)
      /\ f.methods.electronic = ElectronicTender(d)
      /\ f.financial.variance = ElectronicTender(d) + f.cash.declared - NetSales(d)
  BY FiguresAre
<1> HIDE DEF f
<1>2. {o \in Closed(d) : Place[o] \in {Place[x] : x \in Orders}} = Closed(d)
  BY DEF Closed
<1>3. NetAt(f, {Place[o] : o \in Orders}) = f.net
  BY <1>1, <1>2, DrilldownsAddUp, NetSalesAre
<1>4. ASSUME CashPlaces = {Place[o] : o \in CashOrders}
      PROVE  NetAt(f, CashPlaces) = f.cash.expected
  <2>1. {o \in Closed(d) : Place[o] \in CashPlaces} = Closed(d) \cap CashOrders
    BY <1>4 DEF CashPlaces, Closed
  <2>2. NetAt(f, CashPlaces) = SumFunctionOnSet(Net(d), Closed(d) \cap CashOrders)
    BY <1>1, <2>1, DrilldownsAddUp
  <2> QED
    BY <1>1, <2>2, CashExpectedAddsUp
<1>5. ASSUME f.cash.exact
      PROVE  f.financial.variance = f.methods.electronic - (f.net - f.cash.expected)
  <2>1. f.cash.declared = f.cash.expected
    BY <1>1, <1>5, ExactCash
  <2>2. Closed(d) \cap CashOrders \in SUBSET Orders
    BY DEF Closed
  <2>3. SumFunctionOnSet(Net(d), Closed(d) \cap CashOrders) \in Int
    <3> DEFINE S == Closed(d) \cap CashOrders
    <3>1. IsFiniteSet(S) /\ \A o \in S : Net(d)[o] \in Int
      BY <2>2, PlacesAreFinite, NetType
    <3> HIDE DEF S
    <3>2. SumFunctionOnSet(Net(d), S) \in Int
      BY <3>1, SumLess
    <3> QED
      BY <3>2 DEF S
  <2>4. f.cash.expected \in Int
    BY <1>1, <2>3, CashExpectedAddsUp
  <2>5. NetSales(d) \in Int /\ ElectronicTender(d) \in Int
    BY NetSalesAre
  <2> QED
    BY <1>1, <2>1, <2>4, <2>5
<1> QED
  BY <1>3, <1>4, <1>5 DEF AddsUp, f

-----------------------------------------------------------------------------
(* The inductive invariant.                                                 *)

\* The tables there are.
ShapesAre ==
  /\ DOMAIN db = {"orders", "attempts", "papers", "adjustments", "declarations", "actions",
                  "reports"}
  /\ DOMAIN txn = Processes

ActionRows == [id : {r.id : r \in Actions}, action : ActionKinds, revision : Nat]

\* The stored reports are numbered 1, 2, 3, ...
ReportsAreNumbered(d) ==
  /\ IsFiniteSet(d.reports)
  /\ \A r \in d.reports : r.revision \in 1..Cardinality(d.reports)
  /\ \A q, r \in d.reports : q.revision = r.revision => q = r
  /\ \A k \in 1..Cardinality(d.reports) : \E r \in d.reports : r.revision = k

\* And the closes with them, one report for each.
ClosesUpTo(d, i) == {j \in Closes(d) : j <= i}
ClosesAreNumbered(d) ==
  /\ d.actions \in Seq(ActionRows)
  /\ Cardinality(Closes(d)) = Cardinality(d.reports)
  /\ \A i \in Closes(d) :
       /\ d.actions[i].revision = Cardinality(ClosesUpTo(d, i))
       /\ \E r \in d.reports : r.revision = d.actions[i].revision /\ r.action = d.actions[i].id
  /\ \A i \in 1..(Len(d.actions) - 1) :
       d.actions[i].action = "OPERATIONALLY_CLOSE" => d.actions[i + 1].action = "REOPEN"

\* A report adds up, and counts the corrections it was made from.
NumbersOf(v, A, D) == v[2][2] = Cardinality(A) /\ v[4][2] = Cardinality(D)
ReportIsSound(r, d) ==
  /\ AddsUp(r.figures)
  /\ \E A \in SUBSET d.adjustments, D \in SUBSET d.declarations :
       r.corrections = A \cup D /\ NumbersOf(r.version, A, D)

\* The database only grows.
Precedes(s, d) ==
  /\ s.adjustments \subseteq d.adjustments /\ s.declarations \subseteq d.declarations
  /\ s.reports \subseteq d.reports
  /\ Len(s.actions) <= Len(d.actions)
  /\ \A i \in 1..Len(s.actions) : s.actions[i] = d.actions[i]

\* What a request under way knows: a close works on an earlier state of the
\* books, in which every close had its report.
SnapshotIsSound(s) ==
  /\ BooksAre(s) /\ ReportsAreNumbered(s) /\ ClosesAreNumbered(s)
  /\ Precedes(s, db)
TxnIsSound(p) ==
  /\ txn[p].op = "adjust" => ParsedAdjustment(txn[p].request)
  /\ txn[p].op = "OPERATIONALLY_CLOSE" => SnapshotIsSound(txn[p].snap)

\* What the script has fetched: no later close than there is, stored reports,
\* and, while the close it saw stands, the number of the corrections.
EvidenceIsSound ==
  /\ Passes(evidence)
  /\ "version" \in DOMAIN evidence => "close" \in DOMAIN evidence
  /\ "reports" \in DOMAIN evidence => evidence.reports \subseteq db.reports
  /\ "close" \in DOMAIN evidence =>
       evidence.close.revision \in 0..Cardinality(db.reports)
  /\ /\ "version" \in DOMAIN evidence
     /\ ~WindowOpen(db)
     /\ evidence.close.revision = Cardinality(db.reports)
     => NumbersOf(evidence.version, db.adjustments, db.declarations)

CorrectionsFit(d) ==
  \A o \in Orders : /\ Reduced(d, o, SaleReductions) <= Total[o]
                    /\ Reduced(d, o, {"CASH_REFUND"}) <= Total[o]

IInv ==
  /\ TypeOK
  /\ ShapesAre
  /\ BooksAre(db)
  /\ CorrectionsFit(db)
  /\ ReportsAreNumbered(db)
  /\ ClosesAreNumbered(db)
  /\ \A r \in db.reports : ReportIsSound(r, db)
  /\ \A p \in Processes : TxnIsSound(p)
  /\ EvidenceIsSound

-----------------------------------------------------------------------------
(* Facts about closes and reports.                                          *)

\* A snapshot gives a close the revision after its last report.
LEMMA NewestRevision ==
  ASSUME NEW d, ReportsAreNumbered(d)
  PROVE  /\ Cardinality(d.reports) \in Nat
         /\ Max({0} \cup {r.revision : r \in d.reports}) = Cardinality(d.reports)
<1> DEFINE n == Cardinality(d.reports)
           S == {0} \cup {r.revision : r \in d.reports}
<1>1. n \in Nat
  BY FS_CardinalityType DEF ReportsAreNumbered
<1>2. n \in S /\ \A k \in S : k \in 0..n
  BY <1>1 DEF ReportsAreNumbered
<1> HIDE DEF n, S
<1>3. n \in S /\ \A k \in S : n >= k
  BY <1>1, <1>2
<1>4. Max(S) \in S /\ \A k \in S : Max(S) >= k
  BY <1>3 DEF Max
<1>5. Max(S) \in 0..n /\ Max(S) >= n
  BY <1>2, <1>3, <1>4
<1>6. Max(S) = n
  BY <1>1, <1>5
<1> QED
  BY <1>1, <1>6 DEF n, S

\* The closes are positions in the list of actions.
LEMMA ClosesType ==
  ASSUME NEW d, d.actions \in Seq(ActionRows)
  PROVE  /\ Len(d.actions) \in Nat /\ DOMAIN d.actions = 1..Len(d.actions)
         /\ Closes(d) \subseteq 1..Len(d.actions)
         /\ IsFiniteSet(Closes(d)) /\ Cardinality(Closes(d)) \in 0..Len(d.actions)
         /\ \A i \in 1..Len(d.actions) :
              /\ d.actions[i] \in ActionRows
              /\ i \notin Closes(d) => d.actions[i].action = "REOPEN"
<1>1. /\ Len(d.actions) \in Nat /\ DOMAIN d.actions = 1..Len(d.actions)
      /\ \A i \in 1..Len(d.actions) : d.actions[i] \in ActionRows
  OBVIOUS
<1>2. Closes(d) \subseteq 1..Len(d.actions)
  BY <1>1 DEF Closes
<1>3. IsFiniteSet(Closes(d)) /\ Cardinality(Closes(d)) \in 0..Len(d.actions)
  <2> DEFINE L == Len(d.actions)
  <2>1. IsFiniteSet(1..L) /\ Cardinality(1..L) = L
    BY <1>1, CountUpTo
  <2>2. IsFiniteSet(Closes(d)) /\ Cardinality(Closes(d)) <= Cardinality(1..L)
    BY <1>2, <2>1, FS_Subset
  <2>3. Cardinality(Closes(d)) \in Nat
    BY <2>2, FS_CardinalityType
  <2> QED
    BY <1>1, <2>1, <2>2, <2>3
<1>4. \A i \in 1..Len(d.actions) : i \notin Closes(d) => d.actions[i].action = "REOPEN"
  BY <1>1 DEF Closes, ActionRows, ActionKinds
<1> QED
  BY <1>1, <1>2, <1>3, <1>4

\* The window is shut while the last action is a close.
LEMMA WindowIs ==
  ASSUME NEW d, d.actions \in Seq(ActionRows)
  PROVE  /\ ~WindowOpen(d) <=> Len(d.actions) # 0 /\ Len(d.actions) \in Closes(d)
         /\ StateFromAction(d) = "OPERATIONALLY_CLOSED" <=> ~WindowOpen(d)
<1>1. /\ Len(d.actions) \in Nat /\ DOMAIN d.actions = 1..Len(d.actions)
      /\ (d.actions = <<>>) <=> (Len(d.actions) = 0)
      /\ \A i \in 1..Len(d.actions) : d.actions[i].action \in ActionKinds
  <2>1. \A i \in 1..Len(d.actions) : d.actions[i] \in ActionRows
    OBVIOUS
  <2>2. \A i \in 1..Len(d.actions) : d.actions[i].action \in ActionKinds
    BY <2>1 DEF ActionRows
  <2>3. (d.actions = <<>>) <=> (Len(d.actions) = 0)
    OBVIOUS
  <2> QED
    BY <2>2, <2>3
<1>2. ASSUME Len(d.actions) # 0
      PROVE  /\ Len(d.actions) \in 1..Len(d.actions) /\ Last(d.actions) = d.actions[Len(d.actions)]
             /\ Last(d.actions).action \in ActionKinds
  BY <1>1, <1>2 DEF Last
<1> QED
  BY <1>1, <1>2 DEF WindowOpen, StateFromAction, Closes, ActionKinds

\* While it is, the close is the newest report.
LEMMA CloseSectionIs ==
  ASSUME NEW d, ClosesAreNumbered(d), ReportsAreNumbered(d)
  PROVE  /\ CloseSection(d).state = StateFromAction(d)
         /\ CloseSection(d).revision \in 0..Cardinality(d.reports)
         /\ ~WindowOpen(d) => CloseSection(d).revision = Cardinality(d.reports)
<1> DEFINE C == Closes(d)
           n == Cardinality(d.reports)
           L == Len(d.actions)
<1>1. /\ n \in Nat /\ L \in Nat /\ C \subseteq 1..L /\ IsFiniteSet(C) /\ Cardinality(C) = n
      /\ ~WindowOpen(d) => L \in C
  BY NewestRevision, ClosesType, WindowIs DEF ClosesAreNumbered
<1>2. CASE C = {}
  <2>1. CloseSection(d) = [NoClose EXCEPT !.state = StateFromAction(d)]
    BY <1>2 DEF CloseSection
  <2>2. CloseSection(d).state = StateFromAction(d) /\ CloseSection(d).revision = 0
    BY <2>1 DEF NoClose
  <2> QED
    BY <1>1, <1>2, <2>2
<1>3. CASE C # {}
  <2> DEFINE m == Max(C)
  <2>1. \E k \in C : \A j \in C : j <= k
    BY <1>1, <1>3, GreatestNatural
  <2>2. m \in C /\ \A j \in C : m >= j
    BY <1>1, <2>1 DEF Max
  <2> HIDE DEF m
  <2>3. /\ CloseSection(d).state = StateFromAction(d)
        /\ CloseSection(d).revision = d.actions[m].revision
    BY <1>3 DEF CloseSection, m
  <2>4. d.actions[m].revision = Cardinality(ClosesUpTo(d, m))
    BY <2>2 DEF ClosesAreNumbered
  <2>5. ClosesUpTo(d, m) = C
    BY <1>1, <2>2 DEF ClosesUpTo
  <2> QED
    BY <1>1, <2>3, <2>4, <2>5
<1> QED
  BY <1>2, <1>3

\* The numbers depend on the actions and the reports alone.
LEMMA NumbersStay ==
  ASSUME NEW d, NEW e, e.actions = d.actions, e.reports = d.reports,
         ReportsAreNumbered(d), ClosesAreNumbered(d)
  PROVE  /\ ReportsAreNumbered(e) /\ ClosesAreNumbered(e)
         /\ WindowOpen(e) <=> WindowOpen(d)
<1>1. Closes(e) = Closes(d)
  BY DEF Closes
<1>2. \A i : ClosesUpTo(e, i) = ClosesUpTo(d, i)
  BY <1>1 DEF ClosesUpTo
<1> QED
  BY <1>1, <1>2 DEF ReportsAreNumbered, ClosesAreNumbered, WindowOpen, StateFromAction

\* A report stays sound while corrections are only added.
LEMMA ReportStays ==
  ASSUME NEW d, NEW e, NEW r, ReportIsSound(r, d),
         d.adjustments \subseteq e.adjustments, d.declarations \subseteq e.declarations
  PROVE  ReportIsSound(r, e)
  BY DEF ReportIsSound

\* What grew and grows has grown.
LEMMA GrowthIsTransitive ==
  ASSUME NEW s, NEW d, NEW e, Precedes(s, d), Precedes(d, e),
         Len(s.actions) \in Nat, Len(d.actions) \in Nat, Len(e.actions) \in Nat
  PROVE  Precedes(s, e)
<1>1. s.adjustments \subseteq e.adjustments /\ s.declarations \subseteq e.declarations
  BY DEF Precedes
<1>2. s.reports \subseteq e.reports
  BY DEF Precedes
<1>3. Len(s.actions) <= Len(e.actions)
  BY DEF Precedes
<1>4. \A i \in 1..Len(s.actions) : s.actions[i] = e.actions[i]
  BY DEF Precedes
<1> QED
  BY <1>1, <1>2, <1>3, <1>4 DEF Precedes

\* One correction more reduces its order by its amount.
LEMMA ReducedGrows ==
  ASSUME NEW d, BooksAre(d), NEW e, NEW x, x \notin d.adjustments, x.value.amount \in Nat,
         e.adjustments = d.adjustments \cup {x}, NEW o, NEW kinds
  PROVE  IF x.value.order = o /\ x.value.kind \in kinds
           THEN Reduced(e, o, kinds) = Reduced(d, o, kinds) + x.value.amount
           ELSE Reduced(e, o, kinds) = Reduced(d, o, kinds)
<1> DEFINE R == Reducing(d, o, kinds)
           Q == Reducing(e, o, kinds)
           v == [r \in R |-> r.value.amount]
           w == [r \in Q |-> r.value.amount]
<1>0. Reduced(d, o, kinds) \in Nat
  BY ReducedType
<1>1. Reduced(d, o, kinds) = SumFunctionOnSet(v, R) /\ Reduced(e, o, kinds) = SumFunctionOnSet(w, Q)
  BY DEF Reduced, SumFunction
<1>2. IsFiniteSet(R) /\ R \subseteq Q /\ x \notin R
  BY FS_Subset DEF Reducing, BooksAre
<1>3. \A r \in R : w[r] = v[r] /\ w[r] \in Int
  BY <1>2 DEF Reducing, BooksAre
<1>4. CASE x.value.order = o /\ x.value.kind \in kinds
  <2>1. Q = R \cup {x}
    BY <1>4 DEF Reducing
  <2>2. w[x] = x.value.amount /\ w[x] \in Int
    BY <2>1
  <2> HIDE DEF R, Q, v, w
  <2>3. SumFunctionOnSet(w, R \cup {x}) = SumFunctionOnSet(w, R) + w[x]
    BY <1>2, <1>3, <2>2, SumMore
  <2>4. SumFunctionOnSet(w, R) = SumFunctionOnSet(v, R)
    BY <1>2, <1>3, SameSum
  <2> QED
    BY <1>1, <1>4, <2>1, <2>2, <2>3, <2>4
<1>5. CASE ~ (x.value.order = o /\ x.value.kind \in kinds)
  <2>1. Q = R
    BY <1>5 DEF Reducing
  <2> HIDE DEF R, Q, v, w
  <2>2. SumFunctionOnSet(w, R) = SumFunctionOnSet(v, R)
    BY <1>2, <1>3, SameSum
  <2> QED
    BY <1>0, <1>1, <1>5, <2>1, <2>2
<1> QED
  BY <1>4, <1>5

\* The same corrections reduce as much.
LEMMA ReducedStays ==
  ASSUME NEW d, NEW e, e.adjustments = d.adjustments
  PROVE  CorrectionsFit(d) => CorrectionsFit(e)
<1>1. \A o, kinds : Reduced(e, o, kinds) = Reduced(d, o, kinds)
  BY DEF Reduced, Reducing
<1> QED
  BY <1>1 DEF CorrectionsFit

-----------------------------------------------------------------------------
(* What the steps have in common.                                           *)

\* The lists of actions that the proofs compare are lists.
LEMMA ActionsAreLists ==
  ASSUME IInv
  PROVE  /\ Len(db.actions) \in Nat
         /\ \A p \in Processes : txn[p].op = "OPERATIONALLY_CLOSE" =>
              Len(txn[p].snap.actions) \in Nat
<1>1. ClosesAreNumbered(db)
  BY DEF IInv
<1>2. \A p \in Processes : txn[p].op = "OPERATIONALLY_CLOSE" => ClosesAreNumbered(txn[p].snap)
  BY DEF IInv, TxnIsSound, SnapshotIsSound
<1> QED
  BY <1>1, <1>2, ClosesType DEF ClosesAreNumbered

\* A request under way stays sound while the tables grow.
LEMMA TxnStays ==
  ASSUME IInv, ClosesAreNumbered(db'), Precedes(db, db'), NEW p \in Processes,
         txn'[p] \in {txn[p], NoTxn}
  PROVE  TxnIsSound(p)'
<1>1. CASE txn'[p] = NoTxn
  BY <1>1 DEF TxnIsSound, NoTxn
<1>2. CASE txn'[p] = txn[p]
  <2>1. txn[p].op = "adjust" => ParsedAdjustment(txn[p].request)
    BY DEF IInv, TxnIsSound
  <2>2. ASSUME txn[p].op = "OPERATIONALLY_CLOSE"
        PROVE  LET s == txn[p].snap IN
                 BooksAre(s) /\ ReportsAreNumbered(s) /\ ClosesAreNumbered(s) /\ Precedes(s, db')
    <3>1. /\ BooksAre(txn[p].snap) /\ ReportsAreNumbered(txn[p].snap)
          /\ ClosesAreNumbered(txn[p].snap) /\ Precedes(txn[p].snap, db)
      BY <2>2 DEF IInv, TxnIsSound, SnapshotIsSound
    <3>2. Len(db.actions) \in Nat /\ Len(txn[p].snap.actions) \in Nat
      BY <2>2, ActionsAreLists
    <3>3. Len(db'.actions) \in Nat
      BY ClosesType DEF ClosesAreNumbered
    <3>4. Precedes(txn[p].snap, db')
      BY <3>1, <3>2, <3>3, GrowthIsTransitive
    <3> QED
      BY <3>1, <3>4
  <2> QED
    BY <1>2, <2>1, <2>2 DEF TxnIsSound, SnapshotIsSound
<1> QED
  BY <1>1, <1>2

\* Evidence stays sound, too, if the corrections do not change under the close
\* that it has seen.
LEMMA EvidenceStays ==
  ASSUME IInv, UNCHANGED evidence, ReportsAreNumbered(db'), db.reports \subseteq db'.reports,
         \/ WindowOpen(db')
         \/ db'.reports # db.reports
         \/ /\ ~WindowOpen(db)
            /\ db'.adjustments = db.adjustments /\ db'.declarations = db.declarations
  PROVE  EvidenceIsSound'
<1> DEFINE n == Cardinality(db.reports)
           m == Cardinality(db'.reports)
<1>1. n \in Nat /\ m \in Nat /\ n <= m /\ (db'.reports # db.reports => n < m)
  <2>1. ReportsAreNumbered(db)
    BY DEF IInv
  <2>2. n \in Nat /\ m \in Nat
    BY <2>1, NewestRevision
  <2>3. IsFiniteSet(db'.reports)
    BY DEF ReportsAreNumbered
  <2>4. n <= m /\ (db'.reports # db.reports => n < m)
    BY <2>2, <2>3, FS_Subset
  <2> QED
    BY <2>2, <2>4
<1>2. EvidenceIsSound
  BY DEF IInv
<1>3. Passes(evidence)' /\ ("version" \in DOMAIN evidence => "close" \in DOMAIN evidence)'
  BY <1>2 DEF EvidenceIsSound
<1>4. ("reports" \in DOMAIN evidence => evidence.reports \subseteq db.reports)'
  BY <1>2 DEF EvidenceIsSound
<1>5. "close" \in DOMAIN evidence => evidence.close.revision \in 0..n
  BY <1>2 DEF EvidenceIsSound
<1>6. "close" \in DOMAIN evidence => evidence.close.revision \in 0..m
  BY <1>1, <1>5
<1>7. ASSUME "version" \in DOMAIN evidence, ~WindowOpen(db'), evidence.close.revision = m
      PROVE  NumbersOf(evidence.version, db'.adjustments, db'.declarations)
  <2>1. evidence.close.revision \in 0..n
    BY <1>2, <1>5, <1>7 DEF EvidenceIsSound
  <2>2. ~ (n < m)
    BY <1>1, <1>7, <2>1
  <2>3. ~WindowOpen(db) /\ db'.reports = db.reports
        /\ db'.adjustments = db.adjustments /\ db'.declarations = db.declarations
    BY <1>1, <1>7, <2>2
  <2> QED
    BY <1>2, <1>7, <2>3 DEF EvidenceIsSound
<1> QED
  BY <1>3, <1>4, <1>6, <1>7 DEF EvidenceIsSound

\* Together: what is left to show of a step.
LEMMA StepIsSound ==
  ASSUME IInv, TypeOK', ShapesAre', BooksAre(db'), CorrectionsFit(db'),
         ReportsAreNumbered(db'), ClosesAreNumbered(db'), Precedes(db, db'),
         \A r \in db'.reports : r \in db.reports \/ ReportIsSound(r, db'),
         \A p \in Processes : txn'[p] \in {txn[p], NoTxn} \/ TxnIsSound(p)',
         EvidenceIsSound'
  PROVE  IInv'
<1>1. \A p \in Processes : TxnIsSound(p)'
  BY TxnStays
<1>2. \A r \in db'.reports : ReportIsSound(r, db')
  <2>1. \A r \in db.reports : ReportIsSound(r, db)
    BY DEF IInv
  <2> QED
    BY <2>1, ReportStays DEF Precedes
<1> QED
  BY <1>1, <1>2 DEF IInv

-----------------------------------------------------------------------------
(* The initial state, and the steps.                                        *)

\* No request is under way and nothing is corrected, closed or fetched.
LEMMA InitIsSound == Init => IInv
<1> SUFFICES ASSUME Init PROVE IInv
  OBVIOUS
<1> USE DEF Init
<1>1. /\ db.orders \in [Orders -> Rows({"OPEN", "CLOSED"})]
      /\ db.attempts \in [ProviderOrders -> Rows({"UNKNOWN", "SUCCEEDED", "FAILED"})]
      /\ db.papers \in [Papers -> Rows({"OPEN", "DONE"})]
  BY DEF Rows, Row
<1>2. /\ db.adjustments = {} /\ db.declarations = {} /\ db.reports = {}
      /\ db.actions = <<>> /\ Closes(db) = {} /\ DOMAIN evidence = {}
  BY DEF Closes
<1>3. IsFiniteSet({}) /\ Cardinality({}) = 0
  BY FS_EmptySet
<1>4. TypeOK
  <2>1. \A p \in Processes : txn[p] \in StampedTxns
    BY DEF StampedTxns
  <2>2. clock \in 0..MaxTime
    OBVIOUS
  <2> QED
    BY <1>1, <1>2, <2>1, <2>2 DEF TypeOK
<1>5. ShapesAre
  BY DEF ShapesAre
<1>6. BooksAre(db)
  BY <1>1, <1>2, <1>3 DEF BooksAre
<1>7. CorrectionsFit(db)
  <2>1. \A o, kinds : Reduced(db, o, kinds) = 0
    <3> SUFFICES ASSUME NEW o, NEW kinds PROVE Reduced(db, o, kinds) = 0
      OBVIOUS
    <3> DEFINE w == [r \in Reducing(db, o, kinds) |-> r.value.amount]
    <3>1. DOMAIN w = {} /\ Reduced(db, o, kinds) = SumFunctionOnSet(w, DOMAIN w)
      BY <1>2 DEF Reducing, Reduced, SumFunction
    <3> HIDE DEF w
    <3> QED
      BY <3>1, SumOfNone
  <2>2. \A o \in Orders : Total[o] \in Nat
    OBVIOUS
  <2> HIDE DEF Init
  <2> QED
    BY <2>1, <2>2 DEF CorrectionsFit
<1>8. ReportsAreNumbered(db)
  BY <1>2, <1>3 DEF ReportsAreNumbered
<1>9. ClosesAreNumbered(db)
  <2>1. db.actions \in Seq(ActionRows) /\ Len(db.actions) = 0
    BY <1>2
  <2> HIDE DEF Init
  <2>2. \A i \in 1..(Len(db.actions) - 1) : FALSE
    BY <2>1
  <2> QED
    BY <1>2, <1>3, <2>1, <2>2 DEF ClosesAreNumbered
<1>10. \A p \in Processes : TxnIsSound(p)
  BY DEF TxnIsSound, NoTxn
<1>11. EvidenceIsSound
  BY <1>2 DEF EvidenceIsSound, Passes
<1> QED
  BY <1>2, <1>4, <1>5, <1>6, <1>7, <1>8, <1>9, <1>10, <1>11 DEF IInv

\* Steps that do not touch the tables.
LEMMA TablesStay ==
  ASSUME IInv, UNCHANGED db, TypeOK', DOMAIN txn' = Processes,
         \A p \in Processes : txn'[p] \in {txn[p], NoTxn} \/ TxnIsSound(p)',
         UNCHANGED evidence \/ EvidenceIsSound'
  PROVE  IInv'
<1>1. /\ BooksAre(db') /\ CorrectionsFit(db') /\ ReportsAreNumbered(db') /\ ClosesAreNumbered(db')
      /\ \A r \in db'.reports : r \in db.reports
  BY DEF IInv
<1>2. ShapesAre'
  BY DEF IInv, ShapesAre
<1>3. Precedes(db, db')
  BY ActionsAreLists DEF Precedes
<1>4. EvidenceIsSound'
  BY <1>1, EvidenceStays
<1> QED
  BY <1>1, <1>2, <1>3, <1>4, StepIsSound

\* A transaction starts.
LEMMA StartIsSound ==
  ASSUME IInv, NEW p \in Processes, NEW op, NEW request, Start(p, op, request),
         \A s \in 0..MaxTime : [op |-> op, request |-> request, stamp |-> s] \in StampedTxns,
         op = "adjust" => ParsedAdjustment(request), op # "OPERATIONALLY_CLOSE"
  PROVE  IInv'
<1> DEFINE t == [op |-> op, request |-> request, stamp |-> Now]
<1>1. UNCHANGED <<db, evidence>> /\ txn' = [txn EXCEPT ![p] = t] /\ DOMAIN txn = Processes
  BY DEF Start, IInv, ShapesAre
<1>2. TypeOK /\ clock' \in 0..MaxTime /\ Now \in 0..MaxTime
  BY DEF IInv, Start, TypeOK, Now
<1>3. t \in StampedTxns
  BY <1>2
<1>4. t.op = op /\ t.request = request
  OBVIOUS
<1> HIDE DEF t
<1>5. TypeOK'
  BY <1>1, <1>2, <1>3 DEF TypeOK
<1>6. \A q \in Processes : txn'[q] = txn[q] \/ TxnIsSound(q)'
  BY <1>1, <1>4 DEF TxnIsSound
<1> QED
  BY <1>1, <1>5, <1>6, TablesStay

\* The requests that take a time, and the Cloud's other writers.
LEMMA StartsAreSound ==
  ASSUME IInv, NEW p \in Processes, BeginAdjustment(p) \/ BeginDeclaration(p) \/ BeginWrite(p)
  PROVE  IInv'
<1>1. ASSUME NEW r \in Adjustments, ParsedAdjustment(r), Start(p, "adjust", r) PROVE IInv'
  <2>1. \A s \in 0..MaxTime : [op |-> "adjust", request |-> r, stamp |-> s] \in StampedTxns
    BY DEF StampedTxns, Stamped
  <2> QED
    BY <1>1, <2>1, StartIsSound
<1>2. ASSUME NEW r \in Declarations, Start(p, "declare", r) PROVE IInv'
  <2>1. \A s \in 0..MaxTime : [op |-> "declare", request |-> r, stamp |-> s] \in StampedTxns
    BY DEF StampedTxns, Stamped
  <2> QED
    BY <1>2, <2>1, StartIsSound
<1>3. ASSUME NEW o \in Orders, Start(p, "order", o) PROVE IInv'
  <2>1. \A s \in 0..MaxTime : [op |-> "order", request |-> o, stamp |-> s] \in StampedTxns
    BY DEF StampedTxns, Stamped
  <2> QED
    BY <1>3, <2>1, StartIsSound
<1>4. ASSUME NEW o \in ProviderOrders, NEW to \in Results,
             Start(p, "attempt", [row |-> o, to |-> to])
      PROVE  IInv'
  <2>1. \A s \in 0..MaxTime :
          [op |-> "attempt", request |-> [row |-> o, to |-> to], stamp |-> s] \in StampedTxns
    BY DEF StampedTxns, Stamped
  <2> QED
    BY <1>4, <2>1, StartIsSound
<1>5. ASSUME NEW x \in Papers, Start(p, "paper", x) PROVE IInv'
  <2>1. \A s \in 0..MaxTime : [op |-> "paper", request |-> x, stamp |-> s] \in StampedTxns
    BY DEF StampedTxns, Stamped
  <2> QED
    BY <1>5, <2>1, StartIsSound
<1> QED
  BY <1>1, <1>2, <1>3, <1>4, <1>5 DEF BeginAdjustment, BeginDeclaration, BeginWrite

\* A close or a reopening takes its snapshot.
LEMMA ActionStarts ==
  ASSUME IInv, NEW c \in Processes, BeginAction(c)
  PROVE  IInv'
<1>1. PICK r \in Actions :
        txn' = [txn EXCEPT ![c] = [op |-> r.action, request |-> r, snap |-> Snapshot(r)]]
  BY DEF BeginAction
<1> DEFINE t == [op |-> r.action, request |-> r, snap |-> Snapshot(r)]
<1>2. /\ UNCHANGED <<db, clock, evidence>> /\ DOMAIN txn = Processes /\ TypeOK
      /\ r.action \in ActionKinds
  BY DEF BeginAction, IInv, ShapesAre
<1>3. t.op = r.action /\ t.request = r /\ t.snap = Snapshot(r) /\ IsAction(t)
  BY <1>2 DEF IsAction
<1>4. t.op = "OPERATIONALLY_CLOSE" => t.snap = db
  BY <1>3 DEF Snapshot
<1>5. txn' = [txn EXCEPT ![c] = t]
  BY <1>1
<1> HIDE DEF t
<1>6. TypeOK'
  BY <1>2, <1>3, <1>5 DEF TypeOK
<1>7. ASSUME NEW q \in Processes, q = c PROVE TxnIsSound(q)'
  <2>1. txn'[q] = t
    BY <1>2, <1>5, <1>7
  <2>2. BooksAre(db) /\ ReportsAreNumbered(db) /\ ClosesAreNumbered(db)
    BY DEF IInv
  <2>3. Precedes(db, db')
    BY <1>2, ActionsAreLists DEF Precedes
  <2>4. t.op \in ActionKinds
    BY <1>2, <1>3
  <2> QED
    BY <1>4, <2>1, <2>2, <2>3, <2>4 DEF TxnIsSound, SnapshotIsSound, ActionKinds
<1>8. \A q \in Processes : txn'[q] = txn[q] \/ TxnIsSound(q)'
  BY <1>2, <1>5, <1>7
<1>9. DOMAIN txn' = Processes
  BY <1>2, <1>5
<1> QED
  BY <1>2, <1>6, <1>8, <1>9, TablesStay

\* A request of the right kind, at a time.
LEMMA TxnTypes ==
  ASSUME TypeOK, NEW p \in Processes
  PROVE  /\ txn[p].op = "adjust" => txn[p].request \in Adjustments /\ txn[p].stamp \in 0..MaxTime
         /\ txn[p].op = "declare" => txn[p].request \in Declarations /\ txn[p].stamp \in 0..MaxTime
         /\ txn[p].op = "order" => txn[p].request \in Orders /\ txn[p].stamp \in 0..MaxTime
         /\ txn[p].op = "attempt" => /\ txn[p].request \in [row : ProviderOrders, to : Results]
                                     /\ txn[p].stamp \in 0..MaxTime
         /\ txn[p].op = "paper" => txn[p].request \in Papers /\ txn[p].stamp \in 0..MaxTime
         /\ txn[p].op \in ActionKinds => IsAction(txn[p])
<1>1. txn[p] \in StampedTxns \/ IsAction(txn[p])
  BY DEF TypeOK
<1>2. CASE IsAction(txn[p])
  BY <1>2 DEF IsAction, ActionKinds
<1>3. CASE txn[p] \in StampedTxns
  BY <1>3 DEF StampedTxns, Stamped, NoTxn, ActionKinds
<1> QED
  BY <1>1, <1>2, <1>3

\* A transaction ends.
LEMMA EndTypes ==
  ASSUME IInv, NEW p \in Processes, End(p)
  PROVE  /\ DOMAIN txn' = Processes
         /\ \A q \in Processes : /\ txn'[q] \in {txn[q], NoTxn}
                                 /\ txn'[q] \in StampedTxns \/ IsAction(txn'[q])
<1>1. DOMAIN txn = Processes /\ \A q \in Processes : txn[q] \in StampedTxns \/ IsAction(txn[q])
  BY DEF IInv, ShapesAre, TypeOK
<1>2. txn' = [txn EXCEPT ![p] = NoTxn] /\ NoTxn \in StampedTxns
  BY DEF End, StampedTxns
<1> QED
  BY <1>1, <1>2

\* A request that is refused, or answered from the table, changes nothing.
LEMMA RefusalIsSound ==
  ASSUME IInv, NEW p \in Processes, End(p), UNCHANGED <<db, clock, evidence>>
  PROVE  IInv'
<1>1. TypeOK
  BY DEF IInv
<1>2. TypeOK'
  BY <1>1, EndTypes DEF TypeOK
<1> QED
  BY <1>2, EndTypes, TablesStay

\* One that writes no action and no report.
LEMMA WriteIsSound ==
  ASSUME IInv, NEW p \in Processes, End(p), UNCHANGED <<clock, evidence>>,
         DOMAIN db' = DOMAIN db, BooksAre(db'), CorrectionsFit(db'),
         db'.papers \in [Papers -> Rows({"OPEN", "DONE"})],
         db'.actions = db.actions, db'.reports = db.reports,
         db.adjustments \subseteq db'.adjustments, db.declarations \subseteq db'.declarations,
         \/ WindowOpen(db)
         \/ db'.adjustments = db.adjustments /\ db'.declarations = db.declarations
  PROVE  IInv'
<1>1. TypeOK /\ ReportsAreNumbered(db) /\ ClosesAreNumbered(db)
  BY DEF IInv
<1>2. TypeOK'
  <2>1. clock' \in 0..MaxTime /\ (DOMAIN evidence \subseteq Parts)'
    BY <1>1 DEF TypeOK
  <2>2. db'.actions \in Seq([id : {r.id : r \in Actions}, action : ActionKinds,
                             revision : 0..Len(db'.actions)])
    BY <1>1 DEF TypeOK
  <2> QED
    BY <2>1, <2>2, EndTypes DEF TypeOK, BooksAre
<1>3. ReportsAreNumbered(db') /\ ClosesAreNumbered(db') /\ (WindowOpen(db') <=> WindowOpen(db))
  BY <1>1, NumbersStay
<1>4. Precedes(db, db')
  BY ActionsAreLists DEF Precedes
<1>5. EvidenceIsSound'
  BY <1>3, EvidenceStays
<1>6. ShapesAre'
  BY EndTypes DEF IInv, ShapesAre
<1> QED
  BY <1>2, <1>3, <1>4, <1>5, <1>6, EndTypes, StepIsSound

\* What a correction that fits takes away was left to take.
LEMMA AdjustmentLeavesRoom ==
  ASSUME IInv, NEW x, x \notin db.adjustments, x.value.order \in Orders, x.value.amount \in Nat,
         AdjustmentFits(x.value), NEW e, e.adjustments = db.adjustments \cup {x}
  PROVE  CorrectionsFit(e)
<1> SUFFICES ASSUME NEW o \in Orders
             PROVE  /\ Reduced(e, o, SaleReductions) <= Total[o]
                    /\ Reduced(e, o, {"CASH_REFUND"}) <= Total[o]
  BY DEF CorrectionsFit
<1> DEFINE sale == Reduced(db, o, SaleReductions)
           cash == Reduced(db, o, {"CASH_REFUND"})
           more(kinds) == x.value.order = o /\ x.value.kind \in kinds
<1>1. BooksAre(db) /\ CorrectionsFit(db)
  BY DEF IInv
<1>2. \A kinds : IF more(kinds)
                   THEN Reduced(e, o, kinds) = Reduced(db, o, kinds) + x.value.amount
                   ELSE Reduced(e, o, kinds) = Reduced(db, o, kinds)
  BY <1>1, ReducedGrows
<1>3. sale \in Nat /\ cash \in Nat /\ Total[o] \in Nat /\ sale <= Total[o] /\ cash <= Total[o]
  BY <1>1, ReducedType DEF CorrectionsFit
<1>4. x.value.order = o => IF x.value.kind = "CASH_REFUND"
                             THEN cash + x.value.amount <= Total[o] - sale
                             ELSE sale + x.value.amount <= Total[o]
  BY DEF AdjustmentFits
<1>5. "CASH_REFUND" \notin SaleReductions
  BY DEF SaleReductions
<1> HIDE DEF sale, cash
<1>6. more(SaleReductions) => sale + x.value.amount <= Total[o]
  BY <1>4, <1>5
<1>7. more({"CASH_REFUND"}) => cash + x.value.amount <= Total[o]
  BY <1>3, <1>4
<1>8. Reduced(e, o, SaleReductions) <= Total[o]
  BY <1>2, <1>3, <1>6 DEF sale
<1>9. Reduced(e, o, {"CASH_REFUND"}) <= Total[o]
  BY <1>2, <1>3, <1>7 DEF cash
<1> QED
  BY <1>8, <1>9

\* A correction of an order is recorded.
LEMMA AdjustmentIsSound ==
  ASSUME IInv, NEW c \in Processes, RecordOrderAdjustment(c)
  PROVE  IInv'
<1> DEFINE r == txn[c].request
           x == Row(r, txn[c].stamp)
           accepted == /\ ~AdjustmentUsed(r) /\ CorrectionWindowOpen
                       /\ r.order \in Closed(db) /\ AdjustmentFits(r)
<1>1. /\ txn[c].op = "adjust" /\ End(c) /\ UNCHANGED <<clock, evidence>>
      /\ db' = IF accepted THEN [db EXCEPT !.adjustments = @ \cup {x}] ELSE db
  BY DEF RecordOrderAdjustment
<1>2. CASE ~accepted
  BY <1>1, <1>2, RefusalIsSound
<1>3. CASE accepted
  <2>1. TypeOK /\ BooksAre(db) /\ CorrectionsFit(db) /\ ShapesAre /\ TxnIsSound(c)
    BY DEF IInv
  <2>2. r \in Adjustments /\ txn[c].stamp \in 0..MaxTime /\ ParsedAdjustment(r)
    BY <1>1, <2>1, TxnTypes DEF TxnIsSound
  <2>3. r.order \in Orders /\ r.amount \in Nat /\ r.kind \in Reductions
    BY <2>2 DEF ParsedAdjustment
  <2>4. x.value = r /\ x \in Rows(Adjustments)
    BY <2>2 DEF Row, Rows
  <2>5. x \notin db.adjustments
    BY <1>3, <2>4 DEF AdjustmentUsed, Used
  <2>6. db' = [db EXCEPT !.adjustments = db.adjustments \cup {x}]
    BY <1>1, <1>3
  <2> HIDE DEF x
  <2>7. /\ DOMAIN db' = DOMAIN db /\ db'.adjustments = db.adjustments \cup {x}
        /\ db'.orders = db.orders /\ db'.attempts = db.attempts /\ db'.papers = db.papers
        /\ db'.declarations = db.declarations /\ db'.actions = db.actions
        /\ db'.reports = db.reports
    BY <2>1, <2>6 DEF ShapesAre
  <2>8. BooksAre(db')
    <3>1. Closed(db') = Closed(db)
      BY <2>7 DEF Closed
    <3>2. IsFiniteSet(db'.adjustments)
      <4>1. IsFiniteSet(db.adjustments)
        BY <2>1 DEF BooksAre
      <4>2. IsFiniteSet(db.adjustments \cup {x})
        BY <4>1, FS_AddElement
      <4> QED
        BY <2>7, <4>2
    <3>3. \A y \in db'.adjustments : y.value.order \in Closed(db') /\ y.value.amount \in Nat
      BY <1>3, <2>1, <2>3, <2>4, <2>7, <3>1 DEF BooksAre
    <3> QED
      BY <2>1, <2>4, <2>7, <3>2, <3>3 DEF BooksAre
  <2>9. CorrectionsFit(db')
    BY <1>3, <2>3, <2>4, <2>5, <2>7, AdjustmentLeavesRoom
  <2>10. WindowOpen(db) /\ db'.papers \in [Papers -> Rows({"OPEN", "DONE"})]
    BY <1>3, <2>1, <2>7 DEF CorrectionWindowOpen, TypeOK
  <2> QED
    BY <1>1, <2>7, <2>8, <2>9, <2>10, WriteIsSound
<1> QED
  BY <1>2, <1>3

\* A declaration of counted cash or of a cost.
LEMMA DeclarationIsSound ==
  ASSUME IInv, NEW c \in Processes, Declare(c)
  PROVE  IInv'
<1> DEFINE r == txn[c].request
           x == Row(r, txn[c].stamp)
           accepted == ~DeclarationUsed(r) /\ CorrectionWindowOpen
<1>1. /\ txn[c].op = "declare" /\ End(c) /\ UNCHANGED <<clock, evidence>>
      /\ db' = IF accepted THEN [db EXCEPT !.declarations = @ \cup {x}] ELSE db
  BY DEF Declare
<1>2. CASE ~accepted
  BY <1>1, <1>2, RefusalIsSound
<1>3. CASE accepted
  <2>1. TypeOK /\ BooksAre(db) /\ CorrectionsFit(db) /\ ShapesAre
    BY DEF IInv
  <2>2. x \in Rows(Declarations)
    <3>1. r \in Declarations /\ txn[c].stamp \in 0..MaxTime
      BY <1>1, <2>1, TxnTypes
    <3> QED
      BY <3>1 DEF Row, Rows
  <2>3. db' = [db EXCEPT !.declarations = db.declarations \cup {x}]
    BY <1>1, <1>3
  <2> HIDE DEF x
  <2>4. /\ DOMAIN db' = DOMAIN db /\ db'.declarations = db.declarations \cup {x}
        /\ db'.orders = db.orders /\ db'.attempts = db.attempts /\ db'.papers = db.papers
        /\ db'.adjustments = db.adjustments /\ db'.actions = db.actions
        /\ db'.reports = db.reports
    BY <2>1, <2>3 DEF ShapesAre
  <2>5. BooksAre(db')
    <3>1. Closed(db') = Closed(db)
      BY <2>4 DEF Closed
    <3>2. IsFiniteSet(db'.declarations)
      <4>1. IsFiniteSet(db.declarations)
        BY <2>1 DEF BooksAre
      <4>2. IsFiniteSet(db.declarations \cup {x})
        BY <4>1, FS_AddElement
      <4> QED
        BY <2>4, <4>2
    <3> QED
      BY <2>1, <2>2, <2>4, <3>1, <3>2 DEF BooksAre
  <2>6. CorrectionsFit(db')
    BY <2>1, <2>4, ReducedStays
  <2>7. WindowOpen(db) /\ db'.papers \in [Papers -> Rows({"OPEN", "DONE"})]
    BY <1>3, <2>1, <2>4 DEF CorrectionWindowOpen, TypeOK
  <2> QED
    BY <1>1, <2>4, <2>5, <2>6, <2>7, WriteIsSound
<1> QED
  BY <1>2, <1>3

\* An order is closed, or a payment attempt or a paper moves on.
LEMMA CommitIsSound ==
  ASSUME IInv, NEW w \in Processes, CommitOrder(w) \/ CommitAttempt(w) \/ CommitPaper(w)
  PROVE  IInv'
<1>1. /\ TypeOK /\ BooksAre(db) /\ CorrectionsFit(db) /\ ShapesAre
      /\ db.papers \in [Papers -> Rows({"OPEN", "DONE"})]
  BY DEF IInv, TypeOK
<1>2. ASSUME NEW o \in Orders, NEW s \in 0..MaxTime, End(w), UNCHANGED <<clock, evidence>>,
             db' = [db EXCEPT !.orders[o] = Row("CLOSED", s)]
      PROVE  IInv'
  <2>1. Row("CLOSED", s) \in Rows({"OPEN", "CLOSED"}) /\ Row("CLOSED", s).value = "CLOSED"
    BY DEF Row, Rows
  <2>2. /\ DOMAIN db' = DOMAIN db /\ db'.orders = [db.orders EXCEPT ![o] = Row("CLOSED", s)]
        /\ db'.attempts = db.attempts /\ db'.papers = db.papers
        /\ db'.adjustments = db.adjustments /\ db'.declarations = db.declarations
        /\ db'.actions = db.actions /\ db'.reports = db.reports
    BY <1>1, <1>2 DEF ShapesAre
  <2>3. db'.orders \in [Orders -> Rows({"OPEN", "CLOSED"})]
    BY <1>1, <2>1, <2>2 DEF BooksAre
  <2>4. \A x \in Closed(db) : x \in Closed(db')
    BY <1>1, <2>1, <2>2 DEF Closed, BooksAre
  <2>5. BooksAre(db')
    BY <1>1, <2>2, <2>3, <2>4 DEF BooksAre
  <2>6. CorrectionsFit(db')
    BY <1>1, <2>2, ReducedStays
  <2> QED
    BY <1>1, <1>2, <2>2, <2>5, <2>6, WriteIsSound
<1>3. ASSUME NEW o \in ProviderOrders, NEW to \in Results, NEW s \in 0..MaxTime, End(w),
             UNCHANGED <<clock, evidence>>, db' = [db EXCEPT !.attempts[o] = Row(to, s)]
      PROVE  IInv'
  <2>1. Row(to, s) \in Rows({"UNKNOWN", "SUCCEEDED", "FAILED"})
    BY DEF Row, Rows
  <2>2. /\ DOMAIN db' = DOMAIN db /\ db'.attempts = [db.attempts EXCEPT ![o] = Row(to, s)]
        /\ db'.orders = db.orders /\ db'.papers = db.papers
        /\ db'.adjustments = db.adjustments /\ db'.declarations = db.declarations
        /\ db'.actions = db.actions /\ db'.reports = db.reports
    BY <1>1, <1>3 DEF ShapesAre
  <2>3. BooksAre(db')
    BY <1>1, <2>1, <2>2 DEF BooksAre, Closed
  <2>4. CorrectionsFit(db')
    BY <1>1, <2>2, ReducedStays
  <2> QED
    BY <1>1, <1>3, <2>2, <2>3, <2>4, WriteIsSound
<1>4. ASSUME NEW x \in Papers, NEW s \in 0..MaxTime, End(w), UNCHANGED <<clock, evidence>>,
             db' = [db EXCEPT !.papers[x] = Row("DONE", s)]
      PROVE  IInv'
  <2>1. Row("DONE", s) \in Rows({"OPEN", "DONE"})
    BY DEF Row, Rows
  <2>2. /\ DOMAIN db' = DOMAIN db /\ db'.papers = [db.papers EXCEPT ![x] = Row("DONE", s)]
        /\ db'.orders = db.orders /\ db'.attempts = db.attempts
        /\ db'.adjustments = db.adjustments /\ db'.declarations = db.declarations
        /\ db'.actions = db.actions /\ db'.reports = db.reports
    BY <1>1, <1>4 DEF ShapesAre
  <2>3. BooksAre(db')
    BY <1>1, <2>2 DEF BooksAre, Closed
  <2>4. CorrectionsFit(db')
    BY <1>1, <2>2, ReducedStays
  <2>5. db'.papers \in [Papers -> Rows({"OPEN", "DONE"})]
    BY <1>1, <2>1, <2>2
  <2> QED
    BY <1>1, <1>4, <2>2, <2>3, <2>4, <2>5, WriteIsSound
<1>5. CASE CommitOrder(w)
  <2>1. txn[w].request \in Orders /\ txn[w].stamp \in 0..MaxTime
    BY <1>1, <1>5, TxnTypes DEF CommitOrder
  <2>2. End(w) /\ UNCHANGED <<clock, evidence>>
    BY <1>5 DEF CommitOrder
  <2>3. \/ db' = db
        \/ db' = [db EXCEPT !.orders[txn[w].request] = Row("CLOSED", txn[w].stamp)]
    BY <1>5 DEF CommitOrder
  <2> QED
    BY <1>2, <2>1, <2>2, <2>3, RefusalIsSound
<1>6. CASE CommitAttempt(w)
  <2>1. txn[w].request \in [row : ProviderOrders, to : Results] /\ txn[w].stamp \in 0..MaxTime
    BY <1>1, <1>6, TxnTypes DEF CommitAttempt
  <2>2. End(w) /\ UNCHANGED <<clock, evidence>>
    BY <1>6 DEF CommitAttempt
  <2>3. \/ db' = db
        \/ db' = [db EXCEPT !.attempts[txn[w].request.row]
                              = Row(txn[w].request.to, txn[w].stamp)]
    BY <1>6 DEF CommitAttempt
  <2>4. txn[w].request.row \in ProviderOrders /\ txn[w].request.to \in Results
    BY <2>1
  <2> QED
    BY <1>3, <2>1, <2>2, <2>3, <2>4, RefusalIsSound
<1>7. CASE CommitPaper(w)
  <2>1. txn[w].request \in Papers /\ txn[w].stamp \in 0..MaxTime
    BY <1>1, <1>7, TxnTypes DEF CommitPaper
  <2>2. End(w) /\ UNCHANGED <<clock, evidence>>
    BY <1>7 DEF CommitPaper
  <2>3. db' = [db EXCEPT !.papers[txn[w].request] = Row("DONE", txn[w].stamp)]
    BY <1>7 DEF CommitPaper
  <2> QED
    BY <1>4, <2>1, <2>2, <2>3
<1> QED
  BY <1>5, <1>6, <1>7

\* An action more.
LEMMA ActionIsAdded ==
  ASSUME NEW d, d.actions \in Seq(ActionRows), NEW a \in ActionRows,
         NEW e, e.actions = Append(d.actions, a)
  PROVE  LET L == Len(d.actions) IN
         /\ L \in Nat /\ e.actions \in Seq(ActionRows) /\ Len(e.actions) = L + 1
         /\ e.actions[L + 1] = a /\ \A i \in 1..L : e.actions[i] = d.actions[i]
         /\ a.action = "OPERATIONALLY_CLOSE" => Closes(e) = Closes(d) \cup {L + 1}
         /\ a.action = "REOPEN" => Closes(e) = Closes(d) /\ WindowOpen(e)
         /\ \A i \in 1..L : ClosesUpTo(e, i) = ClosesUpTo(d, i)
         /\ IsFiniteSet(Closes(d)) /\ Cardinality(Closes(d)) \in 0..L /\ L + 1 \notin Closes(d)
<1> DEFINE L == Len(d.actions)
<1>1. /\ L \in Nat /\ e.actions \in Seq(ActionRows) /\ Len(e.actions) = L + 1
      /\ e.actions[L + 1] = a /\ \A i \in 1..L : e.actions[i] = d.actions[i]
  OBVIOUS
<1>2. DOMAIN d.actions = 1..L /\ DOMAIN e.actions = 1..(L + 1)
  BY <1>1
<1>3. Closes(d) \subseteq 1..L /\ IsFiniteSet(Closes(d)) /\ Cardinality(Closes(d)) \in 0..L
  BY ClosesType
<1>4. Closes(e) = IF a.action = "OPERATIONALLY_CLOSE" THEN Closes(d) \cup {L + 1} ELSE Closes(d)
  <2>1. \A i : i \in 1..(L + 1) <=> i \in 1..L \/ i = L + 1
    BY <1>1
  <2>2. \A i \in 1..L : i # L + 1
    BY <1>1
  <2> QED
    BY <1>1, <1>2, <2>1, <2>2 DEF Closes
<1>5. a.action = "REOPEN" => Closes(e) = Closes(d) /\ WindowOpen(e)
  <2>1. L + 1 \notin 1..L
    BY <1>1
  <2> QED
    BY <1>1, <1>3, <1>4, <2>1, WindowIs
<1>6. \A i \in 1..L : ClosesUpTo(e, i) = ClosesUpTo(d, i)
  BY <1>1, <1>4 DEF ClosesUpTo
<1>7. L + 1 \notin Closes(d)
  BY <1>1, <1>3
<1> QED
  BY <1>1, <1>3, <1>4, <1>5, <1>6, <1>7

\* A step that adds an action keeps the types, if its number is not too large.
LEMMA ActionTypes ==
  ASSUME IInv, NEW c \in Processes, End(c), UNCHANGED <<clock, evidence>>,
         NEW r \in Actions, NEW n \in 0..(Len(db.actions) + 1), NEW a,
         a = [id |-> r.id, action |-> r.action, revision |-> n],
         DOMAIN db' = DOMAIN db, db'.orders = db.orders, db'.attempts = db.attempts,
         db'.papers = db.papers, db'.adjustments = db.adjustments,
         db'.declarations = db.declarations, db'.actions = Append(db.actions, a)
  PROVE  TypeOK' /\ ShapesAre' /\ a \in ActionRows
<1> DEFINE L == Len(db.actions)
           Upto(k) == [id : {x.id : x \in Actions}, action : ActionKinds, revision : 0..k]
<1>1. L \in Nat /\ TypeOK
  BY ActionsAreLists DEF IInv
<1>2. r.action \in ActionKinds
  OBVIOUS
<1>3. a \in Upto(L + 1) /\ a \in ActionRows
  BY <1>1, <1>2 DEF ActionRows
<1>4. db.actions \in Seq(Upto(L))
  BY <1>1 DEF TypeOK
<1>5. Upto(L) \subseteq Upto(L + 1)
  BY <1>1
<1> HIDE DEF Upto
<1>6. db.actions \in Seq(Upto(L + 1))
  BY <1>4, <1>5
<1>7. db'.actions \in Seq(Upto(L + 1)) /\ Len(db'.actions) = L + 1
  BY <1>3, <1>6
<1>8. TypeOK'
  BY <1>1, <1>7, EndTypes DEF TypeOK, Upto
<1>9. ShapesAre'
  BY EndTypes DEF IInv, ShapesAre
<1> QED
  BY <1>3, <1>8, <1>9

\* A close stores the report of its snapshot, which was still the last word on
\* closes when it had the lock.
LEMMA CloseIsSound ==
  ASSUME IInv, NEW c \in Processes, OperationallyClose(c)
  PROVE  IInv'
<1> DEFINE r == txn[c].request
           s == txn[c].snap
           n == Cardinality(db.reports)
           L == Len(db.actions)
           revision == Max({0} \cup {x.revision : x \in s.reports}) + 1
           accepted == WindowOpen(s) /\ RevisionFree(db, revision) /\ ActionFree(db, r.id)
           report == NewReport(s, r, revision)
           row == [id |-> r.id, action |-> r.action, revision |-> revision]
<1>1. /\ txn[c].op = "OPERATIONALLY_CLOSE" /\ End(c) /\ UNCHANGED <<clock, evidence>>
      /\ db' = IF accepted THEN [db EXCEPT !.reports = @ \cup {report},
                                           !.actions = Append(@, row)]
                           ELSE db
  BY DEF OperationallyClose
<1>2. CASE ~accepted
  BY <1>1, <1>2, RefusalIsSound
<1>3. CASE accepted
  <2>1. /\ TypeOK /\ BooksAre(db) /\ CorrectionsFit(db) /\ ShapesAre
        /\ ReportsAreNumbered(db) /\ ClosesAreNumbered(db)
        /\ BooksAre(s) /\ ReportsAreNumbered(s) /\ ClosesAreNumbered(s) /\ Precedes(s, db)
    BY <1>1 DEF IInv, TxnIsSound, SnapshotIsSound
  <2>2. r \in Actions /\ r.action = "OPERATIONALLY_CLOSE"
    BY <1>1, <2>1, TxnTypes DEF ActionKinds, IsAction
  <2>3. n \in Nat /\ L \in Nat /\ Cardinality(s.reports) \in Nat
    BY <2>1, NewestRevision, ActionsAreLists
  <2>4. revision = n + 1 /\ Cardinality(s.reports) = n
    <3> DEFINE m == Cardinality(s.reports)
    <3>1. revision = m + 1
      BY <2>1, NewestRevision
    <3>2. IsFiniteSet(db.reports) /\ s.reports \subseteq db.reports
      BY <2>1 DEF ReportsAreNumbered, Precedes
    <3>3. m <= n
      BY <3>2, FS_Subset
    <3>4. ~ (m < n)
      <4>1. m + 1 \in 1..n => \E x \in db.reports : x.revision = m + 1
        BY <2>1 DEF ReportsAreNumbered
      <4>2. ~ \E x \in db.reports : x.revision = m + 1
        BY <1>3, <3>1 DEF RevisionFree
      <4> HIDE DEF m, n
      <4> QED
        BY <2>3, <4>1, <4>2 DEF m, n
    <3> HIDE DEF m, n, revision
    <3>5. m = n
      BY <2>3, <3>3, <3>4 DEF m
    <3> QED
      BY <3>1, <3>5 DEF m
  <2>5. Closes(s) = Closes(db) /\ Cardinality(Closes(db)) = n
    <3>1. Cardinality(Closes(s)) = n /\ Cardinality(Closes(db)) = n
      BY <2>1, <2>4 DEF ClosesAreNumbered
    <3>2. IsFiniteSet(Closes(db)) /\ Closes(s) \subseteq 1..Len(s.actions) /\ Len(s.actions) \in Nat
      BY <2>1, ClosesType DEF ClosesAreNumbered
    <3>3. DOMAIN db.actions = 1..L
      BY <2>1, ClosesType DEF ClosesAreNumbered
    <3>4. \A i \in 1..Len(s.actions) : i \in 1..L /\ s.actions[i] = db.actions[i]
      BY <2>1, <2>3, <3>2 DEF Precedes
    <3>5. Closes(s) \subseteq Closes(db)
      BY <3>2, <3>3, <3>4 DEF Closes
    <3> QED
      BY <3>1, <3>2, <3>5, FS_Subset
  <2>6. L \notin Closes(db)
    <3>1. Closes(s) \subseteq 1..Len(s.actions) /\ Len(s.actions) \in Nat
      BY <2>1, ClosesType DEF ClosesAreNumbered
    <3>2. Len(s.actions) <= L
      BY <2>1 DEF Precedes
    <3>3. Len(s.actions) # 0 => Len(s.actions) \notin Closes(s)
      BY <1>3, <2>1, WindowIs DEF ClosesAreNumbered
    <3> QED
      BY <2>3, <2>5, <3>1, <3>2, <3>3
  <2>7. /\ DOMAIN db' = DOMAIN db /\ db'.reports = db.reports \cup {report}
        /\ db'.actions = Append(db.actions, row)
        /\ db'.orders = db.orders /\ db'.attempts = db.attempts /\ db'.papers = db.papers
        /\ db'.adjustments = db.adjustments /\ db'.declarations = db.declarations
    BY <1>1, <1>3, <2>1 DEF ShapesAre
  <2>8. report.revision = n + 1 /\ report.action = r.id /\ report.figures = Figures(s)
        /\ report.version = SourceVersion(s)
        /\ report.corrections = s.adjustments \cup s.declarations
    BY <2>4 DEF NewReport
  <2>9. PICK a : /\ a = row /\ a = [id |-> r.id, action |-> r.action, revision |-> n + 1]
                 /\ a.id = r.id /\ a.action = "OPERATIONALLY_CLOSE" /\ a.revision = n + 1
    <3>1. /\ row = [id |-> r.id, action |-> r.action, revision |-> n + 1]
          /\ row.id = r.id /\ row.action = "OPERATIONALLY_CLOSE" /\ row.revision = n + 1
      BY <2>2, <2>4
    <3> HIDE DEF row
    <3> QED
      BY <3>1
  <2> HIDE DEF r, s, revision, report, row, n, L
  <2>10. IsFiniteSet(db.reports) /\ report \notin db.reports
    BY <2>1, <2>3, <2>8 DEF ReportsAreNumbered, n
  <2>11. IsFiniteSet(db'.reports) /\ Cardinality(db'.reports) = n + 1
    <3>1. /\ IsFiniteSet(db.reports \cup {report})
          /\ Cardinality(db.reports \cup {report}) = Cardinality(db.reports) + 1
      BY <2>10, FS_AddElement
    <3> QED
      BY <2>7, <3>1 DEF n
  <2>12. ReportsAreNumbered(db')
    <3>1. /\ \A q \in db.reports : q.revision \in 1..n
          /\ \A q, x \in db.reports : q.revision = x.revision => q = x
          /\ \A k \in 1..n : \E q \in db.reports : q.revision = k
      BY <2>1 DEF ReportsAreNumbered, n
    <3>2. \A q \in db'.reports : q \in db.reports \/ q = report
      BY <2>7
    <3>3. \A q \in db'.reports : q.revision \in 1..(n + 1)
      BY <2>3, <2>8, <3>1, <3>2
    <3>4. \A q, x \in db'.reports : q.revision = x.revision => q = x
      BY <2>3, <2>8, <3>1, <3>2
    <3>5. \A k \in 1..(n + 1) : \E q \in db'.reports : q.revision = k
      <4>1. \A k \in 1..(n + 1) : k \in 1..n \/ k = n + 1
        BY <2>3
      <4> QED
        BY <2>7, <2>8, <3>1, <4>1
    <3> QED
      BY <2>11, <3>3, <3>4, <3>5 DEF ReportsAreNumbered
  <2>13. a \in ActionRows /\ TypeOK' /\ ShapesAre'
    <3>1. Cardinality(Closes(db)) \in 0..L
      BY <2>1, ClosesType DEF ClosesAreNumbered, L
    <3>2. n + 1 \in 0..(Len(db.actions) + 1)
      BY <2>3, <2>5, <3>1 DEF L
    <3> QED
      BY <1>1, <2>2, <2>7, <2>9, <3>2, ActionTypes
  <2>14. /\ db'.actions \in Seq(ActionRows) /\ Len(db'.actions) = L + 1
         /\ db'.actions[L + 1] = a /\ \A i \in 1..L : db'.actions[i] = db.actions[i]
         /\ Closes(db') = Closes(db) \cup {L + 1} /\ L + 1 \notin Closes(db)
         /\ IsFiniteSet(Closes(db)) /\ Closes(db) \subseteq 1..L
         /\ \A i \in 1..L : ClosesUpTo(db', i) = ClosesUpTo(db, i)
    <3>1. db.actions \in Seq(ActionRows)
      BY <2>1 DEF ClosesAreNumbered
    <3> QED
      BY <2>7, <2>9, <2>13, <3>1, ActionIsAdded, ClosesType DEF L
  <2>15. ClosesAreNumbered(db')
    <3>1. Cardinality(Closes(db')) = n + 1
      BY <2>5, <2>14, FS_AddElement
    <3>2. ASSUME NEW i \in Closes(db')
          PROVE  /\ db'.actions[i].revision = Cardinality(ClosesUpTo(db', i))
                 /\ \E q \in db'.reports : /\ q.revision = db'.actions[i].revision
                                           /\ q.action = db'.actions[i].id
      <4>1. CASE i \in Closes(db)
        <5>1. i \in 1..L /\ db'.actions[i] = db.actions[i] /\ ClosesUpTo(db', i) = ClosesUpTo(db, i)
          BY <2>14, <4>1
        <5>2. /\ db.actions[i].revision = Cardinality(ClosesUpTo(db, i))
              /\ \E q \in db.reports : /\ q.revision = db.actions[i].revision
                                       /\ q.action = db.actions[i].id
          BY <2>1, <4>1 DEF ClosesAreNumbered
        <5> QED
          BY <2>7, <5>1, <5>2
      <4>2. CASE i = L + 1
        <5>1. ClosesUpTo(db', i) = Closes(db')
          BY <2>3, <2>14, <4>2 DEF ClosesUpTo
        <5>2. report \in db'.reports /\ db'.actions[i] = a
          BY <2>7, <2>14, <4>2
        <5> QED
          BY <2>8, <2>9, <3>1, <5>1, <5>2
      <4> QED
        BY <2>14, <3>2, <4>1, <4>2
    <3>3. ASSUME NEW i \in 1..(Len(db'.actions) - 1),
                 db'.actions[i].action = "OPERATIONALLY_CLOSE"
          PROVE  db'.actions[i + 1].action = "REOPEN"
      <4>1. i \in 1..L /\ db.actions[i] = db'.actions[i]
        BY <2>3, <2>14, <3>3
      <4>2. DOMAIN db.actions = 1..L
        BY <2>1, ClosesType DEF ClosesAreNumbered, L
      <4>3. i \in Closes(db)
        BY <3>3, <4>1, <4>2 DEF Closes
      <4>4. i \in 1..(L - 1) /\ i + 1 \in 1..L
        BY <2>3, <2>6, <4>1, <4>3
      <4>5. db.actions[i + 1].action = "REOPEN"
        BY <2>1, <3>3, <4>1, <4>4 DEF ClosesAreNumbered, L
      <4> QED
        BY <2>14, <4>4, <4>5
    <3> QED
      BY <2>11, <2>14, <3>1, <3>2, <3>3 DEF ClosesAreNumbered
  <2>16. BooksAre(db') /\ CorrectionsFit(db')
    BY <2>1, <2>7, ReducedStays DEF BooksAre, Closed
  <2>17. Precedes(db, db')
    BY <2>3, <2>7, <2>14 DEF Precedes, L
  <2>18. ReportIsSound(report, db')
    <3>1. AddsUp(report.figures)
      BY <2>1, <2>8, FiguresAddUp
    <3>2. s.adjustments \subseteq db'.adjustments /\ s.declarations \subseteq db'.declarations
      BY <2>1, <2>7 DEF Precedes
    <3>3. NumbersOf(report.version, s.adjustments, s.declarations)
      BY <2>8 DEF NumbersOf, SourceVersion, Mark
    <3> QED
      BY <2>8, <3>1, <3>2, <3>3 DEF ReportIsSound
  <2>19. EvidenceIsSound'
    BY <1>1, <2>7, <2>10, <2>12, EvidenceStays
  <2>20. \A q \in db'.reports : q \in db.reports \/ ReportIsSound(q, db')
    BY <2>7, <2>18
  <2> QED
    BY <1>1, <2>12, <2>13, <2>15, <2>16, <2>17, <2>19, <2>20, EndTypes, StepIsSound
<1> QED
  BY <1>2, <1>3

\* A reopening writes an action and nothing else.
LEMMA ReopeningIsSound ==
  ASSUME IInv, NEW c \in Processes, Reopen(c)
  PROVE  IInv'
<1> DEFINE r == txn[c].request
           L == Len(db.actions)
           accepted == ~WindowOpen(txn[c].snap) /\ ActionFree(db, r.id)
           row == [id |-> r.id, action |-> r.action, revision |-> 0]
<1>1. /\ txn[c].op = "REOPEN" /\ End(c) /\ UNCHANGED <<clock, evidence>>
      /\ db' = IF accepted THEN [db EXCEPT !.actions = Append(@, row)] ELSE db
  BY DEF Reopen
<1>2. CASE ~accepted
  BY <1>1, <1>2, RefusalIsSound
<1>3. CASE accepted
  <2>1. /\ TypeOK /\ BooksAre(db) /\ CorrectionsFit(db) /\ ShapesAre
        /\ ReportsAreNumbered(db) /\ ClosesAreNumbered(db) /\ L \in Nat
    BY ActionsAreLists DEF IInv
  <2>2. r \in Actions /\ r.action = "REOPEN"
    BY <1>1, <2>1, TxnTypes DEF ActionKinds, IsAction
  <2>3. /\ DOMAIN db' = DOMAIN db /\ db'.reports = db.reports
        /\ db'.actions = Append(db.actions, row)
        /\ db'.orders = db.orders /\ db'.attempts = db.attempts /\ db'.papers = db.papers
        /\ db'.adjustments = db.adjustments /\ db'.declarations = db.declarations
    BY <1>1, <1>3, <2>1 DEF ShapesAre
  <2>4. PICK a : a = row /\ a = [id |-> r.id, action |-> r.action, revision |-> 0] /\ a.action = "REOPEN"
    <3>1. row = [id |-> r.id, action |-> r.action, revision |-> 0] /\ row.action = "REOPEN"
      BY <2>2
    <3> HIDE DEF row
    <3> QED
      BY <3>1
  <2> HIDE DEF r, row, L
  <2>5. a \in ActionRows /\ TypeOK' /\ ShapesAre'
    <3>1. 0 \in 0..(Len(db.actions) + 1)
      BY <2>1 DEF L
    <3> QED
      BY <1>1, <2>2, <2>3, <2>4, <3>1, ActionTypes
  <2>6. /\ db'.actions \in Seq(ActionRows) /\ Len(db'.actions) = L + 1
        /\ db'.actions[L + 1] = a /\ \A i \in 1..L : db'.actions[i] = db.actions[i]
        /\ Closes(db') = Closes(db) /\ WindowOpen(db') /\ Closes(db) \subseteq 1..L
        /\ \A i \in 1..L : ClosesUpTo(db', i) = ClosesUpTo(db, i)
    <3>1. db.actions \in Seq(ActionRows)
      BY <2>1 DEF ClosesAreNumbered
    <3> QED
      BY <2>3, <2>4, <2>5, <3>1, ActionIsAdded, ClosesType DEF L
  <2>7. ClosesAreNumbered(db')
    <3>1. Cardinality(Closes(db')) = Cardinality(db'.reports)
      BY <2>1, <2>3, <2>6 DEF ClosesAreNumbered
    <3>2. ASSUME NEW i \in Closes(db')
          PROVE  /\ db'.actions[i].revision = Cardinality(ClosesUpTo(db', i))
                 /\ \E q \in db'.reports : /\ q.revision = db'.actions[i].revision
                                           /\ q.action = db'.actions[i].id
      <4>1. i \in 1..L /\ i \in Closes(db)
        BY <2>6, <3>2
      <4>2. db'.actions[i] = db.actions[i] /\ ClosesUpTo(db', i) = ClosesUpTo(db, i)
        BY <2>6, <4>1
      <4> QED
        BY <2>1, <2>3, <4>1, <4>2 DEF ClosesAreNumbered
    <3>3. ASSUME NEW i \in 1..(Len(db'.actions) - 1),
                 db'.actions[i].action = "OPERATIONALLY_CLOSE"
          PROVE  db'.actions[i + 1].action = "REOPEN"
      <4>1. i \in 1..L /\ db.actions[i] = db'.actions[i]
        BY <2>1, <2>6, <3>3
      <4>2. CASE i = L
        BY <2>4, <2>6, <4>2
      <4>3. CASE i # L
        <5>1. i \in 1..(L - 1) /\ i + 1 \in 1..L
          BY <2>1, <4>1, <4>3
        <5>2. db.actions[i + 1].action = "REOPEN"
          BY <2>1, <3>3, <4>1, <5>1 DEF ClosesAreNumbered, L
        <5> QED
          BY <2>6, <5>1, <5>2
      <4> QED
        BY <4>2, <4>3
    <3> QED
      BY <2>6, <3>1, <3>2, <3>3 DEF ClosesAreNumbered
  <2>8. BooksAre(db') /\ CorrectionsFit(db') /\ ReportsAreNumbered(db')
    BY <2>1, <2>3, ReducedStays DEF BooksAre, Closed, ReportsAreNumbered
  <2>9. Precedes(db, db')
    BY <2>1, <2>3, <2>6 DEF Precedes, L
  <2>10. EvidenceIsSound'
    BY <1>1, <2>3, <2>6, <2>8, EvidenceStays
  <2> QED
    BY <1>1, <2>3, <2>5, <2>7, <2>8, <2>9, <2>10, EndTypes, StepIsSound
<1> QED
  BY <1>2, <1>3

\* The script fetches a part.
LEMMA EvidenceGrows ==
  ASSUME IInv, NEW part \in Parts, CollectEventCloseEvidence(part)
  PROVE  IInv'
<1>1. /\ part \notin DOMAIN evidence /\ Ready(part) /\ Passes(evidence') /\ UNCHANGED <<db, txn, clock>>
      /\ evidence' = [p \in DOMAIN evidence \cup {part} |->
                        IF p = part THEN Fetched(part) ELSE evidence[p]]
  BY DEF CollectEventCloseEvidence
<1>2. /\ DOMAIN evidence' = DOMAIN evidence \cup {part} /\ evidence'[part] = Fetched(part)
      /\ \A p \in DOMAIN evidence : evidence'[p] = evidence[p] /\ p # part
  BY <1>1
<1>3. TypeOK /\ EvidenceIsSound /\ ReportsAreNumbered(db) /\ ClosesAreNumbered(db) /\ DOMAIN txn = Processes
  BY DEF IInv, ShapesAre
<1>4. TypeOK'
  BY <1>1, <1>2, <1>3 DEF TypeOK
<1>5. ASSUME "version" \in DOMAIN evidence' PROVE "close" \in DOMAIN evidence
  BY <1>1, <1>2, <1>3, <1>5 DEF EvidenceIsSound, Ready
<1>6. ASSUME "reports" \in DOMAIN evidence' PROVE evidence'.reports \subseteq db.reports
  <2>1. CASE part = "reports"
    BY <1>2, <2>1 DEF Fetched
  <2>2. CASE part # "reports"
    BY <1>2, <1>3, <1>6, <2>2 DEF EvidenceIsSound
  <2> QED
    BY <2>1, <2>2
<1>7. ASSUME "close" \in DOMAIN evidence'
      PROVE  evidence'.close.revision \in 0..Cardinality(db.reports)
  <2>1. CASE part = "close"
    <3>1. evidence'.close = CloseSection(db)
      BY <1>2, <2>1 DEF Fetched
    <3> QED
      BY <1>3, <3>1, CloseSectionIs
  <2>2. CASE part # "close"
    BY <1>2, <1>3, <1>7, <2>2 DEF EvidenceIsSound
  <2> QED
    BY <2>1, <2>2
<1>8. ASSUME "version" \in DOMAIN evidence', ~WindowOpen(db),
             evidence'.close.revision = Cardinality(db.reports)
      PROVE  NumbersOf(evidence'.version, db.adjustments, db.declarations)
  <2>1. CASE part = "version"
    <3>1. evidence'.version = SourceVersion(db)
      BY <1>2, <2>1 DEF Fetched
    <3> QED
      BY <3>1 DEF NumbersOf, SourceVersion, Mark
  <2>2. CASE part # "version"
    <3>1. "version" \in DOMAIN evidence /\ "close" \in DOMAIN evidence
      BY <1>2, <1>5, <1>8, <2>2
    <3>2. evidence'.version = evidence.version /\ evidence'.close = evidence.close
      BY <1>2, <3>1
    <3> QED
      BY <1>3, <1>8, <3>1, <3>2 DEF EvidenceIsSound
  <2> QED
    BY <2>1, <2>2
<1>9. EvidenceIsSound'
  BY <1>1, <1>2, <1>5, <1>6, <1>7, <1>8 DEF EvidenceIsSound
<1>10. \A p \in Processes : txn'[p] = txn[p]
  BY <1>1
<1> QED
  BY <1>1, <1>3, <1>4, <1>9, <1>10, TablesStay

\* Every step keeps the invariant.
LEMMA NextIsSound ==
  ASSUME IInv, [Next]_vars
  PROVE  IInv'
<1>1. CASE UNCHANGED vars
  <2>1. TypeOK' /\ DOMAIN txn' = Processes
    BY <1>1 DEF IInv, vars, TypeOK, ShapesAre
  <2> QED
    BY <1>1, <2>1, TablesStay DEF vars
<1>2. ASSUME NEW c \in Clients, Request(c) PROVE IInv'
  <2>1. c \in Processes
    BY DEF Processes
  <2> QED
    BY <1>2, <2>1, StartsAreSound, ActionStarts, AdjustmentIsSound, DeclarationIsSound,
       CloseIsSound, ReopeningIsSound DEF Request
<1>3. ASSUME NEW w \in Writers, Write(w) PROVE IInv'
  <2>1. w \in Processes
    BY DEF Processes
  <2> QED
    BY <1>3, <2>1, StartsAreSound, CommitIsSound DEF Write
<1> QED
  BY <1>1, <1>2, <1>3, EvidenceGrows DEF Next

-----------------------------------------------------------------------------
(* The theorems.                                                            *)

\* The invariant holds in every behaviour of the close.
THEOREM SpecIsSound == Spec => []IInv
<1>1. Init => IInv
  BY InitIsSound
<1>2. IInv /\ [Next]_vars => IInv'
  BY NextIsSound
<1> QED
  BY <1>1, <1>2, PTL DEF Spec

\* TypeOK: the tables, the requests and the evidence are of their types.
THEOREM EventCloseTypes == Spec => []TypeOK
<1>1. IInv => TypeOK
  BY DEF IInv
<1> QED
  BY <1>1, SpecIsSound, PTL

\* BooksAreSound: operationallyClose numbers the stored reports 1, 2, 3, ... as
\* its close actions, recordOrderAdjustment never takes away more than an order
\* was sold for, and every stored report adds up.
THEOREM BooksStaySound == Spec => []BooksAreSound
<1>1. IInv => BooksAreSound
  <2> SUFFICES ASSUME IInv PROVE BooksAreSound
    OBVIOUS
  <2>1. ClosesAreNumbered(db) /\ CorrectionsFit(db) /\ \A r \in db.reports : ReportIsSound(r, db)
    BY DEF IInv
  <2>2. RevisionsAreTheCloses
    BY <2>1 DEF ClosesAreNumbered, ClosesUpTo, RevisionsAreTheCloses
  <2>3. CorrectionsAreBounded
    BY <2>1 DEF CorrectionsFit, CorrectionsAreBounded
  <2>4. ReportsAddUp
    BY <2>1 DEF ReportIsSound, AddsUp, ReportsAddUp
  <2> QED
    BY <2>2, <2>3, <2>4 DEF BooksAreSound
<1> QED
  BY <1>1, SpecIsSound, PTL

\* The report with the greatest revision of a whole history is one of them.
LEMMA HighestIsStored ==
  ASSUME NEW S, IsFiniteSet(S), HistoryIsWhole(S)
  PROVE  Highest(S) \in S
<1> DEFINE n == Cardinality(S)
<1>1. S # {} /\ {r.revision : r \in S} = 1..n /\ n \in Nat
  BY FS_CardinalityType DEF HistoryIsWhole
<1> HIDE DEF n
<1>2. n \in 1..n
  <2>1. PICK r \in S : TRUE
    BY <1>1
  <2>2. r.revision \in 1..n
    BY <1>1
  <2> QED
    BY <1>1, <2>2
<1>3. PICK r \in S : r.revision = n
  BY <1>1, <1>2
<1>4. \A x \in S : x.revision <= r.revision
  <2>1. \A x \in S : x.revision \in 1..n
    BY <1>1
  <2> QED
    BY <1>1, <1>3, <2>1
<1> QED
  BY <1>4 DEF Highest

\* A part of a finite set that is as large is all of it.
LEMMA AsLarge ==
  ASSUME NEW S, IsFiniteSet(S), NEW T \in SUBSET S, Cardinality(T) = Cardinality(S)
  PROVE  T = S
  BY FS_Subset

\* CertifiedCloseIsComplete: while the close that collectEventCloseEvidence
\* certified stands, the stored report has every committed correction, though
\* the three requests of the script and the snapshot of the close were taken at
\* different times.
THEOREM CertifiedIsComplete == Spec => []CertifiedCloseIsComplete
<1>1. IInv => CertifiedCloseIsComplete
  <2> SUFFICES ASSUME IInv, Certified, CloseSection(db).state = "OPERATIONALLY_CLOSED",
                      CloseSection(db).revision = evidence.close.revision
               PROVE  Highest(evidence.reports).corrections = db.adjustments \cup db.declarations
    BY DEF CertifiedCloseIsComplete
  <2> DEFINE report == Highest(evidence.reports)
  <2>1. /\ BooksAre(db) /\ ReportsAreNumbered(db) /\ ClosesAreNumbered(db) /\ EvidenceIsSound
        /\ \A r \in db.reports : ReportIsSound(r, db)
    BY DEF IInv
  <2>2. /\ "close" \in DOMAIN evidence /\ "version" \in DOMAIN evidence
        /\ "reports" \in DOMAIN evidence
        /\ SourceStable(evidence.close, evidence.version)
        /\ LiveAlignment(evidence.close, evidence.reports) /\ HistoryIsWhole(evidence.reports)
    BY DEF Certified, Passes, Parts
  <2>3. report \in db.reports
    <3>1. evidence.reports \subseteq db.reports /\ IsFiniteSet(evidence.reports)
      BY <2>1, <2>2, FS_Subset DEF EvidenceIsSound, ReportsAreNumbered
    <3> QED
      BY <2>2, <3>1, HighestIsStored
  <2>4. ~WindowOpen(db)
    <3>1. CloseSection(db).state = StateFromAction(db)
      BY <2>1, CloseSectionIs
    <3> QED
      BY <3>1 DEF WindowOpen
  <2>5. evidence.close.revision = Cardinality(db.reports)
    BY <2>1, <2>4, CloseSectionIs
  <2>6. NumbersOf(evidence.version, db.adjustments, db.declarations)
    BY <2>1, <2>2, <2>4, <2>5 DEF EvidenceIsSound
  <2>7. report.version = evidence.version
    BY <2>2 DEF SourceStable, LiveAlignment
  <2> HIDE DEF report
  <2>8. PICK A \in SUBSET db.adjustments, D \in SUBSET db.declarations :
          report.corrections = A \cup D /\ NumbersOf(report.version, A, D)
    BY <2>1, <2>3 DEF ReportIsSound
  <2>9. Cardinality(A) = Cardinality(db.adjustments) /\ Cardinality(D) = Cardinality(db.declarations)
    BY <2>6, <2>7, <2>8 DEF NumbersOf
  <2>10. A = db.adjustments /\ D = db.declarations
    BY <2>1, <2>9, AsLarge DEF BooksAre
  <2> QED
    BY <2>8, <2>10 DEF report
<1> QED
  BY <1>1, SpecIsSound, PTL

\* CorrectionsStopAtClose: no correction is recorded behind a close, whatever
\* waited for the event's advisory lock.
THEOREM CorrectionsStop == Spec => CorrectionsStopAtClose
<1>1. ASSUME IInv, [Next]_vars, ~WindowOpen(db)
      PROVE  db'.adjustments = db.adjustments /\ db'.declarations = db.declarations
  <2>1. CASE UNCHANGED db
    BY <2>1
  <2>2. "adjustments" \in DOMAIN db /\ "declarations" \in DOMAIN db
    BY <1>1 DEF IInv, ShapesAre
  <2>3. ASSUME NEW c \in Clients, Request(c)
        PROVE  db'.adjustments = db.adjustments /\ db'.declarations = db.declarations
    BY <1>1, <2>2, <2>3
       DEF Request, BeginAdjustment, BeginDeclaration, BeginAction, Start,
           RecordOrderAdjustment, Declare, OperationallyClose, Reopen, CorrectionWindowOpen
  <2>4. ASSUME NEW w \in Writers, Write(w)
        PROVE  db'.adjustments = db.adjustments /\ db'.declarations = db.declarations
    BY <2>2, <2>4 DEF Write, BeginWrite, Start, CommitOrder, CommitAttempt, CommitPaper
  <2>5. ASSUME NEW part \in Parts, CollectEventCloseEvidence(part) PROVE UNCHANGED db
    BY <2>5 DEF CollectEventCloseEvidence
  <2> QED
    BY <1>1, <2>1, <2>3, <2>4, <2>5 DEF Next, vars
<1>2. IInv /\ [Next]_vars
        => [~WindowOpen(db) => /\ db'.adjustments = db.adjustments
                               /\ db'.declarations = db.declarations]_vars
  BY <1>1
<1> QED
  BY <1>2, SpecIsSound, PTL DEF Spec, CorrectionsStopAtClose

-----------------------------------------------------------------------------
(* EventSimulation.  The invariant: how the queues, the numbers given out and  *)
(* the ids applied fit together.                                              *)

\* Orders and transfers are numbered from the sequence, each transfer once.
NumbersAreSpent ==
  /\ \A o \in orders : o <= sequence
  /\ \A i \in DOMAIN transfers : transfers[i].id <= sequence
  /\ \A i, j \in DOMAIN transfers : transfers[i].id = transfers[j].id => i = j
  /\ \A id \in edgeApplied : id[1] <= sequence

\* What a register has queued Edge has not applied; it stands there once and adds nothing.
LocalQueueIsSound ==
  /\ \A i \in DOMAIN localQueue :
       /\ localQueue[i].kind # "TRANSFER" /\ localQueue[i].of \in orders
       /\ localQueue[i].delta <= 0 /\ IdOf(localQueue[i]) \notin edgeApplied
  /\ \A i, j \in DOMAIN localQueue : IdOf(localQueue[i]) = IdOf(localQueue[j]) => i = j

\* What Edge has queued it has applied, and a repeated mutation is the same one.
EdgeQueueIsSound ==
  /\ \A m \in Range(edgeQueue) : IdOf(m) \in edgeApplied /\ (m.kind = "ORDER" => m.of \in orders)
  /\ \A m, k \in Range(edgeQueue) : IdOf(m) = IdOf(k) => m = k
  /\ \A i \in OnTheWay : <<transfers[i].id, "TRANSFER">> \notin edgeApplied

\* The Cloud has what Edge has applied, and its orders by what it has applied.
CloudIsBehind ==
  /\ cloudApplied \subseteq edgeApplied
  /\ \A o \in cloudOrders : <<o, "ORDER">> \in cloudApplied

\* An order's mutation is queued at a register until Edge applies it, and what
\* Edge applied is queued until the Cloud does, which then has the order; a
\* number is spent on an order or a transfer.
NothingIsLost ==
  /\ sequence = Cardinality(orders) + Len(transfers)
  /\ \A o \in orders : \/ <<o, "ORDER">> \in edgeApplied
                        \/ \E m \in Range(localQueue) : IdOf(m) = <<o, "ORDER">>
  /\ \A id \in edgeApplied : id \in cloudApplied \/ \E m \in Range(edgeQueue) : IdOf(m) = id
  /\ \A o \in orders : <<o, "ORDER">> \in cloudApplied => o \in cloudOrders
-----------------------------------------------------------------------------
(* EventSimulation: sequences whose elements are taken or repeated.         *)

CopyStep(seq, times, g, i) ==
  IF i = 0 THEN <<>> ELSE g[i - 1] \o [n \in 1..times[i] |-> seq[i]]

\* The recursive definition is a function: by induction on the prefixes.
LEMMA RepeatedIsDefined ==
  ASSUME NEW seq, Len(seq) \in Nat, NEW times
  PROVE  \E g : /\ g = [i \in 0..Len(seq) |-> CopyStep(seq, times, g, i)]
                /\ Repeated(seq, times) = g[Len(seq)]
<1> DEFINE n == Len(seq)
           S == {m \in 0..n : \E g : g = [i \in 0..m |-> CopyStep(seq, times, g, i)]}
<1>1. 0 \in S
  <2> DEFINE g == [i \in 0..0 |-> <<>>]
  <2>1. g = [i \in 0..0 |-> CopyStep(seq, times, g, i)]
    BY DEF CopyStep
  <2>2. \E f : f = [i \in 0..0 |-> CopyStep(seq, times, f, i)]
    BY <2>1
  <2> QED
    BY <2>2
<1>2. ASSUME NEW m \in 0..n, m # n, m \in S
      PROVE  m + 1 \in S
  <2>1. PICK g : g = [i \in 0..m |-> CopyStep(seq, times, g, i)]
    BY <1>2
  <2> DEFINE h == [i \in 0..m + 1 |-> IF i = m + 1 THEN CopyStep(seq, times, g, i) ELSE g[i]]
  <2>2. ASSUME NEW i \in 0..m + 1 PROVE h[i] = CopyStep(seq, times, h, i)
    <3>1. CASE i = 0
      <4>1. h[i] = g[i] /\ g[i] = CopyStep(seq, times, g, i)
        BY <2>1, <3>1
      <4> QED
        BY <3>1, <4>1 DEF CopyStep
    <3>2. CASE i # 0
      <4>1. i - 1 \in 0..m /\ h[i - 1] = g[i - 1]
        BY <3>2
      <4>2. CopyStep(seq, times, h, i) = CopyStep(seq, times, g, i)
        <5> HIDE DEF h
        <5> QED
          BY <3>2, <4>1 DEF CopyStep
      <4>3. h[i] = CopyStep(seq, times, g, i)
        BY <2>1, <3>2
      <4> QED
        BY <4>2, <4>3
    <3> QED
      BY <3>1, <3>2
  <2>3. h = [i \in 0..m + 1 |-> CopyStep(seq, times, h, i)]
    BY <2>2
  <2> HIDE DEF h
  <2> QED
    BY <1>2, <2>3
<1> HIDE DEF S
<1>3. 0..n \subseteq S
  BY <1>1, <1>2, UpTo
<1> USE DEF S
<1>4. \E g : g = [i \in 0..n |-> CopyStep(seq, times, g, i)]
  BY <1>3
<1> DEFINE h == CHOOSE g : g = [i \in 0..n |-> CopyStep(seq, times, g, i)]
<1>5. h = [i \in 0..n |-> CopyStep(seq, times, h, i)]
  BY <1>4
<1>6. Repeated(seq, times) = h[n]
  BY DEF Repeated, CopyStep
<1> HIDE DEF h
<1> QED
  BY <1>5, <1>6

\* r is made of copies of the first i elements; p tells of which.
AreCopies(seq, times, r, i, p) ==
  /\ p \in [1..Len(r) -> {k \in 1..i : times[k] > 0}]
  /\ \A n \in 1..Len(r) : r[n] = seq[p[n]]
  /\ \A k \in 1..i : times[k] > 0 => \E n \in 1..Len(r) : p[n] = k
  /\ (\A k \in 1..i : times[k] <= 1) => \A m, n \in 1..Len(r) : p[m] = p[n] => m = n

\* A repeated sequence is made of copies of the elements that stand in it.
LEMMA RepeatedIsCopies ==
  ASSUME NEW S, NEW seq \in Seq(S), NEW times \in [1..Len(seq) -> Nat]
  PROVE  /\ Repeated(seq, times) \in Seq(S)
         /\ \E p : AreCopies(seq, times, Repeated(seq, times), Len(seq), p)
<1> DEFINE n == Len(seq)
<1>1. n \in Nat /\ \A i \in 1..n : seq[i] \in S
  OBVIOUS
<1>2. PICK g : g = [i \in 0..n |-> CopyStep(seq, times, g, i)] /\ Repeated(seq, times) = g[n]
  BY <1>1, RepeatedIsDefined
<1> DEFINE T == {i \in 0..n : g[i] \in Seq(S) /\ \E p : AreCopies(seq, times, g[i], i, p)}
<1>3. 0 \in T
  <2>1. g[0] = <<>>
    BY <1>1, <1>2 DEF CopyStep
  <2> DEFINE p == [k \in 1..0 |-> 0]
  <2>2. AreCopies(seq, times, <<>>, 0, p)
    BY DEF AreCopies
  <2> HIDE DEF p
  <2>3. 0 \in 0..n /\ g[0] \in Seq(S)
    BY <1>1, <2>1
  <2>4. \E q : AreCopies(seq, times, g[0], 0, q)
    BY <2>1, <2>2
  <2> QED
    BY <2>3, <2>4
<1>4. ASSUME NEW i \in 0..n, i # n, i \in T
      PROVE  i + 1 \in T
  <2> DEFINE t == times[i + 1]
             r == g[i]
             new == [k \in 1..t |-> seq[i + 1]]
             L == Len(r)
  <2>1. PICK p : AreCopies(seq, times, r, i, p)
    BY <1>4
  <2>2. i + 1 \in 1..n /\ i + 1 \in 0..n /\ t \in Nat /\ r \in Seq(S) /\ L \in Nat
    BY <1>1, <1>4
  <2>3. g[i + 1] = r \o new
    <3>1. g[i + 1] = CopyStep(seq, times, g, i + 1)
      BY <1>2, <2>2
    <3>2. i + 1 # 0 /\ (i + 1) - 1 = i
      BY <1>1
    <3> QED
      BY <3>1, <3>2 DEF CopyStep
  <2>4. new \in Seq(S) /\ Len(new) = t
    BY <1>1, <2>2
  <2> DEFINE q == [k \in 1..(L + t) |-> IF k <= L THEN p[k] ELSE i + 1]
  <2>5. /\ r \o new \in Seq(S) /\ Len(r \o new) = L + t
        /\ \A k \in 1..(L + t) : (r \o new)[k] = IF k <= L THEN r[k] ELSE seq[i + 1]
    <3> HIDE DEF r
    <3>1. r \o new \in Seq(S) /\ Len(r \o new) = L + t
      BY <2>2, <2>4
    <3>2. ASSUME NEW k \in 1..(L + t)
          PROVE  (r \o new)[k] = IF k <= L THEN r[k] ELSE seq[i + 1]
      <4>1. (r \o new)[k] = IF k <= L THEN r[k] ELSE new[k - L]
        <5> HIDE DEF new
        <5> QED
          BY <2>2, <2>4
      <4>2. k <= L \/ k - L \in 1..t
        BY <2>2
      <4> QED
        BY <4>1, <4>2
    <3> QED
      BY <3>1, <3>2
  <2> HIDE DEF r, new, L, t
  <2>6. AreCopies(seq, times, r \o new, i + 1, q)
    <3>1. q \in [1..(L + t) -> {k \in 1..(i + 1) : times[k] > 0}]
      <4>1. ASSUME NEW k \in 1..(L + t) PROVE q[k] \in {j \in 1..(i + 1) : times[j] > 0}
        <5>1. CASE k <= L
          <6>1. p \in [1..L -> {j \in 1..i : times[j] > 0}]
            BY <2>1 DEF AreCopies, L
          <6>2. k \in 1..L /\ q[k] = p[k]
            BY <2>2, <5>1
          <6>3. p[k] \in 1..i /\ times[p[k]] > 0
            BY <6>1, <6>2
          <6>4. p[k] \in 1..(i + 1)
            BY <1>1, <6>3
          <6> QED
            BY <6>2, <6>3, <6>4
        <5>2. CASE ~(k <= L)
          <6>1. t > 0
            BY <2>2, <5>2
          <6> QED
            BY <2>2, <5>2, <6>1 DEF t
        <5> QED
          BY <5>1, <5>2
      <4> QED
        BY <4>1
    <3>2. ASSUME NEW k \in 1..(L + t) PROVE (r \o new)[k] = seq[q[k]]
      <4>1. CASE k <= L
        BY <2>1, <2>2, <2>5, <4>1 DEF AreCopies, L
      <4>2. CASE ~(k <= L)
        BY <2>5, <4>2
      <4> QED
        BY <4>1, <4>2
    <3>3. ASSUME NEW k \in 1..(i + 1), times[k] > 0
          PROVE  \E m \in 1..(L + t) : q[m] = k
      <4>1. CASE k = i + 1
        <5>1. t \in Nat /\ t > 0
          BY <2>2, <3>3, <4>1 DEF t
        <5>2. L + t \in 1..(L + t) /\ ~(L + t <= L)
          BY <2>2, <5>1
        <5> QED
          BY <4>1, <5>2
      <4>2. CASE k # i + 1
        <5>1. k \in 1..i
          BY <4>2
        <5>2. PICK m \in 1..L : p[m] = k
          BY <2>1, <3>3, <5>1 DEF AreCopies, L
        <5>3. m \in 1..(L + t) /\ m <= L
          BY <2>2
        <5> QED
          BY <5>2, <5>3
      <4> QED
        BY <4>1, <4>2
    <3>4. ASSUME \A k \in 1..(i + 1) : times[k] <= 1,
                 NEW k \in 1..(L + t), NEW m \in 1..(L + t), q[k] = q[m]
          PROVE  k = m
      <4>1. t <= 1
        BY <2>2, <3>4 DEF t
      <4>2. \A j \in 1..L : p[j] \in 1..i
        BY <2>1 DEF AreCopies, L
      <4>3. \A j \in 1..L, l \in 1..L : p[j] = p[l] => j = l
        BY <2>1, <3>4 DEF AreCopies, L
      <4>4. CASE k <= L /\ m <= L
        BY <2>2, <3>4, <4>3, <4>4
      <4>5. CASE k <= L /\ ~(m <= L)
        <5>1. q[k] \in 1..i /\ q[m] = i + 1
          BY <2>2, <4>2, <4>5
        <5> QED
          BY <3>4, <5>1
      <4>6. CASE ~(k <= L) /\ m <= L
        <5>1. q[m] \in 1..i /\ q[k] = i + 1
          BY <2>2, <4>2, <4>6
        <5> QED
          BY <3>4, <5>1
      <4>7. CASE ~(k <= L) /\ ~(m <= L)
        BY <2>2, <4>1, <4>7
      <4> QED
        BY <4>4, <4>5, <4>6, <4>7
    <3> HIDE DEF q
    <3> QED
      BY <2>5, <3>1, <3>2, <3>3, <3>4 DEF AreCopies
  <2> HIDE DEF q
  <2> QED
    BY <2>2, <2>3, <2>5, <2>6
<1> HIDE DEF T
<1>5. 0..n \subseteq T
  BY <1>1, <1>3, <1>4, UpTo
<1> USE DEF T
<1>6. n \in T
  BY <1>1, <1>5
<1> QED
  BY <1>2, <1>6

\* r has the elements of these places, each once; p tells of which.
AreTaken(r, seq, places) ==
  \E p \in [1..Len(r) -> places] :
    /\ \A n \in 1..Len(r) : r[n] = seq[p[n]]
    /\ \A k \in places : \E n \in 1..Len(r) : p[n] = k
    /\ \A m, n \in 1..Len(r) : p[m] = p[n] => m = n

\* What is taken from a sequence: the elements of these places, each once.
LEMMA ElementsAre ==
  ASSUME NEW S, NEW seq \in Seq(S), NEW places \in SUBSET (1..Len(seq))
  PROVE  /\ Elements(seq, places) \in Seq(S)
         /\ AreTaken(Elements(seq, places), seq, places)
<1> DEFINE times == [i \in DOMAIN seq |-> IF i \in places THEN 1 ELSE 0]
           r == Repeated(seq, times)
<1>1. times \in [1..Len(seq) -> Nat] /\ Elements(seq, places) = r
  BY DEF Elements
<1>2. {k \in 1..Len(seq) : times[k] > 0} = places /\ \A k \in 1..Len(seq) : times[k] <= 1
  <2>1. ASSUME NEW k \in 1..Len(seq) PROVE times[k] = IF k \in places THEN 1 ELSE 0
    OBVIOUS
  <2> HIDE DEF times
  <2>2. ASSUME NEW k \in 1..Len(seq) PROVE times[k] <= 1 /\ (times[k] > 0 <=> k \in places)
    BY <2>1
  <2> QED
    BY <2>2
<1> HIDE DEF times
<1>3. r \in Seq(S) /\ \E p : AreCopies(seq, times, r, Len(seq), p)
  BY <1>1, RepeatedIsCopies
<1> HIDE DEF r
<1>4. PICK p : AreCopies(seq, times, r, Len(seq), p)
  BY <1>3
<1>5. /\ p \in [1..Len(r) -> places]
      /\ \A n \in 1..Len(r) : r[n] = seq[p[n]]
      /\ \A m, n \in 1..Len(r) : p[m] = p[n] => m = n
  BY <1>2, <1>4 DEF AreCopies
<1>6. \A k \in places : \E n \in 1..Len(r) : p[n] = k
  BY <1>2, <1>4 DEF AreCopies
<1>7. AreTaken(r, seq, places)
  BY <1>5, <1>6 DEF AreTaken
<1> QED
  BY <1>1, <1>3, <1>7

\* So a set of places gives the set of their elements.
LEMMA RangeOfElements ==
  ASSUME NEW S, NEW seq \in Seq(S), NEW places \in SUBSET (1..Len(seq))
  PROVE  Range(Elements(seq, places)) = {seq[i] : i \in places}
<1> DEFINE r == Elements(seq, places)
<1>1. r \in Seq(S)
  BY ElementsAre
<1>2. PICK p \in [1..Len(r) -> places] :
        /\ \A n \in 1..Len(r) : r[n] = seq[p[n]]
        /\ \A k \in places : \E n \in 1..Len(r) : p[n] = k
  BY ElementsAre DEF AreTaken
<1>3. DOMAIN r = 1..Len(r)
  BY <1>1
<1> HIDE DEF r
<1>4. Range(r) = {seq[i] : i \in places}
  <2>1. ASSUME NEW m \in Range(r) PROVE m \in {seq[i] : i \in places}
    <3>1. PICK n \in 1..Len(r) : m = r[n]
      BY <1>3 DEF Range
    <3>2. p[n] \in places /\ r[n] = seq[p[n]]
      BY <1>2
    <3> QED
      BY <3>1, <3>2
  <2>2. ASSUME NEW i \in places PROVE seq[i] \in Range(r)
    <3>1. PICK n \in 1..Len(r) : p[n] = i
      BY <1>2
    <3>2. r[n] = seq[i]
      BY <1>2, <3>1
    <3> QED
      BY <1>3, <3>2 DEF Range
  <2> QED
    BY <2>1, <2>2
<1> QED
  BY <1>4 DEF r

\* Repetition adds no element.
LEMMA RangeOfDoubled ==
  ASSUME NEW S, NEW seq \in Seq(S), NEW again
  PROVE  Doubled(seq, again) \in Seq(S) /\ Range(Doubled(seq, again)) = Range(seq)
<1> DEFINE times == [i \in DOMAIN seq |-> IF i \in again THEN 2 ELSE 1]
           r == Repeated(seq, times)
<1>1. times \in [1..Len(seq) -> Nat] /\ Doubled(seq, again) = r
  BY DEF Doubled
<1>2. \A k \in 1..Len(seq) : times[k] > 0
  OBVIOUS
<1> HIDE DEF times
<1>3. r \in Seq(S) /\ \E p : AreCopies(seq, times, r, Len(seq), p)
  BY <1>1, RepeatedIsCopies
<1> HIDE DEF r
<1>4. PICK p : AreCopies(seq, times, r, Len(seq), p)
  BY <1>3
<1>5. /\ p \in [1..Len(r) -> 1..Len(seq)]
      /\ \A n \in 1..Len(r) : r[n] = seq[p[n]]
      /\ \A k \in 1..Len(seq) : \E n \in 1..Len(r) : p[n] = k
  BY <1>2, <1>4 DEF AreCopies
<1>6. DOMAIN r = 1..Len(r) /\ DOMAIN seq = 1..Len(seq)
  BY <1>3
<1>7. Range(r) = Range(seq)
  <2>1. ASSUME NEW m \in Range(r) PROVE m \in Range(seq)
    <3>1. PICK n \in 1..Len(r) : m = r[n]
      BY <1>6 DEF Range
    <3>2. m = seq[p[n]] /\ p[n] \in DOMAIN seq
      BY <1>5, <1>6, <3>1
    <3> QED
      BY <3>2 DEF Range
  <2>2. ASSUME NEW m \in Range(seq) PROVE m \in Range(r)
    <3>1. PICK k \in 1..Len(seq) : m = seq[k]
      BY <1>6 DEF Range
    <3>2. PICK n \in 1..Len(r) : p[n] = k
      BY <1>5
    <3>3. m = r[n] /\ n \in DOMAIN r
      BY <1>5, <1>6, <3>1, <3>2
    <3> QED
      BY <3>3 DEF Range
  <2> QED
    BY <2>1, <2>2
<1> QED
  BY <1>1, <1>3, <1>7

-----------------------------------------------------------------------------
(* EventSimulation: sums over bars, and the effect of a set of mutations.   *)

\* Two sets without a common element add up.
LEMMA SumOfUnion ==
  ASSUME NEW S, IsFiniteSet(S), NEW T, IsFiniteSet(T), S \cap T = {},
         NEW f, \A x \in S \cup T : f[x] \in Int
  PROVE  SumFunctionOnSet(f, S \cup T) = SumFunctionOnSet(f, S) + SumFunctionOnSet(f, T)
<1> DEFINE P == {t \in SUBSET T : SumFunctionOnSet(f, S \cup t)
                                    = SumFunctionOnSet(f, S) + SumFunctionOnSet(f, t)}
<1>0. SumFunctionOnSet(f, S) \in Int
  BY SumLess
<1>1. ASSUME NEW t \in SUBSET T, \A x \in t : t \ {x} \in P PROVE t \in P
  <2>1. CASE t = {}
    <3>1. S \cup t = S
      BY <2>1
    <3> QED
      BY <1>0, <2>1, <3>1, SumOfNone
  <2>2. CASE t # {}
    <3>1. PICK x \in t : TRUE
      BY <2>2
    <3> DEFINE r == t \ {x}
    <3>2. /\ IsFiniteSet(t) /\ IsFiniteSet(r) /\ IsFiniteSet(S \cup t)
          /\ x \in S \cup t /\ (S \cup t) \ {x} = S \cup r
          /\ \A y \in S \cup t : f[y] \in Int
      BY FS_Subset, FS_Union
    <3>3. SumFunctionOnSet(f, S \cup t) = f[x] + SumFunctionOnSet(f, S \cup r)
      BY <3>2, SumLess
    <3>4. SumFunctionOnSet(f, t) = f[x] + SumFunctionOnSet(f, r) /\ SumFunctionOnSet(f, r) \in Int
      BY <3>2, SumLess
    <3>5. SumFunctionOnSet(f, S \cup r) = SumFunctionOnSet(f, S) + SumFunctionOnSet(f, r)
      BY <1>1
    <3>6. f[x] \in Int
      BY <3>2
    <3> HIDE DEF r
    <3> QED
      BY <1>0, <3>3, <3>4, <3>5, <3>6
  <2> QED
    BY <2>1, <2>2
<1> HIDE DEF P
<1>2. SUBSET T \subseteq P
  BY <1>1, SubsetInduction
<1> QED
  BY <1>2 DEF P

\* The sum of sums.
LEMMA SumOfSums ==
  ASSUME NEW S, IsFiniteSet(S), NEW f, NEW g, NEW h,
         \A x \in S : f[x] \in Int /\ g[x] \in Int /\ h[x] = f[x] + g[x]
  PROVE  SumFunctionOnSet(h, S) = SumFunctionOnSet(f, S) + SumFunctionOnSet(g, S)
<1>1. \A x \in S : h[x] \in Int /\ f[x] = h[x] - g[x]
  OBVIOUS
<1>2. SumFunctionOnSet(f, S) = SumFunctionOnSet(h, S) - SumFunctionOnSet(g, S)
  BY <1>1, SumOfDifferences
<1>3. SumFunctionOnSet(h, S) \in Int /\ SumFunctionOnSet(g, S) \in Int
  BY <1>1, SumLess
<1> QED
  BY <1>2, <1>3

\* Equal values: as often as there are elements.
LEMMA SumOfEquals ==
  ASSUME NEW S, IsFiniteSet(S), NEW c \in Int, NEW f, \A x \in S : f[x] = c
  PROVE  SumFunctionOnSet(f, S) = Cardinality(S) * c
<1> DEFINE P == {s \in SUBSET S : SumFunctionOnSet(f, s) = Cardinality(s) * c}
<1>1. ASSUME NEW s \in SUBSET S, \A x \in s : s \ {x} \in P PROVE s \in P
  <2>1. CASE s = {}
    <3>1. Cardinality(s) = 0 /\ SumFunctionOnSet(f, s) = 0
      BY <2>1, SumOfNone, FS_EmptySet
    <3>2. 0 * c = 0
      OBVIOUS
    <3> QED
      BY <3>1, <3>2
  <2>2. CASE s # {}
    <3>1. PICK x \in s : TRUE
      BY <2>2
    <3> DEFINE r == s \ {x}
    <3>2. IsFiniteSet(s) /\ IsFiniteSet(r) /\ \A y \in s : f[y] \in Int
      BY FS_Subset
    <3>3. SumFunctionOnSet(f, s) = f[x] + SumFunctionOnSet(f, r)
      BY <3>2, SumLess
    <3>4. SumFunctionOnSet(f, r) = Cardinality(r) * c
      BY <1>1
    <3>5. Cardinality(s) = Cardinality(r) + 1 /\ Cardinality(r) \in Nat
      <4>1. s = r \cup {x} /\ x \notin r
        OBVIOUS
      <4> QED
        BY <3>2, <4>1, FS_AddElement, FS_CardinalityType
    <3>6. f[x] = c
      OBVIOUS
    <3>7. (Cardinality(r) + 1) * c = Cardinality(r) * c + c
      BY <3>5
    <3> HIDE DEF r
    <3>8. SumFunctionOnSet(f, s) = Cardinality(s) * c
      <4>1. Cardinality(r) * c \in Int
        BY <3>5
      <4> QED
        BY <3>3, <3>4, <3>5, <3>6, <3>7, <4>1
    <3> QED
      BY <3>8
  <2> QED
    BY <2>1, <2>2
<1> HIDE DEF P
<1>2. SUBSET S \subseteq P
  BY <1>1, SubsetInduction
<1> QED
  BY <1>2 DEF P

\* One value changed.
LEMMA SumOfChange ==
  ASSUME NEW S, IsFiniteSet(S), NEW x \in S, NEW f, NEW h,
         \A y \in S : f[y] \in Int /\ h[y] \in Int, \A y \in S \ {x} : h[y] = f[y]
  PROVE  SumFunctionOnSet(h, S) = SumFunctionOnSet(f, S) + h[x] - f[x]
<1> DEFINE r == S \ {x}
<1>1. IsFiniteSet(r)
  BY FS_Subset
<1>2. SumFunctionOnSet(h, S) = h[x] + SumFunctionOnSet(h, r)
  BY SumLess
<1>3. SumFunctionOnSet(f, S) = f[x] + SumFunctionOnSet(f, r) /\ SumFunctionOnSet(f, r) \in Int
  BY <1>1, SumLess
<1>4. SumFunctionOnSet(h, r) = SumFunctionOnSet(f, r)
  BY <1>1, SameSum
<1> HIDE DEF r
<1> QED
  BY <1>2, <1>3, <1>4

\* A sequence has finitely many elements.
LEMMA RangeIsFinite ==
  ASSUME NEW S, NEW seq \in Seq(S)
  PROVE  IsFiniteSet(Range(seq)) /\ Range(seq) \subseteq S
<1>1. DOMAIN seq = 1..Len(seq) /\ Len(seq) \in Nat /\ \A i \in 1..Len(seq) : seq[i] \in S
  OBVIOUS
<1>2. IsFiniteSet(1..Len(seq))
  BY <1>1, CountUpTo
<1>3. Range(seq) = {seq[i] : i \in 1..Len(seq)}
  BY <1>1 DEF Range
<1>4. IsFiniteSet({seq[i] : i \in 1..Len(seq)})
  BY <1>2, ImageIsFinite
<1> QED
  BY <1>1, <1>3, <1>4

\* A sequence after another: its places, its elements, and what stands where.
LEMMA ElementsOfBoth ==
  ASSUME NEW S, NEW s \in Seq(S), NEW t \in Seq(S)
  PROVE  /\ s \o t \in Seq(S) /\ Len(s \o t) = Len(s) + Len(t)
         /\ DOMAIN s = 1..Len(s) /\ DOMAIN t = 1..Len(t) /\ Len(s) \in Nat /\ Len(t) \in Nat
         /\ DOMAIN (s \o t) = 1..(Len(s) + Len(t))
         /\ \A i \in 1..Len(s) : (s \o t)[i] = s[i]
         /\ \A n \in 1..Len(t) : (s \o t)[Len(s) + n] = t[n]
         /\ \A i \in 1..(Len(s) + Len(t)) : i \in 1..Len(s) \/ \E n \in 1..Len(t) : i = Len(s) + n
         /\ Range(s \o t) = Range(s) \cup Range(t)
<1> DEFINE r == s \o t
           L == Len(s)
           T == Len(t)
<1>1. /\ r \in Seq(S) /\ Len(r) = L + T
      /\ DOMAIN s = 1..L /\ DOMAIN t = 1..T /\ L \in Nat /\ T \in Nat
      /\ DOMAIN r = 1..(L + T)
  OBVIOUS
<1>2. ASSUME NEW i \in 1..(L + T) PROVE r[i] = IF i <= L THEN s[i] ELSE t[i - L]
  OBVIOUS
<1> HIDE DEF r, L, T
<1>3. ASSUME NEW i \in 1..L PROVE r[i] = s[i]
  <2>1. i \in 1..(L + T) /\ i <= L
    BY <1>1
  <2> QED
    BY <1>2, <2>1
<1>4. ASSUME NEW n \in 1..T PROVE r[L + n] = t[n]
  <2>1. L + n \in 1..(L + T) /\ ~(L + n <= L) /\ (L + n) - L = n
    BY <1>1
  <2> QED
    BY <1>2, <2>1
<1>5. ASSUME NEW i \in 1..(L + T) PROVE i \in 1..L \/ \E n \in 1..T : i = L + n
  <2>1. CASE i <= L
    BY <1>1, <2>1
  <2>2. CASE ~(i <= L)
    <3>1. i - L \in 1..T /\ i = L + (i - L)
      BY <1>1, <2>2
    <3> QED
      BY <3>1
  <2> QED
    BY <2>1, <2>2
<1>6. Range(r) = Range(s) \cup Range(t)
  <2>1. ASSUME NEW m \in Range(r) PROVE m \in Range(s) \cup Range(t)
    <3>1. PICK i \in 1..(L + T) : m = r[i]
      BY <1>1 DEF Range
    <3>2. CASE i \in 1..L
      BY <1>1, <1>3, <3>1, <3>2 DEF Range
    <3>3. CASE \E n \in 1..T : i = L + n
      BY <1>1, <1>4, <3>1, <3>3 DEF Range
    <3> QED
      BY <1>5, <3>2, <3>3
  <2>2. ASSUME NEW m \in Range(s) PROVE m \in Range(r)
    <3>1. PICK i \in 1..L : m = s[i]
      BY <1>1 DEF Range
    <3>2. i \in DOMAIN r /\ m = r[i]
      BY <1>1, <1>3, <3>1
    <3> QED
      BY <3>2 DEF Range
  <2>3. ASSUME NEW m \in Range(t) PROVE m \in Range(r)
    <3>1. PICK n \in 1..T : m = t[n]
      BY <1>1 DEF Range
    <3>2. L + n \in DOMAIN r /\ m = r[L + n]
      BY <1>1, <1>4, <3>1
    <3> QED
      BY <3>2 DEF Range
  <2> QED
    BY <2>1, <2>2, <2>3
<1> QED
  BY <1>1, <1>3, <1>4, <1>5, <1>6 DEF r, L, T

\* A set of mutations whose effect can be told.
AreMutations(M) == IsFiniteSet(M) /\ \A m \in M : m.delta \in Int
Own(M, bar) == {m \in M : m.bar = bar}
Delta(M) == [m \in M |-> m.delta]

\* The effect is a sum of the same function for any set that has them.
LEMMA EffectIs ==
  ASSUME NEW N, AreMutations(N), NEW M \in SUBSET N, NEW b
  PROVE  /\ Effect(M, b) = SumFunctionOnSet(Delta(N), Own(M, b))
         /\ IsFiniteSet(Own(M, b)) /\ \A m \in Own(M, b) : Delta(N)[m] \in Int
<1> DEFINE own == Own(M, b)
           f == [m \in own |-> m.delta]
<1>1. own \subseteq N
  BY DEF Own
<1>2. IsFiniteSet(own) /\ \A m \in own : Delta(N)[m] = m.delta /\ m.delta \in Int
  BY <1>1, FS_Subset DEF AreMutations, Delta
<1>3. \A m \in own : f[m] = Delta(N)[m]
  BY <1>2
<1>4. Effect(M, b) = SumFunctionOnSet(f, own)
  BY DEF Effect, Own
<1> HIDE DEF own, f
<1>5. SumFunctionOnSet(f, own) = SumFunctionOnSet(Delta(N), own)
  BY <1>2, <1>3, SameSum
<1> QED
  BY <1>2, <1>4, <1>5 DEF own

\* No mutation has no effect.
LEMMA EffectOfNone == ASSUME NEW b PROVE Effect({}, b) = 0
<1>1. {m \in {} : m.bar = b} = {}
  OBVIOUS
<1> QED
  BY <1>1, SumOfNone DEF Effect

\* The effect is a whole number, and that of two sets adds up.
LEMMA EffectOfUnion ==
  ASSUME NEW M, AreMutations(M), NEW N, AreMutations(N), M \cap N = {}, NEW b
  PROVE  /\ Effect(M, b) \in Int /\ Effect(N, b) \in Int
         /\ Effect(M \cup N, b) = Effect(M, b) + Effect(N, b)
<1> DEFINE A == M \cup N
           f == Delta(A)
<1>1. AreMutations(A) /\ M \in SUBSET A /\ N \in SUBSET A /\ A \in SUBSET A
  BY FS_Union DEF AreMutations
<1>2. Own(A, b) = Own(M, b) \cup Own(N, b) /\ Own(M, b) \cap Own(N, b) = {}
  BY DEF Own
<1> HIDE DEF A
<1>3. /\ Effect(M, b) = SumFunctionOnSet(f, Own(M, b))
      /\ IsFiniteSet(Own(M, b)) /\ \A m \in Own(M, b) : f[m] \in Int
  BY <1>1, EffectIs
<1>4. /\ Effect(N, b) = SumFunctionOnSet(f, Own(N, b))
      /\ IsFiniteSet(Own(N, b)) /\ \A m \in Own(N, b) : f[m] \in Int
  BY <1>1, EffectIs
<1>5. Effect(A, b) = SumFunctionOnSet(f, Own(A, b))
  BY <1>1, EffectIs
<1> HIDE DEF f
<1>6. SumFunctionOnSet(f, Own(M, b)) \in Int /\ SumFunctionOnSet(f, Own(N, b)) \in Int
  BY <1>3, <1>4, SumLess
<1>7. SumFunctionOnSet(f, Own(A, b)) = SumFunctionOnSet(f, Own(M, b)) + SumFunctionOnSet(f, Own(N, b))
  BY <1>2, <1>3, <1>4, SumOfUnion
<1> QED
  BY <1>3, <1>4, <1>5, <1>6, <1>7 DEF A

\* The effect of a single mutation.
LEMMA EffectOfOne ==
  ASSUME NEW m, m.delta \in Int, NEW b
  PROVE  Effect({m}, b) = IF m.bar = b THEN m.delta ELSE 0
<1> DEFINE f == Delta({m})
<1>1. AreMutations({m}) /\ {m} \in SUBSET {m}
  BY FS_Singleton DEF AreMutations
<1>2. Effect({m}, b) = SumFunctionOnSet(f, Own({m}, b))
  BY <1>1, EffectIs
<1>3. f[m] = m.delta
  BY DEF Delta
<1> HIDE DEF f
<1>4. CASE m.bar = b
  <2> DEFINE all == {} \cup {m}
  <2>1. Own({m}, b) = all
    BY <1>4 DEF Own
  <2>2. SumFunctionOnSet(f, all) = SumFunctionOnSet(f, {}) + f[m]
    BY <1>3, SumMore, FS_EmptySet
  <2>3. SumFunctionOnSet(f, {}) = 0
    BY SumOfNone
  <2> HIDE DEF all
  <2>4. Effect({m}, b) = m.delta
    BY <1>2, <1>3, <2>1, <2>2, <2>3
  <2> QED
    BY <1>4, <2>4
<1>5. CASE m.bar # b
  <2>1. Own({m}, b) = {}
    BY <1>5 DEF Own
  <2> QED
    BY <1>2, <1>5, <2>1, SumOfNone
<1> QED
  BY <1>4, <1>5

\* What only takes away has no positive effect; what only adds no negative one.
LEMMA EffectOfSign ==
  ASSUME NEW M, AreMutations(M), NEW b
  PROVE  /\ (\A m \in M : m.delta <= 0) => Effect(M, b) <= 0
         /\ (\A m \in M : m.delta >= 0) => Effect(M, b) >= 0
<1> DEFINE f == Delta(M)
           own == Own(M, b)
           zero == [m \in own |-> 0]
           minus == [m \in own |-> 0 - f[m]]
<1>1. Effect(M, b) = SumFunctionOnSet(f, own) /\ IsFiniteSet(own) /\ \A m \in own : f[m] \in Int
  BY EffectIs
<1>2. \A m \in own : f[m] = m.delta /\ m \in M
  BY DEF Delta, Own
<1>3. \A m \in own : zero[m] = 0 /\ minus[m] = 0 - f[m] /\ zero[m] \in Int /\ minus[m] \in Int
  BY <1>1
<1> HIDE DEF f, own, zero, minus
<1>4. ASSUME \A m \in M : m.delta <= 0 PROVE Effect(M, b) <= 0
  <2>1. \A m \in own : minus[m] \in Nat
    BY <1>1, <1>2, <1>3, <1>4
  <2>2. SumFunctionOnSet(minus, own) \in Nat
    BY <1>1, <2>1, SumIsPositive
  <2>3. SumFunctionOnSet(minus, own) = SumFunctionOnSet(zero, own) - SumFunctionOnSet(f, own)
    BY <1>1, <1>3, SumOfDifferences
  <2>4. SumFunctionOnSet(zero, own) = 0 /\ SumFunctionOnSet(f, own) \in Int
    BY <1>1, <1>3, SumOfZeros, SumLess
  <2> QED
    BY <1>1, <2>2, <2>3, <2>4
<1>5. ASSUME \A m \in M : m.delta >= 0 PROVE Effect(M, b) >= 0
  <2>1. \A m \in own : f[m] \in Nat
    BY <1>1, <1>2, <1>5
  <2> QED
    BY <1>1, <2>1, SumIsPositive
<1> QED
  BY <1>4, <1>5

-----------------------------------------------------------------------------
(* EventSimulation: the scenarios, and the source of a replenishment.       *)

Configurations ==
  [duration : Nat, recovery : Nat, rate : Nat, opening : Nat, cloudDown : SUBSET Nat,
   edgeCloudDown : SUBSET Nat, wanFailover : SUBSET Nat, isolated : SUBSET Nat,
   isolatedRegisters : SUBSET Nat, restarts : SUBSET Nat, slow : SUBSET Nat,
   plan : [window : SUBSET Nat, source : Nat, quantity : Nat, below : Nat],
   delays : SUBSET Nat, loss : BOOLEAN, duplicates : BOOLEAN, reorders : BOOLEAN,
   timeouts : BOOLEAN, lateCallbacks : BOOLEAN, repeatedCallbacks : BOOLEAN]

\* Every required scenario has figures of these types.
LEMMA ScenariosAreSound ==
  ASSUME NEW s \in DOMAIN RequiredScenarios
  PROVE  RequiredScenarios[s] \in Configurations
<1>1. Base \in Configurations
  BY DEF Base, NoPlan, Configurations
<1>2. /\ 1..2 \in SUBSET Nat /\ 1..3 \in SUBSET Nat /\ 0..3 \in SUBSET Nat /\ 4..5 \in SUBSET Nat
      /\ 0..2 \in SUBSET Nat /\ 1..5 \in SUBSET Nat
      /\ {1} \in SUBSET Nat /\ {2} \in SUBSET Nat /\ {1, 3} \in SUBSET Nat
  OBVIOUS
<1>3. [window |-> 1..5, source |-> 3, quantity |-> 2, below |-> 0]
        \in [window : SUBSET Nat, source : Nat, quantity : Nat, below : Nat]
  BY <1>2
<1>4. RequiredScenarios.cloudOutage \in Configurations
  BY <1>1, <1>2 DEF RequiredScenarios, Configurations
<1>5. RequiredScenarios.partition \in Configurations
  BY <1>1, <1>2 DEF RequiredScenarios, Configurations
<1>6. RequiredScenarios.posIsolation \in Configurations
  BY <1>1, <1>2 DEF RequiredScenarios, Configurations
<1>7. RequiredScenarios.edgeRestart \in Configurations
  BY <1>1, <1>2 DEF RequiredScenarios, Configurations
<1>8. RequiredScenarios.largeReplay \in Configurations
  BY <1>1, <1>2 DEF RequiredScenarios, Configurations
<1>9. RequiredScenarios.callbacks \in Configurations
  BY <1>1, <1>2 DEF RequiredScenarios, Configurations
<1>10. RequiredScenarios.demandSpike \in Configurations
  BY <1>1, <1>2 DEF RequiredScenarios, Configurations
<1>11. RequiredScenarios.replenishment \in Configurations
  BY <1>1, <1>2, <1>3 DEF RequiredScenarios, Configurations
<1>12. RequiredScenarios.slowDatabase \in Configurations
  BY <1>1, <1>2 DEF RequiredScenarios, Configurations
<1>13. RequiredScenarios.wanFailover \in Configurations
  BY <1>1, <1>2 DEF RequiredScenarios, Configurations
<1>14. RequiredScenarios.combined \in Configurations
  BY <1>1, <1>2 DEF RequiredScenarios, Configurations
<1>15. s \in {"cloudOutage", "partition", "posIsolation", "edgeRestart", "largeReplay",
              "callbacks", "demandSpike", "replenishment", "slowDatabase", "wanFailover",
              "combined"}
  BY DEF RequiredScenarios
<1> QED
  BY <1>4, <1>5, <1>6, <1>7, <1>8, <1>9, <1>10, <1>11, <1>12, <1>13, <1>14, <1>15

\* So the configuration of a run has.
LEMMA ConfigIsSound == ASSUME scenario \in Scenarios PROVE config \in Configurations
BY EventSimulationAssumption, ScenariosAreSound DEF config

\* The bars are numbered, and finitely many.
LEMMA BarsAre ==
  /\ Cardinality(Bars) \in Nat /\ Cardinality(Bars) # 0
  /\ Bars = 1..Cardinality(Bars) /\ IsFiniteSet(Bars)
  BY EventSimulationAssumption, CountUpTo

\* The least of some numbers is one of them.
LEMMA MinIs ==
  ASSUME NEW S \in SUBSET Nat, S # {}
  PROVE  Min(S) \in S /\ \A x \in S : Min(S) <= x
<1>1. \E x \in S : \A y \in S : x <= y
  BY LeastNatural
<1> QED
  BY <1>1 DEF Min

LeftStep(g, bar) ==
  IF bar = 0 THEN remaining
  ELSE IF Needs(bar) THEN g[bar - 1] - Min({g[bar - 1], config.plan.quantity})
  ELSE g[bar - 1]

\* What is left is a function of the bars: by induction on their numbers.
LEMMA LeftIsDefined == Left = [b \in {0} \cup Bars |-> LeftStep(Left, b)]
<1> DEFINE n == Cardinality(Bars)
           S == {m \in 0..n : \E g : g = [i \in 0..m |-> LeftStep(g, i)]}
<1>0. n \in Nat /\ {0} \cup Bars = 0..n
  BY BarsAre
<1>1. 0 \in S
  <2> DEFINE g == [i \in 0..0 |-> remaining]
  <2>1. g = [i \in 0..0 |-> LeftStep(g, i)]
    BY DEF LeftStep
  <2>2. \E f : f = [i \in 0..0 |-> LeftStep(f, i)]
    BY <2>1
  <2> QED
    BY <1>0, <2>2
<1>2. ASSUME NEW m \in 0..n, m # n, m \in S
      PROVE  m + 1 \in S
  <2>1. PICK g : g = [i \in 0..m |-> LeftStep(g, i)]
    BY <1>2
  <2> DEFINE h == [i \in 0..m + 1 |-> IF i = m + 1 THEN LeftStep(g, i) ELSE g[i]]
  <2>2. ASSUME NEW i \in 0..m + 1 PROVE h[i] = LeftStep(h, i)
    <3>0. m \in Nat
      BY <1>0
    <3>1. CASE i = 0
      <4>1. h[i] = g[i] /\ g[i] = LeftStep(g, i)
        BY <2>1, <3>0, <3>1
      <4> QED
        BY <3>1, <4>1 DEF LeftStep
    <3>2. CASE i # 0
      <4>1. i - 1 \in 0..m /\ h[i - 1] = g[i - 1]
        BY <3>0, <3>2
      <4>2. LeftStep(h, i) = LeftStep(g, i)
        <5> HIDE DEF h
        <5> QED
          BY <3>2, <4>1 DEF LeftStep
      <4>3. h[i] = LeftStep(g, i)
        BY <2>1, <3>0, <3>2
      <4> QED
        BY <4>2, <4>3
    <3> QED
      BY <3>1, <3>2
  <2>3. h = [i \in 0..m + 1 |-> LeftStep(h, i)]
    BY <2>2
  <2>4. \E f : f = [i \in 0..m + 1 |-> LeftStep(f, i)]
    <3> HIDE DEF h
    <3> QED
      BY <2>3
  <2> HIDE DEF h
  <2> QED
    BY <1>0, <1>2, <2>4, NextNumber
<1> HIDE DEF S
<1>3. 0..n \subseteq S
  BY <1>0, <1>1, <1>2, UpTo
<1> USE DEF S
<1>4. \E g : g = [i \in 0..n |-> LeftStep(g, i)]
  BY <1>0, <1>3
<1> HIDE DEF n
<1>5. \E g : g = [b \in {0} \cup Bars |-> LeftStep(g, b)]
  BY <1>0, <1>4
<1>6. Left = CHOOSE g : g = [b \in {0} \cup Bars |-> LeftStep(g, b)]
  BY DEF Left, LeftStep
<1> QED
  BY <1>5, <1>6

\* It starts with what remained, and each bar takes at most what is there.
LEMMA LeftIs ==
  ASSUME remaining \in Nat, scenario \in Scenarios
  PROVE  /\ Left[0] = remaining
         /\ \A b \in Bars : Left[b - 1] \in Nat /\ Left[b] \in 0..Left[b - 1]
<1> DEFINE n == Cardinality(Bars)
           q == config.plan.quantity
           S == {i \in 0..n : Left[i] \in Nat}
<1>0. n \in Nat /\ Bars = 1..n /\ q \in Nat
  BY BarsAre, ConfigIsSound DEF Configurations
<1>1. \A i \in 0..n : Left[i] = LeftStep(Left, i)
  BY <1>0, LeftIsDefined
<1> HIDE DEF n, q
<1>2. Left[0] = remaining
  <2>1. Left[0] = LeftStep(Left, 0)
    BY <1>0, <1>1
  <2> QED
    BY <2>1 DEF LeftStep
<1>3. ASSUME NEW i \in 0..n, i # n, Left[i] \in Nat
      PROVE  Left[i + 1] \in 0..Left[i]
  <2>1. i + 1 \in 0..n /\ i + 1 # 0 /\ (i + 1) - 1 = i
    BY <1>0, <1>3, NextNumber
  <2>2. Left[i + 1] = Left[i] - Min({Left[i], q}) \/ Left[i + 1] = Left[i]
    BY <1>1, <2>1 DEF LeftStep, q
  <2>3. Min({Left[i], q}) \in 0..Left[i]
    <3>1. {Left[i], q} \in SUBSET Nat /\ {Left[i], q} # {} /\ Left[i] \in {Left[i], q}
      BY <1>0, <1>3
    <3>2. Min({Left[i], q}) \in {Left[i], q} /\ Min({Left[i], q}) <= Left[i]
      BY <3>1, MinIs
    <3> QED
      BY <1>0, <1>3, <3>2
  <2> QED
    BY <1>3, <2>2, <2>3
<1>4. 0 \in S /\ \A i \in 0..n : i # n /\ i \in S => i + 1 \in S
  <2>1. ASSUME NEW i \in 0..n, i # n, i \in S PROVE i + 1 \in S
    <3>1. i + 1 \in 0..n
      BY <1>0, <2>1, NextNumber
    <3>2. Left[i + 1] \in 0..Left[i]
      BY <1>3, <2>1
    <3> QED
      BY <3>1, <3>2
  <2> QED
    BY <1>0, <1>2, <2>1
<1> HIDE DEF S
<1>5. 0..n \subseteq S
  BY <1>0, <1>4, UpTo
<1>6. ASSUME NEW b \in Bars PROVE Left[b - 1] \in Nat /\ Left[b] \in 0..Left[b - 1]
  <2>1. b - 1 \in 0..n /\ b - 1 # n /\ (b - 1) + 1 = b
    BY <1>0
  <2>2. Left[b - 1] \in Nat
    BY <1>5, <2>1 DEF S
  <2>3. Left[(b - 1) + 1] \in 0..Left[b - 1]
    BY <1>3, <2>1, <2>2
  <2> QED
    BY <2>1, <2>2, <2>3
<1> QED
  BY <1>2, <1>6

\* What a bar takes of it.
Taken == [b \in Bars |-> Left[b - 1] - Left[b]]

\* What the bars that are served take is what the source loses.
LEMMA TakenAddsUp ==
  ASSUME remaining \in Nat, scenario \in Scenarios
  PROVE  /\ \A b \in Bars : Taken[b] \in Nat
         /\ SumFunctionOnSet(Taken, Served) = remaining - Left[Cardinality(Bars)]
         /\ Left[Cardinality(Bars)] \in Nat
<1> DEFINE n == Cardinality(Bars)
           S == {i \in 0..n : SumFunctionOnSet(Taken, 1..i) = remaining - Left[i]}
<1>0. n \in Nat /\ n # 0 /\ Bars = 1..n /\ IsFiniteSet(Bars)
  BY BarsAre
<1>1. \A b \in Bars : Taken[b] = Left[b - 1] - Left[b] /\ Taken[b] \in Nat
                     /\ Left[b - 1] \in Nat /\ Left[b] \in Nat
  BY LeftIs DEF Taken
<1>2. 0 \in S
  <2>1. 1..0 = {} /\ Left[0] = remaining
    BY LeftIs
  <2> QED
    BY <1>0, <2>1, SumOfNone
<1>3. ASSUME NEW i \in 0..n, i # n, i \in S
      PROVE  i + 1 \in S
  <2>1. i + 1 \in 1..n /\ i + 1 \in 0..n /\ (i + 1) - 1 = i /\ i \in Nat
    BY <1>0, <1>3, NextNumber
  <2>2. /\ IsFiniteSet(1..i) /\ 1..(i + 1) = (1..i) \cup {i + 1} /\ i + 1 \notin 1..i
        /\ \A b \in 1..i : b \in Bars
    BY <1>0, <2>1, CountUpTo
  <2>3. SumFunctionOnSet(Taken, (1..i) \cup {i + 1}) = SumFunctionOnSet(Taken, 1..i) + Taken[i + 1]
    <3>1. \A b \in 1..i : Taken[b] \in Int
      BY <1>1, <2>2
    <3>2. Taken[i + 1] \in Int
      BY <1>0, <1>1, <2>1
    <3> DEFINE T == 1..i
               x == i + 1
    <3>3. IsFiniteSet(T) /\ x \notin T /\ (\A b \in T : Taken[b] \in Int) /\ Taken[x] \in Int
      BY <2>2, <3>1, <3>2
    <3> HIDE DEF T, x
    <3>4. SumFunctionOnSet(Taken, T \cup {x}) = SumFunctionOnSet(Taken, T) + Taken[x]
      BY <3>3, SumMore
    <3> QED
      BY <3>4 DEF T, x
  <2>4. Taken[i + 1] = Left[i] - Left[i + 1] /\ Left[i] \in Nat /\ Left[i + 1] \in Nat
    BY <1>0, <1>1, <2>1
  <2>5. SumFunctionOnSet(Taken, 1..i) = remaining - Left[i]
    BY <1>3
  <2>6. SumFunctionOnSet(Taken, 1..(i + 1)) = remaining - Left[i + 1]
    <3>1. SumFunctionOnSet(Taken, 1..(i + 1)) = SumFunctionOnSet(Taken, (1..i) \cup {i + 1})
      BY <2>2
    <3> HIDE DEF S
    <3> QED
      BY <2>3, <2>4, <2>5, <3>1
  <2> QED
    BY <2>1, <2>6
<1> HIDE DEF S
<1>4. 0..n \subseteq S
  BY <1>0, <1>2, <1>3, UpTo
<1>5. SumFunctionOnSet(Taken, Bars) = remaining - Left[n]
  BY <1>0, <1>4 DEF S
<1>6. SumFunctionOnSet(Taken, Bars) = SumFunctionOnSet(Taken, Served)
  <2>1. Served \in SUBSET Bars /\ \A b \in Bars : Taken[b] \in Int
    BY <1>1 DEF Served
  <2>2. ASSUME NEW b \in Bars \ Served PROVE Taken[b] = 0
    <3>1. ~(Left[b] < Left[b - 1])
      BY DEF Served
    <3> QED
      BY <1>1, <3>1
  <2> QED
    BY <1>0, <2>1, <2>2, SumWithoutZeros
<1> HIDE DEF n
<1>7. Left[n] \in Nat
  <2>1. n \in Bars
    BY <1>0
  <2> QED
    BY <1>1, <2>1
<1> USE DEF n
<1> QED
  BY <1>1, <1>5, <1>6, <1>7

-----------------------------------------------------------------------------
(* EventSimulation: the inductive invariant.                                *)

\* What a transfer carries, and the electronic payments that were completed.
Quantities == [i \in DOMAIN transfers |-> transfers[i].quantity]
Completed == {o \in orders : payments[o].status = "SUCCEEDED" /\ ~payments[o].cash}

\* A cash payment is complete from the start.
CashIsPaid == \A o \in orders : payments[o].cash => payments[o].status = "SUCCEEDED"

Queues ==
  NumbersAreSpent /\ LocalQueueIsSound /\ EdgeQueueIsSound /\ CloudIsBehind /\ NothingIsLost

SimulationInv ==
  /\ SimulationTypeOK /\ IsFiniteSet(orders) /\ Queues /\ CashIsPaid
  /\ StockIsAccounted /\ GoodsAreConserved /\ EffectsHappenOnce

\* The names of the figures.
LEMMA FiguresAreNamed ==
  /\ GoodsAreConserved <=>
       SumFunctionOnSet(physical, Bars) + Cardinality(orders) + remaining
         + SumFunctionOnSet(Quantities, OnTheWay)
       = Cardinality(Bars) * config.opening + config.plan.source
  /\ EffectsHappenOnce <=> twice = 0 /\ answered = Cardinality(Completed)
BY DEF GoodsAreConserved, Quantities, EffectsHappenOnce, Completed

\* The same of the next state.
LEMMA NextFiguresAreNamed ==
  /\ GoodsAreConserved' <=>
       SumFunctionOnSet(physical', Bars) + Cardinality(orders') + remaining'
         + SumFunctionOnSet(Quantities', OnTheWay')
       = Cardinality(Bars) * config'.opening + config'.plan.source
  /\ EffectsHappenOnce' <=> twice' = 0 /\ answered' = Cardinality(Completed')
BY DEF GoodsAreConserved, Quantities, EffectsHappenOnce, Completed

\* A step that leaves the goods alone conserves them.
LEMMA GoodsStay ==
  ASSUME GoodsAreConserved, UNCHANGED <<scenario, physical, orders, remaining, transfers>>
  PROVE  GoodsAreConserved'
<1>1. Quantities' = Quantities /\ OnTheWay' = OnTheWay /\ config' = config
  BY DEF Quantities, OnTheWay, config
<1> QED
  BY <1>1, FiguresAreNamed, NextFiguresAreNamed

\* A step that leaves payments alone completes none.
LEMMA EffectsStay ==
  ASSUME EffectsHappenOnce, UNCHANGED <<twice, answered, orders, payments>>
  PROVE  EffectsHappenOnce'
<1>1. Completed' = Completed
  BY DEF Completed
<1> QED
  BY <1>1, FiguresAreNamed, NextFiguresAreNamed

\* A step that leaves stocks and queues alone keeps them accounted for.
LEMMA StocksStay ==
  ASSUME StockIsAccounted, UNCHANGED <<stocks, localQueue, edgeQueue, cloudApplied>>
  PROVE  StockIsAccounted'
<1>1. {m \in Range(edgeQueue') : IdOf(m) \notin cloudApplied'}
        = {m \in Range(edgeQueue) : IdOf(m) \notin cloudApplied}
  BY DEF StockIsAccounted
<1> QED
  BY <1>1 DEF StockIsAccounted, stocks

\* A step that leaves the queues alone keeps them sound.
LEMMA QueuesStay ==
  ASSUME Queues, UNCHANGED <<orders, sequence, transfers, localQueue, edgeQueue, edgeApplied,
                             cloudApplied, cloudOrders>>
  PROVE  Queues'
<1>1. OnTheWay' = OnTheWay
  BY DEF OnTheWay
<1> QED
  BY <1>1
    DEF Queues, NumbersAreSpent, LocalQueueIsSound, EdgeQueueIsSound, CloudIsBehind, NothingIsLost

\* The mutations of a queue.
LEMMA QueueIsFinite ==
  ASSUME NEW seq \in Seq(Mutations)
  PROVE  AreMutations(Range(seq)) /\ Range(seq) \subseteq Mutations
<1>1. IsFiniteSet(Range(seq)) /\ Range(seq) \subseteq Mutations
  BY RangeIsFinite
<1> QED
  BY <1>1 DEF AreMutations, Mutations

\* Mutations of a smaller set.
LEMMA FewerMutations ==
  ASSUME NEW M, AreMutations(M), NEW N \in SUBSET M
  PROVE  AreMutations(N)
BY FS_Subset DEF AreMutations

\* What Edge has applied is numbered.
LEMMA AppliedAreNumbered ==
  ASSUME SimulationTypeOK, NEW id \in edgeApplied
  PROVE  id[1] \in Nat
<1>1. id \in Nat \X {"ORDER", "INVENTORY", "TRANSFER"}
  BY DEF SimulationTypeOK
<1> QED
  BY <1>1

\* A transfer's fields have their types.
LEMMA TransferFields ==
  ASSUME SimulationTypeOK, NEW i \in DOMAIN transfers
  PROVE  /\ transfers[i].id \in Nat /\ transfers[i].bar \in Bars
         /\ transfers[i].quantity \in Nat /\ transfers[i].due \in Nat
         /\ transfers[i].completed \in BOOLEAN
<1> DEFINE TransferRow == [id : Nat, bar : Bars, quantity : Nat, due : Nat, completed : BOOLEAN]
<1>1. transfers \in Seq(TransferRow)
  BY DEF SimulationTypeOK
<1> HIDE DEF TransferRow
<1>2. transfers[i] \in TransferRow
  BY <1>1
<1> QED
  BY <1>2 DEF TransferRow

\* The steps of the clock, and the generator's first.
LEMMA TrafficIsSound == ASSUME SimulationInv, GenerateTraffic PROVE SimulationInv'
<1>1. config \in Configurations /\ config' = config
  BY ConfigIsSound DEF SimulationInv, SimulationTypeOK, GenerateTraffic, config
<1>2. selling' \subseteq Bars /\ accumulator' \in 0..SalePoint - 1
  <2>1. accumulator + config.rate \in Nat
    BY <1>1 DEF SimulationInv, SimulationTypeOK, Configurations, SalePoint
  <2>2. (accumulator + config.rate) % SalePoint \in 0..SalePoint - 1
    BY <2>1 DEF SalePoint
  <2> QED
    BY <2>2 DEF SimulationInv, SimulationTypeOK, GenerateTraffic, sales
<1>3. SimulationTypeOK'
  BY <1>1, <1>2 DEF SimulationInv, SimulationTypeOK, GenerateTraffic, Final, stocks, cloud,
    money, supply
<1>4. Queues' /\ GoodsAreConserved' /\ EffectsHappenOnce' /\ StockIsAccounted'
  BY QueuesStay, GoodsStay, EffectsStay, StocksStay
    DEF SimulationInv, GenerateTraffic, stocks, cloud, money, supply
<1>5. IsFiniteSet(orders') /\ CashIsPaid'
  BY DEF SimulationInv, CashIsPaid, GenerateTraffic, money
<1> QED
  BY <1>3, <1>4, <1>5 DEF SimulationInv

\* The next second, or the end.
LEMMA SecondIsSound == ASSUME SimulationInv, NextSecond PROVE SimulationInv'
<1>1. config \in Configurations /\ config' = config
  BY ConfigIsSound DEF SimulationInv, SimulationTypeOK, NextSecond, config
<1>2. second' \in 0..Final' /\ phase' \in {"traffic", "done"}
  <2>1. Final \in Nat /\ second \in 0..Final /\ Final' = Final
    BY <1>1 DEF SimulationInv, SimulationTypeOK, Final, Configurations
  <2> QED
    BY <2>1 DEF NextSecond
<1>3. SimulationTypeOK'
  BY <1>2 DEF SimulationInv, SimulationTypeOK, NextSecond, sales, stocks, money, supply
<1>4. Queues' /\ GoodsAreConserved' /\ EffectsHappenOnce' /\ StockIsAccounted'
  BY QueuesStay, GoodsStay, EffectsStay, StocksStay
    DEF SimulationInv, NextSecond, stocks, money, supply
<1>5. IsFiniteSet(orders') /\ CashIsPaid'
  BY DEF SimulationInv, CashIsPaid, NextSecond, money
<1> QED
  BY <1>3, <1>4, <1>5 DEF SimulationInv

\* A signal completes a payment that was not, once however often it comes, and no
\* cash payment waits for one.
LEMMA SignalsAreSound == ASSUME SimulationInv, ProcessPaymentSignals PROVE SimulationInv'
<1> DEFINE due == Signalled
           PaymentRow == [status : Statuses, due : Nat, cash : BOOLEAN]
<1>1. second \in Nat /\ config' = config /\ Final' = Final
  BY ConfigIsSound
    DEF SimulationInv, SimulationTypeOK, ProcessPaymentSignals, config, Final, Configurations
<1>2. due \in SUBSET orders /\ \A o \in due : payments[o].status # "SUCCEEDED"
  BY DEF Signalled
<1>3. orders' = orders /\ IsFiniteSet(orders) /\ IsFiniteSet(due)
  BY <1>2, FS_Subset DEF ProcessPaymentSignals, SimulationInv
<1>4. payments \in [orders -> PaymentRow] /\ CashIsPaid
  BY DEF SimulationInv, SimulationTypeOK
<1>5. answered \in Nat /\ answered = Cardinality(Completed) /\ twice = 0
  BY FiguresAreNamed DEF SimulationInv, SimulationTypeOK
<1>6. IsFiniteSet(Completed) /\ Cardinality(Completed) \in Nat /\ Cardinality(due) \in Nat
  <2>1. Completed \in SUBSET orders
    BY DEF Completed
  <2> QED
    BY <1>3, <2>1, FS_Subset, FS_CardinalityType
<1> HIDE DEF due, PaymentRow
<1>7. /\ payments' \in [orders -> PaymentRow] /\ CashIsPaid' /\ answered' \in Nat
      /\ answered' = Cardinality(Completed')
  <2>1. CASE edgeToCloudAvailable
    <3>1. /\ payments' = [o \in orders |-> IF o \in due THEN [payments[o] EXCEPT !.status = "SUCCEEDED"]
                                           ELSE payments[o]]
          /\ answered' = answered + Cardinality(due)
      <4>1. PICK again \in SUBSET due :
              answered' = answered + Cardinality(due) + Cardinality(NewSignals(again, due))
        BY <2>1 DEF ProcessPaymentSignals, due
      <4>2. Cardinality(NewSignals(again, due)) = 0
        <5>1. NewSignals(again, due) = {}
          BY <4>1 DEF NewSignals
        <5> QED
          BY <5>1, FS_EmptySet
      <4>3. answered' = answered + Cardinality(due)
        BY <1>5, <1>6, <4>1, <4>2
      <4> QED
        BY <2>1, <4>3 DEF ProcessPaymentSignals, due
    <3>2. ASSUME NEW o \in orders
          PROVE  /\ payments'[o] \in PaymentRow /\ payments'[o].cash = payments[o].cash
                 /\ payments'[o].status = IF o \in due THEN "SUCCEEDED" ELSE payments[o].status
      <4>1. payments[o] \in PaymentRow
        BY <1>4
      <4>2. CASE o \in due
        <5>1. payments'[o] = [payments[o] EXCEPT !.status = "SUCCEEDED"]
          BY <3>1, <4>2
        <5> QED
          BY <4>1, <4>2, <5>1 DEF PaymentRow, Statuses
      <4>3. CASE o \notin due
        BY <3>1, <4>1, <4>3
      <4> QED
        BY <4>2, <4>3
    <3>3. payments' \in [orders -> PaymentRow]
      BY <3>1, <3>2
    <3>4. Completed' = Completed \cup due /\ Completed \cap due = {}
      <4>1. \A o \in due : o \in orders /\ ~payments[o].cash
        <5>1. \A o \in orders : payments[o].cash \in BOOLEAN
          BY <1>4 DEF PaymentRow
        <5> QED
          BY <1>2, <1>4, <5>1 DEF CashIsPaid
      <4>2. Completed' = {o \in orders : payments'[o].status = "SUCCEEDED" /\ ~payments'[o].cash}
        BY <1>3 DEF Completed
      <4>3. \A o \in orders : o \in Completed' <=> o \in Completed \/ o \in due
        BY <3>2, <4>1, <4>2 DEF Completed
      <4>4. Completed' \subseteq orders /\ Completed \subseteq orders
        BY <4>2 DEF Completed
      <4>5. Completed \cap due = {}
        BY <1>2 DEF Completed
      <4> HIDE DEF Completed
      <4> QED
        BY <1>2, <4>3, <4>4, <4>5
    <3>5. Cardinality(Completed \cup due) = Cardinality(Completed) + Cardinality(due)
      <4>1. Cardinality(Completed \cap due) = 0
        BY <3>4, FS_EmptySet
      <4>2. Cardinality(Completed \cup due)
              = Cardinality(Completed) + Cardinality(due) - Cardinality(Completed \cap due)
        BY <1>3, <1>6, FS_Union
      <4> QED
        BY <1>6, <4>1, <4>2
    <3>6. CashIsPaid'
      BY <1>3, <1>4, <3>2 DEF CashIsPaid
    <3> QED
      BY <1>5, <1>6, <3>1, <3>3, <3>4, <3>5, <3>6
  <2>2. CASE ~edgeToCloudAvailable
    <3>1. /\ payments' = [o \in orders |-> IF o \in due THEN [payments[o] EXCEPT !.due = second + 1]
                                           ELSE payments[o]]
          /\ answered' = answered
      BY <2>2 DEF ProcessPaymentSignals, due
    <3>2. ASSUME NEW o \in orders
          PROVE  /\ payments'[o] \in PaymentRow /\ payments'[o].cash = payments[o].cash
                 /\ payments'[o].status = payments[o].status
      <4>1. payments[o] \in PaymentRow
        BY <1>4
      <4>2. CASE o \in due
        <5>1. payments'[o] = [payments[o] EXCEPT !.due = second + 1]
          BY <3>1, <4>2
        <5> QED
          BY <1>1, <4>1, <5>1 DEF PaymentRow, Statuses
      <4>3. CASE o \notin due
        BY <3>1, <4>1, <4>3
      <4> QED
        BY <4>2, <4>3
    <3>3. payments' \in [orders -> PaymentRow]
      BY <3>1, <3>2
    <3>4. Completed' = Completed
      <4>1. Completed' = {o \in orders : payments'[o].status = "SUCCEEDED" /\ ~payments'[o].cash}
        BY <1>3 DEF Completed
      <4> QED
        BY <3>2, <4>1 DEF Completed
    <3>5. CashIsPaid'
      BY <1>3, <1>4, <3>2 DEF CashIsPaid
    <3> QED
      BY <1>5, <3>1, <3>3, <3>4, <3>5
  <2> QED
    BY <2>1, <2>2
<1>8. SimulationTypeOK'
  BY <1>1, <1>3, <1>7 DEF SimulationInv, SimulationTypeOK, ProcessPaymentSignals, PaymentRow, sales,
    stocks, supply
<1>9. Queues' /\ GoodsAreConserved' /\ StockIsAccounted'
  BY QueuesStay, GoodsStay, StocksStay DEF SimulationInv, ProcessPaymentSignals, stocks, supply
<1>10. EffectsHappenOnce'
  <2>1. twice' = 0 /\ answered' = Cardinality(Completed')
    BY <1>5, <1>7 DEF ProcessPaymentSignals
  <2> QED
    BY <2>1, NextFiguresAreNamed
<1> QED
  BY <1>3, <1>7, <1>8, <1>9, <1>10 DEF SimulationInv

\* A sale takes one from the stock and queues its two mutations, which nobody has seen.
LEMMA SaleIsSound == ASSUME SimulationInv, CreateSale PROVE SimulationInv'
<1> DEFINE register == Min(selling)
           order == sequence + 1
           first == Mutation(order, "ORDER", register, 0)
           next == Mutation(order, "INVENTORY", register, -1)
           PaymentRow == [status : Statuses, due : Nat, cash : BOOLEAN]
<1>0. /\ SimulationTypeOK /\ Queues /\ CashIsPaid /\ IsFiniteSet(orders)
      /\ StockIsAccounted /\ GoodsAreConserved /\ EffectsHappenOnce
  BY DEF SimulationInv
<1>1. /\ config \in Configurations /\ config' = config /\ second \in Nat /\ second' = second
      /\ Final' = Final
  <2>1. config \in Configurations /\ second \in 0..Final
    BY <1>0, ConfigIsSound DEF SimulationTypeOK
  <2>2. UNCHANGED time
    BY DEF CreateSale
  <2>3. second \in Nat
    BY <2>1 DEF Configurations, Final
  <2> QED
    BY <2>1, <2>2, <2>3 DEF time, config, Final
<1>2. register \in Bars /\ register \in selling
  <2>1. selling \in SUBSET Nat /\ selling # {} /\ selling \subseteq Bars
    <3>1. selling # {} /\ selling \subseteq Bars
      BY <1>0 DEF SimulationTypeOK, CreateSale
    <3>2. Bars \subseteq Nat
      BY BarsAre
    <3> QED
      BY <3>1, <3>2
  <2> QED
    BY <2>1, MinIs
<1>3. selling' \subseteq Bars
  BY <1>0 DEF SimulationTypeOK, CreateSale
<1>4. CASE ~InStock(register)
  <2>1. UNCHANGED <<physical, sequence, orders, localQueue, payments, scenario, second, phase,
                    accumulator, edgeStock, edgeQueue, edgeApplied, cloudStock, cloudApplied,
                    cloudOrders, twice, answered, transfers, replenished, remaining>>
    BY <1>4 DEF CreateSale, time, cloud, supply
  <2>2. SimulationTypeOK'
    BY <1>0, <1>1, <1>3, <2>1 DEF SimulationTypeOK
  <2>3. Queues' /\ GoodsAreConserved' /\ EffectsHappenOnce' /\ StockIsAccounted'
    BY <1>0, <2>1, QueuesStay, GoodsStay, EffectsStay, StocksStay DEF stocks
  <2>4. IsFiniteSet(orders') /\ CashIsPaid'
    BY <1>0, <2>1 DEF CashIsPaid
  <2> QED
    BY <2>2, <2>3, <2>4 DEF SimulationInv
<1>5. CASE InStock(register)
  <2>1. /\ physical' = [physical EXCEPT ![register] = @ - 1]
        /\ sequence' = order /\ orders' = orders \cup {order}
        /\ localQueue' = localQueue \o <<first, next>>
        /\ \E payment \in PaymentsOf(register) :
             payments' = [o \in orders' |-> IF o = order THEN payment ELSE payments[o]]
    BY <1>5 DEF CreateSale
  <2>2. UNCHANGED <<scenario, second, phase, accumulator, edgeStock, edgeQueue, edgeApplied,
                    cloudStock, cloudApplied, cloudOrders, twice, answered, transfers,
                    replenished, remaining>>
    BY DEF CreateSale, time, cloud, supply
  <2>3. /\ physical \in [Bars -> Nat] /\ physical[register] \in Nat \ {0}
        /\ physical'[register] = physical[register] - 1
        /\ physical' \in [Bars -> Nat]
        /\ \A b \in Bars : physical'[b] = IF b = register THEN physical[b] - 1 ELSE physical[b]
    <3>1. physical \in [Bars -> Nat] /\ physical[register] \in Nat \ {0}
      BY <1>0, <1>2, <1>5 DEF SimulationTypeOK, InStock
    <3>2. \A b \in Bars : physical'[b] = IF b = register THEN physical[b] - 1 ELSE physical[b]
      BY <2>1, <3>1
    <3> QED
      BY <1>2, <2>1, <3>1, <3>2
  <2>4. sequence \in Nat /\ order \in Nat /\ order \notin orders /\ order > sequence
    BY <1>0 DEF SimulationTypeOK, Queues, NumbersAreSpent
  <2>5. PICK payment \in PaymentsOf(register) :
          payments' = [o \in orders' |-> IF o = order THEN payment ELSE payments[o]]
    BY <2>1
  <2>6. /\ payment \in PaymentRow
        /\ payment.cash => payment.status = "SUCCEEDED"
        /\ ~payment.cash => payment.status # "SUCCEEDED"
    <3>1. CASE payment = [status |-> "SUCCEEDED", due |-> second, cash |-> TRUE]
      BY <1>1, <3>1 DEF Statuses
    <3>2. CASE \E timeout \in Chance(config.timeouts), late \in Chance(config.lateCallbacks),
                  delay \in Nat :
                 payment = [status |-> IF posToEdgeAvailable(register) /\ edgeToCloudAvailable /\ ~timeout
                                       THEN "PENDING" ELSE "UNKNOWN",
                            due |-> second + delay, cash |-> FALSE]
      BY <1>1, <3>2 DEF Statuses
    <3>3. ASSUME NEW late, NEW timeout, NEW delay \in Delays(late, timeout)
          PROVE  delay \in Nat
      <4>1. TimeoutDelay \in Nat
        BY EventSimulationAssumption
      <4>2. PICK d \in config.delays, l \in IF late THEN {1} ELSE {0} :
              delay = d + (IF timeout THEN TimeoutDelay ELSE 0) + l
        BY <3>3 DEF Delays
      <4>3. d \in Nat /\ l \in Nat
        BY <1>1 DEF Configurations
      <4> QED
        BY <4>1, <4>2, <4>3
    <3> QED
      BY <3>1, <3>2, <3>3 DEF PaymentsOf
  <2> HIDE DEF register, order, first, next, PaymentRow
  <2>7. /\ payments \in [orders -> PaymentRow]
        /\ payments' \in [orders' -> PaymentRow]
        /\ \A o \in orders : payments'[o] = payments[o]
        /\ payments'[order] = payment
    BY <1>0, <2>1, <2>4, <2>5, <2>6 DEF SimulationTypeOK, PaymentRow
  <2>8. /\ first \in Mutations /\ next \in Mutations
        /\ first.bar = register /\ first.delta = 0 /\ first.of = order /\ first.kind = "ORDER"
        /\ next.bar = register /\ next.delta = -1 /\ next.of = order /\ next.kind = "INVENTORY"
        /\ IdOf(first) = <<order, "ORDER">> /\ IdOf(next) = <<order, "INVENTORY">>
        /\ first # next
    BY <1>2, <2>4 DEF first, next, Mutation, Mutations, IdOf
  <2>9. /\ localQueue \in Seq(Mutations) /\ localQueue' \in Seq(Mutations)
        /\ Len(localQueue') = Len(localQueue) + 2
        /\ \A i \in 1..Len(localQueue) : localQueue'[i] = localQueue[i]
        /\ localQueue'[Len(localQueue) + 1] = first /\ localQueue'[Len(localQueue) + 2] = next
    <3>1. localQueue \in Seq(Mutations) /\ <<first, next>> \in Seq(Mutations)
      BY <1>0, <2>8 DEF SimulationTypeOK
    <3> QED
      BY <2>1, <3>1
  <2>10. Range(localQueue') = (Range(localQueue) \cup {first}) \cup {next}
    <3> DEFINE new == <<first, next>>
    <3>1. new \in Seq(Mutations) /\ DOMAIN new = {1, 2} /\ new[1] = first /\ new[2] = next
      BY <2>8
    <3>2. Range(new) = {first, next} /\ localQueue' = localQueue \o new
      BY <2>1, <3>1 DEF Range
    <3> HIDE DEF new
    <3>3. Range(localQueue \o new) = Range(localQueue) \cup Range(new)
      BY <2>9, <3>1, ElementsOfBoth
    <3> QED
      BY <3>2, <3>3
  <2>11. /\ \A m \in Range(localQueue) : m.of \in orders /\ m.of # order
         /\ first \notin Range(localQueue) /\ next \notin Range(localQueue)
    <3>1. \A m \in Range(localQueue) : m.of \in orders
      BY <1>0 DEF Queues, LocalQueueIsSound, Range
    <3> QED
      BY <2>4, <2>8, <3>1
  <2>12. ASSUME NEW b \in Bars
         PROVE  Effect(Range(localQueue'), b)
                  = Effect(Range(localQueue), b) + (IF b = register THEN -1 ELSE 0)
                /\ Effect(Range(localQueue), b) \in Int
    <3> DEFINE M == Range(localQueue)
               N == M \cup {first}
    <3>1. AreMutations(M) /\ AreMutations({first}) /\ AreMutations({next})
      <4>1. IsFiniteSet({first}) /\ IsFiniteSet({next})
        BY FS_Singleton
      <4>2. first.delta \in Int /\ next.delta \in Int
        BY <2>8
      <4> QED
        BY <2>9, <4>1, <4>2, QueueIsFinite DEF AreMutations
    <3>2. M \cap {first} = {} /\ N \cap {next} = {}
      BY <2>8, <2>11
    <3> HIDE DEF M
    <3>3. AreMutations(N)
      BY <3>1, FS_Union DEF AreMutations
    <3>4. Effect(N, b) = Effect(M, b) + Effect({first}, b) /\ Effect(M, b) \in Int
      <4> DEFINE F == {first}
      <4>1. AreMutations(F) /\ M \cap F = {}
        BY <3>1, <3>2
      <4> HIDE DEF F
      <4> HIDE DEF N
      <4>2. Effect(M \cup F, b) = Effect(M, b) + Effect(F, b) /\ Effect(M, b) \in Int
        <5>1. AreMutations(M)
          BY <3>1
        <5>2. AreMutations(F) /\ M \cap F = {}
          BY <4>1
        <5> QED
          BY ONLY <5>1, <5>2, EffectOfUnion
      <4> USE DEF N
      <4> QED
        BY <4>2 DEF F
    <3> HIDE DEF N
    <3>5. Effect(N \cup {next}, b) = Effect(N, b) + Effect({next}, b)
      BY ONLY <3>1, <3>2, <3>3, EffectOfUnion
    <3>6. Effect({first}, b) = 0 /\ Effect({next}, b) = IF b = register THEN -1 ELSE 0
      BY <2>8, EffectOfOne
    <3> QED
      BY <2>10, <3>4, <3>5, <3>6 DEF M, N
  <2>13. StockIsAccounted'
    <3>1. ASSUME NEW b \in Bars PROVE edgeStock'[b] = physical'[b] - Effect(Range(localQueue'), b)
      <4>1. edgeStock[b] = physical[b] - Effect(Range(localQueue), b)
        BY <1>0 DEF StockIsAccounted
      <4>2. physical[b] \in Int
        BY <2>3
      <4>3. Effect(Range(localQueue), b) \in Int
        BY <2>12
      <4>4. CASE b = register
        <5>1. /\ physical'[b] = physical[b] - 1
              /\ Effect(Range(localQueue'), b) = Effect(Range(localQueue), b) + -1
          BY <2>3, <2>12, <4>4
        <5> QED
          BY <2>2, <4>1, <4>2, <4>3, <5>1
      <4>5. CASE b # register
        <5>1. /\ physical'[b] = physical[b]
              /\ Effect(Range(localQueue'), b) = Effect(Range(localQueue), b) + 0
          BY <2>3, <2>12, <4>5
        <5> QED
          BY <2>2, <4>1, <4>2, <4>3, <5>1
      <4> QED
        BY <4>4, <4>5
    <3>2. ASSUME NEW b \in Bars
          PROVE  cloudStock'[b] = edgeStock'[b] -
                   Effect({m \in Range(edgeQueue') : IdOf(m) \notin cloudApplied'}, b)
      <4>1. {m \in Range(edgeQueue') : IdOf(m) \notin cloudApplied'}
              = {m \in Range(edgeQueue) : IdOf(m) \notin cloudApplied}
        BY <2>2
      <4> QED
        BY <1>0, <2>2, <4>1 DEF StockIsAccounted
    <3> QED
      BY <3>1, <3>2 DEF StockIsAccounted
  <2>14. GoodsAreConserved'
    <3>1. SumFunctionOnSet(physical', Bars) = SumFunctionOnSet(physical, Bars) - 1
      <4>1. \A b \in Bars : physical[b] \in Int /\ physical'[b] \in Int
        BY <2>3
      <4>2. \A b \in Bars \ {register} : physical'[b] = physical[b]
        BY <2>3
      <4>3. SumFunctionOnSet(physical', Bars)
              = SumFunctionOnSet(physical, Bars) + physical'[register] - physical[register]
        BY <1>2, <4>1, <4>2, BarsAre, SumOfChange
      <4>4. SumFunctionOnSet(physical, Bars) \in Int
        BY <4>1, BarsAre, SumLess
      <4> QED
        BY <2>3, <4>3, <4>4
    <3>2. Cardinality(orders') = Cardinality(orders) + 1 /\ Cardinality(orders) \in Nat
      BY <1>0, <2>1, <2>4, FS_AddElement, FS_CardinalityType
    <3>3. Quantities' = Quantities /\ OnTheWay' = OnTheWay /\ remaining' = remaining
      BY <2>2 DEF Quantities, OnTheWay
    <3>4. SumFunctionOnSet(physical, Bars) \in Int
      BY <2>3, BarsAre, SumLess
    <3>5. SumFunctionOnSet(physical, Bars) - 1 + (Cardinality(orders) + 1)
            = SumFunctionOnSet(physical, Bars) + Cardinality(orders)
      BY <3>2, <3>4
    <3> QED
      BY <1>0, <1>1, <3>1, <3>2, <3>3, <3>5, FiguresAreNamed, NextFiguresAreNamed
  <2>15. EffectsHappenOnce'
    <3>1. Completed' = Completed
      <4>1. Completed' = {o \in orders' : payments'[o].status = "SUCCEEDED" /\ ~payments'[o].cash}
        BY DEF Completed
      <4>2. order \notin Completed' /\ order \notin Completed
        BY <2>4, <2>6, <2>7, <4>1 DEF Completed
      <4>3. ASSUME NEW o \in orders PROVE o \in Completed' <=> o \in Completed
        BY <2>1, <2>7, <4>1 DEF Completed
      <4>4. Completed' \subseteq orders \cup {order} /\ Completed \subseteq orders
        BY <2>1, <4>1 DEF Completed
      <4> HIDE DEF Completed
      <4> QED
        BY <4>2, <4>3, <4>4
    <3> QED
      BY <1>0, <2>2, <3>1, FiguresAreNamed, NextFiguresAreNamed
  <2>16. CashIsPaid' /\ IsFiniteSet(orders')
    <3>1. IsFiniteSet(orders')
      BY <1>0, <2>1, FS_AddElement
    <3> QED
      BY <1>0, <2>1, <2>6, <2>7, <3>1 DEF CashIsPaid
  <2>17. Queues'
    <3>0. OnTheWay' = OnTheWay /\ Len(localQueue) \in Nat
      BY <2>2, <2>9 DEF OnTheWay
    <3>1. NumbersAreSpent'
      <4>1. \A o \in orders : o <= sequence /\ o \in Nat
        BY <1>0 DEF SimulationTypeOK, Queues, NumbersAreSpent
      <4>2. \A o \in orders' : o <= sequence'
        BY <2>1, <2>4, <4>1
      <4>3. \A i \in DOMAIN transfers' : transfers'[i].id <= sequence'
        <5>1. ASSUME NEW i \in DOMAIN transfers PROVE transfers[i].id \in Nat /\ transfers[i].id <= sequence
          BY <1>0, TransferFields DEF Queues, NumbersAreSpent
        <5> QED
          BY <2>1, <2>2, <2>4, <5>1
      <4>4. \A id \in edgeApplied' : id[1] <= sequence'
        <5>1. ASSUME NEW id \in edgeApplied PROVE id[1] \in Nat /\ id[1] <= sequence
          BY <1>0, AppliedAreNumbered DEF Queues, NumbersAreSpent
        <5> QED
          BY <2>1, <2>2, <2>4, <5>1
      <4> QED
        BY <1>0, <2>2, <4>2, <4>3, <4>4 DEF Queues, NumbersAreSpent
    <3>2. IdOf(first) \notin edgeApplied /\ IdOf(next) \notin edgeApplied
      <4>1. \A id \in edgeApplied : id[1] # order
        BY <1>0, <2>4 DEF Queues, NumbersAreSpent, SimulationTypeOK
      <4> QED
        BY <2>8, <4>1
    <3>3. DOMAIN localQueue' = 1..Len(localQueue) + 2 /\ DOMAIN localQueue = 1..Len(localQueue)
      BY <2>9
    <3>4. ASSUME NEW i \in DOMAIN localQueue'
          PROVE  \/ /\ i \in DOMAIN localQueue
                    /\ localQueue'[i] = localQueue[i] /\ localQueue[i].of # order
                 \/ i = Len(localQueue) + 1 /\ localQueue'[i] = first
                 \/ i = Len(localQueue) + 2 /\ localQueue'[i] = next
      <4>1. CASE i \in 1..Len(localQueue)
        BY <2>9, <2>11, <3>3, <4>1 DEF Range
      <4>2. CASE i \notin 1..Len(localQueue)
        <5>1. i = Len(localQueue) + 1 \/ i = Len(localQueue) + 2
          BY <3>0, <3>3, <4>2
        <5> QED
          BY <2>9, <5>1
      <4> QED
        BY <4>1, <4>2
    <3>5. ASSUME NEW i \in DOMAIN localQueue'
          PROVE  /\ localQueue'[i].kind # "TRANSFER" /\ localQueue'[i].of \in orders'
                 /\ localQueue'[i].delta <= 0 /\ IdOf(localQueue'[i]) \notin edgeApplied'
      <4>1. CASE i \in DOMAIN localQueue /\ localQueue'[i] = localQueue[i]
        BY <1>0, <2>1, <2>2, <4>1 DEF Queues, LocalQueueIsSound
      <4>2. ASSUME NEW m \in {first, next}
            PROVE  m.kind # "TRANSFER" /\ m.of = order /\ m.delta <= 0 /\ IdOf(m) \notin edgeApplied
        <5>1. m = first \/ m = next
          BY <4>2
        <5> QED
          BY <2>8, <3>2, <5>1
      <4>3. CASE localQueue'[i] \in {first, next}
        BY <2>1, <2>2, <4>2, <4>3
      <4> QED
        BY <3>4, <4>1, <4>3
    <3>6. ASSUME NEW i \in DOMAIN localQueue', NEW j \in DOMAIN localQueue',
                 IdOf(localQueue'[i]) = IdOf(localQueue'[j])
          PROVE  i = j
      <4>1. localQueue'[i].of = localQueue'[j].of /\ localQueue'[i].kind = localQueue'[j].kind
        BY <3>6 DEF IdOf
      <4>2. CASE localQueue'[i].of = order
        BY <2>8, <3>4, <4>1, <4>2
      <4>3. CASE localQueue'[i].of # order
        <5>1. /\ i \in DOMAIN localQueue /\ localQueue'[i] = localQueue[i]
              /\ j \in DOMAIN localQueue /\ localQueue'[j] = localQueue[j]
          BY <2>8, <3>4, <4>1, <4>3
        <5> QED
          BY <1>0, <3>6, <5>1 DEF Queues, LocalQueueIsSound
      <4> QED
        BY <4>2, <4>3
    <3>7. LocalQueueIsSound'
      BY <3>5, <3>6 DEF LocalQueueIsSound
    <3>8. EdgeQueueIsSound' /\ CloudIsBehind'
      BY <1>0, <2>1, <2>2, <3>0 DEF Queues, EdgeQueueIsSound, CloudIsBehind
    <3>9. NothingIsLost'
      <4>1. sequence' = Cardinality(orders') + Len(transfers')
        <5>1. Cardinality(orders') = Cardinality(orders) + 1 /\ Cardinality(orders) \in Nat
          BY <1>0, <2>1, <2>4, FS_AddElement, FS_CardinalityType
        <5>2. sequence = Cardinality(orders) + Len(transfers) /\ Len(transfers) \in Nat
          BY <1>0 DEF Queues, NothingIsLost, SimulationTypeOK
        <5>3. sequence' = sequence + 1 /\ transfers' = transfers
          BY <2>1, <2>2 DEF order
        <5> QED
          BY <5>1, <5>2, <5>3
      <4>2. ASSUME NEW o \in orders'
            PROVE  \/ <<o, "ORDER">> \in edgeApplied'
                   \/ \E m \in Range(localQueue') : IdOf(m) = <<o, "ORDER">>
        <5>1. CASE o = order
          BY <2>8, <2>10, <5>1
        <5>2. CASE o # order
          BY <1>0, <2>1, <2>2, <2>10, <5>2 DEF Queues, NothingIsLost
        <5> QED
          BY <5>1, <5>2
      <4>3. ASSUME NEW o \in orders', <<o, "ORDER">> \in cloudApplied'
            PROVE  o \in cloudOrders'
        <5>1. <<o, "ORDER">> \in edgeApplied /\ <<o, "ORDER">> \in cloudApplied
          BY <1>0, <2>2, <4>3 DEF Queues, CloudIsBehind
        <5>2. o # order
          <6>1. <<o, "ORDER">>[1] = o
            OBVIOUS
          <6>2. \A id \in edgeApplied : id[1] # order
            BY <1>0, <2>4 DEF Queues, NumbersAreSpent, SimulationTypeOK
          <6> QED
            BY <5>1, <6>1, <6>2
        <5> QED
          BY <1>0, <2>1, <2>2, <5>1, <5>2 DEF Queues, NothingIsLost
      <4>4. \A id \in edgeApplied' : id \in cloudApplied' \/ \E m \in Range(edgeQueue') : IdOf(m) = id
        BY <1>0, <2>2 DEF Queues, NothingIsLost
      <4> QED
        BY <4>1, <4>2, <4>3, <4>4 DEF NothingIsLost
    <3> QED
      BY <3>1, <3>7, <3>8, <3>9 DEF Queues
  <2>18. SimulationTypeOK'
    <3>1. orders' \subseteq Nat /\ cloudOrders' \subseteq orders' /\ sequence' \in Nat
      BY <1>0, <2>1, <2>2, <2>4 DEF SimulationTypeOK
    <3> QED
      BY <1>0, <1>1, <1>3, <2>2, <2>3, <2>7, <2>9, <3>1 DEF SimulationTypeOK, PaymentRow
  <2> QED
    BY <2>13, <2>14, <2>15, <2>16, <2>17, <2>18 DEF SimulationInv
<1> QED
  BY <1>4, <1>5

TransferRow == [id : Nat, bar : Bars, quantity : Nat, due : Nat, completed : BOOLEAN]

\* The transfers on their way are finitely many.
LEMMA OnTheWayIsFinite ==
  ASSUME SimulationTypeOK
  PROVE  /\ OnTheWay \subseteq DOMAIN transfers /\ IsFiniteSet(OnTheWay)
         /\ DOMAIN transfers = 1..Len(transfers) /\ Len(transfers) \in Nat
         /\ \A i \in OnTheWay : Quantities[i] \in Nat
<1>1. transfers \in Seq(TransferRow)
  BY DEF SimulationTypeOK, TransferRow
<1>2. DOMAIN transfers = 1..Len(transfers) /\ Len(transfers) \in Nat
  BY <1>1
<1>3. OnTheWay \subseteq DOMAIN transfers
  BY DEF OnTheWay
<1>4. IsFiniteSet(OnTheWay)
  BY <1>2, <1>3, CountUpTo, FS_Subset
<1>5. \A i \in OnTheWay : Quantities[i] \in Nat
  BY <1>3, TransferFields DEF Quantities
<1> QED
  BY <1>2, <1>3, <1>4, <1>5

\* New transfers take what the source loses, under numbers that nobody has.
LEMMA TransfersAreSound == ASSUME SimulationInv, MaybeCreateTransfers PROVE SimulationInv'
<1> DEFINE bars == [b \in Bars |-> b]
           served == Elements(bars, Served)
           L == Len(served)
           T == Len(transfers)
           row(n) == [id |-> sequence + n, bar |-> served[n],
                      quantity |-> Left[served[n] - 1] - Left[served[n]],
                      due |-> second + TransferDelay, completed |-> FALSE]
           new == [n \in DOMAIN served |-> row(n)]
<1>0. /\ SimulationTypeOK /\ Queues /\ CashIsPaid /\ IsFiniteSet(orders)
      /\ StockIsAccounted /\ GoodsAreConserved /\ EffectsHappenOnce
  BY DEF SimulationInv
<1>1. /\ scenario \in Scenarios /\ remaining \in Nat /\ config' = config /\ second \in Nat
      /\ sequence \in Nat /\ Final' = Final
  <2>1. scenario \in Scenarios /\ remaining \in Nat /\ second \in 0..Final /\ sequence \in Nat
    BY <1>0 DEF SimulationTypeOK
  <2>2. config \in Configurations
    BY <2>1, ConfigIsSound
  <2>3. second \in Nat
    BY <2>1, <2>2 DEF Configurations, Final
  <2> QED
    BY <2>1, <2>3 DEF MaybeCreateTransfers, config, Final
<1>2. bars \in Seq(Bars) /\ Len(bars) = Cardinality(Bars) /\ Served \in SUBSET (1..Len(bars))
  <2>1. Bars = 1..Cardinality(Bars) /\ Cardinality(Bars) \in Nat
    BY BarsAre
  <2>2. bars \in Seq(Bars) /\ Len(bars) = Cardinality(Bars)
    BY <2>1
  <2> QED
    BY <2>1, <2>2 DEF Served
<1>3. served \in Seq(Bars) /\ AreTaken(served, bars, Served)
  BY <1>2, ElementsAre
<1>4. /\ replenished' = replenished \cup Served /\ remaining' = Left[Cardinality(Bars)]
      /\ sequence' = sequence + L /\ transfers' = transfers \o new /\ phase' = "arrivals"
  BY DEF MaybeCreateTransfers
<1>5. UNCHANGED <<scenario, second, selling, accumulator, physical, edgeStock, cloudStock,
                  localQueue, edgeQueue, edgeApplied, cloudApplied, cloudOrders, twice, orders,
                  payments, answered>>
  BY DEF MaybeCreateTransfers, sales, stocks, cloud, money
<1>6. L \in Nat /\ DOMAIN served = 1..L /\ \A n \in 1..L : served[n] \in Bars
  <2> HIDE DEF served
  <2> QED
    BY <1>3
<1>7. /\ \A b \in Bars : Taken[b] \in Nat /\ Taken[b] = Left[b - 1] - Left[b]
      /\ SumFunctionOnSet(Taken, Served) = remaining - remaining' /\ remaining' \in Nat
  BY <1>1, <1>4, TakenAddsUp DEF Taken
<1>8. /\ Values(served, 1..L) = Served
      /\ \A m, n \in 1..L : served[m] = served[n] => m = n
  <2> HIDE DEF served, L
  <2>1. PICK p \in [1..Len(served) -> Served] :
          /\ \A n \in 1..Len(served) : served[n] = bars[p[n]]
          /\ \A k \in Served : \E n \in 1..Len(served) : p[n] = k
          /\ \A m, n \in 1..Len(served) : p[m] = p[n] => m = n
    BY <1>3 DEF AreTaken
  <2>2. \A n \in 1..Len(served) : p[n] \in Served /\ served[n] = p[n]
    <3>1. \A b \in Served : b \in Bars
      BY DEF Served
    <3> QED
      BY <2>1, <3>1
  <2> HIDE DEF bars
  <2> QED
    BY <2>1, <2>2 DEF Values, L
<1> HIDE DEF bars, served, L, T
<1>9. /\ new \in Seq(TransferRow) /\ Len(new) = L
      /\ \A n \in 1..L : new[n] = row(n) /\ row(n).quantity = Taken[served[n]]
  <2>1. ASSUME NEW n \in 1..L PROVE row(n) \in TransferRow /\ row(n).quantity = Taken[served[n]]
    <3>1. served[n] \in Bars /\ Left[served[n] - 1] - Left[served[n]] = Taken[served[n]]
          /\ Taken[served[n]] \in Nat
      BY <1>6, <1>7
    <3>2. sequence + n \in Nat /\ second + TransferDelay \in Nat
      BY <1>1, <1>6, EventSimulationAssumption
    <3> QED
      BY <3>1, <3>2 DEF TransferRow
  <2> HIDE DEF row
  <2>2. new \in [1..L -> TransferRow]
    BY <1>6, <2>1
  <2> QED
    BY <1>6, <2>1, <2>2
<1>10. transfers \in Seq(TransferRow) /\ T \in Nat
  BY <1>0 DEF SimulationTypeOK, TransferRow, T
<1> HIDE DEF new
<1>11. /\ transfers' \in Seq(TransferRow)
       /\ DOMAIN transfers = 1..T /\ DOMAIN transfers' = 1..(T + L)
       /\ \A i \in 1..T : transfers'[i] = transfers[i]
       /\ \A n \in 1..L : transfers'[T + n] = new[n]
  <2> HIDE DEF TransferRow
  <2>0. /\ new \in Seq(TransferRow) /\ Len(new) = L
        /\ transfers' = transfers \o new /\ Len(transfers) = T
    BY <1>4, <1>9 DEF T
  <2> HIDE DEF row
  <2> HIDE DEF TransferRow, new
  <2>1. /\ transfers \o new \in Seq(TransferRow)
        /\ DOMAIN transfers = 1..Len(transfers)
        /\ DOMAIN (transfers \o new) = 1..(Len(transfers) + Len(new))
        /\ \A i \in 1..Len(transfers) : (transfers \o new)[i] = transfers[i]
        /\ \A n \in 1..Len(new) : (transfers \o new)[Len(transfers) + n] = new[n]
    BY ONLY <1>10, <2>0, ElementsOfBoth
  <2> QED
    BY ONLY <2>0, <2>1
<1>12. ASSUME NEW i \in 1..(T + L)
       PROVE  i \in 1..T \/ \E n \in 1..L : i = T + n
  <2>1. new \in Seq(TransferRow) /\ Len(new) = L /\ Len(transfers) = T
    BY <1>9 DEF T
  <2> HIDE DEF row, new, TransferRow
  <2>2. \A j \in 1..(Len(transfers) + Len(new)) :
          j \in 1..Len(transfers) \/ \E n \in 1..Len(new) : j = Len(transfers) + n
    BY <1>10, <2>1, ElementsOfBoth
  <2> QED
    BY <2>1, <2>2
<1> DEFINE Places == {T + n : n \in 1..L}
<1>13. OnTheWay' = OnTheWay \cup Places /\ OnTheWay \cap Places = {}
  <2>1. OnTheWay' = {i \in 1..(T + L) : ~transfers'[i].completed}
    BY <1>11 DEF OnTheWay
  <2>2. OnTheWay = {i \in 1..T : ~transfers[i].completed}
    BY <1>11 DEF OnTheWay
  <2>3. \A i \in 1..T : i \in 1..(T + L) /\ (transfers'[i].completed <=> transfers[i].completed)
    BY <1>6, <1>10, <1>11
  <2>4. \A n \in 1..L : T + n \in 1..(T + L) /\ T + n \notin 1..T /\ ~transfers'[T + n].completed
    <3>1. ASSUME NEW n \in 1..L
          PROVE  T + n \in 1..(T + L) /\ T + n \notin 1..T /\ ~transfers'[T + n].completed
      <4>1. transfers'[T + n] = row(n) /\ ~row(n).completed
        BY <1>9, <1>11
      <4> HIDE DEF row
      <4> QED
        BY <1>6, <1>10, <4>1
    <3> QED
      BY <3>1
  <2>5. ASSUME NEW i \in OnTheWay' PROVE i \in OnTheWay \cup Places
    BY <1>12, <2>1, <2>2, <2>3, <2>5
  <2>6. ASSUME NEW i \in OnTheWay \cup Places PROVE i \in OnTheWay'
    BY <2>1, <2>2, <2>3, <2>4, <2>6
  <2>7. OnTheWay \cap Places = {}
    BY <2>2, <2>4
  <2> QED
    BY <2>5, <2>6, <2>7
<1>14. /\ SumFunctionOnSet(Quantities', OnTheWay')
            = SumFunctionOnSet(Quantities, OnTheWay) + (remaining - remaining')
       /\ SumFunctionOnSet(Quantities, OnTheWay) \in Int
  <2> DEFINE f == [n \in 1..L |-> Taken[served[n]]]
             place == [n \in 1..L |-> T + n]
             q == Quantities'
  <2>1. IsFiniteSet(1..L) /\ \A n \in 1..L : f[n] \in Int /\ Taken[served[n]] = f[n]
    BY <1>6, <1>7, CountUpTo
  <2>2. \A i \in 1..(T + L) : q[i] = transfers'[i].quantity
    BY <1>11 DEF Quantities
  <2>3. \A n \in 1..L : q[T + n] = f[n] /\ q[place[n]] = f[n]
    <3>1. ASSUME NEW n \in 1..L PROVE q[T + n] = f[n] /\ place[n] = T + n
      <4>1. T + n \in 1..(T + L)
        BY <1>6, <1>10
      <4>2. transfers'[T + n].quantity = Taken[served[n]]
        BY <1>9, <1>11
      <4> QED
        BY <2>2, <4>1, <4>2
    <3> HIDE DEF q, f, place
    <3> QED
      BY <3>1
  <2>4. \A m, n \in 1..L : place[m] = place[n] => m = n
    BY <1>6, <1>10
  <2>5. Values(place, 1..L) = Places
    BY DEF Values
  <2>6. /\ IsFiniteSet(OnTheWay) /\ OnTheWay \subseteq 1..T
        /\ \A i \in OnTheWay : Quantities[i] \in Int /\ Quantities[i] = transfers[i].quantity
    <3>1. IsFiniteSet(OnTheWay) /\ OnTheWay \subseteq DOMAIN transfers
          /\ \A i \in OnTheWay : Quantities[i] \in Nat
      BY <1>0, OnTheWayIsFinite
    <3>2. DOMAIN transfers = 1..T
      BY <1>11
    <3>3. \A i \in DOMAIN transfers : Quantities[i] = transfers[i].quantity
      BY DEF Quantities
    <3> QED
      BY <3>1, <3>2, <3>3
  <2>7. IsFiniteSet(Places)
    <3> DEFINE I == 1..L
    <3>1. Places = {place[n] : n \in I} /\ IsFiniteSet(I)
      BY <2>1
    <3> HIDE DEF place, Places, I, f, q
    <3>2. IsFiniteSet({place[n] : n \in I})
      BY ONLY <3>1, ImageIsFinite
    <3> QED
      BY <3>1, <3>2
  <2>8. \A i \in OnTheWay : q[i] = Quantities[i]
    <3>0. \A i \in 1..T : i \in 1..(T + L)
      BY <1>6, <1>10
    <3>1. \A i \in OnTheWay : i \in 1..T /\ i \in 1..(T + L)
      BY <2>6, <3>0
    <3> QED
      BY <1>11, <2>2, <2>6, <3>1
  <2> HIDE DEF f, place, q, Places
  <2>9. SumFunctionOnSet(Taken, Values(served, 1..L)) = SumFunctionOnSet(f, 1..L)
    <3> DEFINE I == 1..L
    <3>1. /\ IsFiniteSet(I) /\ \A n \in I : f[n] \in Int
          /\ \A n \in I : Taken[served[n]] = f[n]
          /\ \A m, n \in I : served[m] = served[n] => m = n
      BY <1>8, <2>1
    <3> HIDE DEF I, f
    <3>2. SumFunctionOnSet(Taken, Values(served, I)) = SumFunctionOnSet(f, I)
      BY ONLY <3>1, SumOverRows
    <3> QED
      BY <3>2 DEF I
  <2>10. SumFunctionOnSet(q, Values(place, 1..L)) = SumFunctionOnSet(f, 1..L)
    <3> DEFINE I == 1..L
    <3>1. /\ IsFiniteSet(I) /\ \A n \in I : f[n] \in Int
          /\ \A n \in I : q[place[n]] = f[n]
          /\ \A m, n \in I : place[m] = place[n] => m = n
      BY <2>1, <2>3, <2>4
    <3> HIDE DEF I
    <3>2. SumFunctionOnSet(q, Values(place, I)) = SumFunctionOnSet(f, I)
      BY ONLY <3>1, SumOverRows
    <3> QED
      BY <3>2 DEF I
  <2>11. \A i \in OnTheWay \cup Places : q[i] \in Int
    BY <2>1, <2>3, <2>6, <2>8 DEF Places
  <2>12. SumFunctionOnSet(q, OnTheWay \cup Places)
           = SumFunctionOnSet(q, OnTheWay) + SumFunctionOnSet(q, Places)
    BY <1>13, <2>6, <2>7, <2>11, SumOfUnion
  <2>13. SumFunctionOnSet(q, OnTheWay) = SumFunctionOnSet(Quantities, OnTheWay)
    BY <2>6, <2>8, SameSum
  <2>14. SumFunctionOnSet(Quantities, OnTheWay) \in Int
    BY <2>6, SumLess
  <2> QED
    BY <1>7, <1>8, <1>13, <2>5, <2>9, <2>10, <2>12, <2>13, <2>14 DEF q
<1>15. GoodsAreConserved'
  <2>1. SumFunctionOnSet(physical, Bars) \in Int
    <3>1. \A b \in Bars : physical[b] \in Int
      BY <1>0 DEF SimulationTypeOK
    <3> QED
      BY <3>1, BarsAre, SumLess
  <2>2. Cardinality(orders) \in Nat
    BY <1>0, FS_CardinalityType
  <2> QED
    BY <1>0, <1>1, <1>5, <1>7, <1>14, <2>1, <2>2, FiguresAreNamed, NextFiguresAreNamed
<1>16. StockIsAccounted' /\ EffectsHappenOnce'
  BY <1>0, <1>5, StocksStay, EffectsStay DEF stocks
<1>17. Queues'
  <2>1. ASSUME NEW i \in 1..T
        PROVE  /\ transfers'[i].id = transfers[i].id /\ transfers[i].id \in Nat
               /\ transfers[i].id <= sequence
    BY <1>0, <1>11, TransferFields DEF Queues, NumbersAreSpent
  <2>2. ASSUME NEW n \in 1..L PROVE transfers'[T + n].id = sequence + n
    BY <1>9, <1>11
  <2>3. ASSUME NEW i \in DOMAIN transfers' PROVE transfers'[i].id <= sequence'
    <3>1. CASE i \in 1..T
      BY <1>1, <1>4, <1>6, <2>1, <3>1
    <3>2. CASE \E n \in 1..L : i = T + n
      <4>1. PICK n \in 1..L : i = T + n
        BY <3>2
      <4> QED
        BY <1>1, <1>4, <1>6, <2>2, <4>1
    <3> QED
      BY <1>11, <1>12, <3>1, <3>2
  <2>4. ASSUME NEW i \in DOMAIN transfers', NEW j \in DOMAIN transfers',
               transfers'[i].id = transfers'[j].id
        PROVE  i = j
    <3>1. CASE i \in 1..T /\ j \in 1..T
      BY <1>0, <1>11, <2>1, <2>4, <3>1 DEF Queues, NumbersAreSpent
    <3>2. ASSUME NEW k \in 1..T, NEW n \in 1..L PROVE transfers'[k].id # transfers'[T + n].id
      BY <1>1, <1>6, <2>1, <2>2
    <3>3. ASSUME NEW m \in 1..L, NEW n \in 1..L, transfers'[T + m].id = transfers'[T + n].id
          PROVE  T + m = T + n
      BY <1>1, <1>6, <2>2, <3>3
    <3>4. (i \in 1..T \/ \E n \in 1..L : i = T + n) /\ (j \in 1..T \/ \E n \in 1..L : j = T + n)
      BY <1>11, <1>12
    <3> QED
      BY <2>4, <3>1, <3>2, <3>3, <3>4
  <2>5. ASSUME NEW id \in edgeApplied PROVE id[1] \in Nat /\ id[1] <= sequence
    BY <1>0, AppliedAreNumbered DEF Queues, NumbersAreSpent
  <2>6. \A o \in orders : o \in Nat /\ o <= sequence
    BY <1>0 DEF SimulationTypeOK, Queues, NumbersAreSpent
  <2>7. \A o \in orders' : o <= sequence'
    BY <1>1, <1>4, <1>5, <1>6, <2>6
  <2>8. \A id \in edgeApplied' : id[1] <= sequence'
    BY <1>1, <1>4, <1>5, <1>6, <2>5
  <2>9. NumbersAreSpent'
    BY <2>3, <2>4, <2>7, <2>8 DEF NumbersAreSpent
  <2>10. ASSUME NEW i \in OnTheWay' PROVE <<transfers'[i].id, "TRANSFER">> \notin edgeApplied'
    <3>1. CASE i \in OnTheWay
      <4>1. i \in 1..T
        BY <1>11, <3>1 DEF OnTheWay
      <4> QED
        BY <1>0, <1>5, <2>1, <3>1, <4>1 DEF Queues, EdgeQueueIsSound
    <3>2. CASE i \in Places
      <4>1. PICK n \in 1..L : i = T + n
        BY <3>2
      <4>2. transfers'[i].id > sequence
        BY <1>1, <1>6, <2>2, <4>1
      <4>3. ASSUME <<transfers'[i].id, "TRANSFER">> \in edgeApplied PROVE FALSE
        BY <1>1, <2>5, <4>2, <4>3
      <4> QED
        BY <1>5, <4>3
    <3> QED
      BY <1>13, <3>1, <3>2
  <2>11. LocalQueueIsSound' /\ CloudIsBehind'
    BY <1>0, <1>5 DEF Queues, LocalQueueIsSound, CloudIsBehind
  <2>12. EdgeQueueIsSound'
    BY <1>0, <1>5, <2>10 DEF Queues, EdgeQueueIsSound
  <2>13. NothingIsLost'
    <3>1. sequence = Cardinality(orders) + T /\ Cardinality(orders) \in Nat
      BY <1>0, FS_CardinalityType DEF Queues, NothingIsLost, T
    <3>2. Len(transfers') = T + L
      <4> HIDE DEF TransferRow
      <4>1. DOMAIN transfers' = 1..Len(transfers') /\ Len(transfers') \in Nat
        BY <1>11
      <4>2. DOMAIN transfers' = 1..(T + L) /\ T + L \in Nat
        BY <1>6, <1>10, <1>11
      <4>3. Cardinality(1..Len(transfers')) = Len(transfers') /\ Cardinality(1..(T + L)) = T + L
        BY <4>1, <4>2, CountUpTo
      <4> QED
        BY <4>1, <4>2, <4>3
    <3>3. sequence' = Cardinality(orders') + Len(transfers')
      BY <1>4, <1>5, <1>6, <1>10, <3>1, <3>2
    <3> QED
      BY <1>0, <1>5, <3>3 DEF Queues, NothingIsLost
  <2> QED
    BY <2>9, <2>11, <2>12, <2>13 DEF Queues
<1>18. SimulationTypeOK'
  <2>1. replenished' \subseteq Bars /\ sequence' \in Nat
    BY <1>0, <1>1, <1>4, <1>6 DEF SimulationTypeOK, Served
  <2> QED
    BY <1>0, <1>1, <1>4, <1>5, <1>7, <1>11, <2>1 DEF SimulationTypeOK, TransferRow
<1>19. CashIsPaid' /\ IsFiniteSet(orders')
  BY <1>0, <1>5 DEF CashIsPaid
<1> QED
  BY <1>15, <1>16, <1>17, <1>18, <1>19 DEF SimulationInv

\* What waits for the Cloud.
Waiting == {m \in Range(edgeQueue) : IdOf(m) \notin cloudApplied}

\* The accounts by that name.
LEMMA StocksAreNamed ==
  /\ StockIsAccounted <=>
       \A b \in Bars : /\ edgeStock[b] = physical[b] - Effect(Range(localQueue), b)
                       /\ cloudStock[b] = edgeStock[b] - Effect(Waiting, b)
  /\ StockIsAccounted' <=>
       \A b \in Bars : /\ edgeStock'[b] = physical'[b] - Effect(Range(localQueue'), b)
                       /\ cloudStock'[b] = edgeStock'[b] - Effect(Waiting', b)
BY DEF StockIsAccounted, Waiting

\* Mutations that are new count all.
LEMMA AllAreNew ==
  ASSUME NEW stock, NEW M, NEW applied, \A m \in M : IdOf(m) \notin applied
  PROVE  StockAfter(stock, M, applied) = [b \in Bars |-> stock[b] + Effect(M, b)]
<1>1. {m \in M : IdOf(m) \notin applied} = M
  OBVIOUS
<1> QED
  BY <1>1 DEF StockAfter

\* Queues of mutations have effects.
LEMMA QueueEffects ==
  ASSUME SimulationTypeOK, NEW b
  PROVE  /\ AreMutations(Range(localQueue)) /\ Effect(Range(localQueue), b) \in Int
         /\ AreMutations(Range(edgeQueue)) /\ AreMutations(Waiting) /\ Effect(Waiting, b) \in Int
<1>1. localQueue \in Seq(Mutations) /\ edgeQueue \in Seq(Mutations)
  BY DEF SimulationTypeOK
<1>2. AreMutations(Range(localQueue)) /\ AreMutations(Range(edgeQueue))
  BY <1>1, QueueIsFinite
<1>3. Waiting \in SUBSET Range(edgeQueue)
  BY DEF Waiting
<1>4. AreMutations(Waiting)
  BY <1>2, <1>3, FewerMutations
<1>5. ASSUME NEW M, AreMutations(M) PROVE Effect(M, b) \in Int
  <2>1. AreMutations({}) /\ M \cap {} = {}
    BY FS_EmptySet DEF AreMutations
  <2> QED
    BY <1>5, <2>1, EffectOfUnion
<1> QED
  BY <1>2, <1>4, <1>5

\* New mutations that Edge applies and queues: each waits for the Cloud, and
\* the queue stays sound.
LEMMA EdgeTakes ==
  ASSUME SimulationInv, NEW M, AreMutations(M),
         \A m \in M : IdOf(m) \notin edgeApplied /\ (m.kind = "ORDER" => m.of \in orders),
         \A m, k \in M : IdOf(m) = IdOf(k) => m = k,
         Range(edgeQueue') = Range(edgeQueue) \cup M,
         edgeApplied' = edgeApplied \cup {IdOf(m) : m \in M},
         UNCHANGED <<cloudApplied, cloudOrders, orders>>
  PROVE  /\ \A b : Effect(Waiting', b) = Effect(Waiting, b) + Effect(M, b) /\ Effect(M, b) \in Int
         /\ \A m \in Range(edgeQueue') : IdOf(m) \in edgeApplied' /\ (m.kind = "ORDER" => m.of \in orders')
         /\ \A m, k \in Range(edgeQueue') : IdOf(m) = IdOf(k) => m = k
         /\ CloudIsBehind'
         /\ \A id \in edgeApplied' : id \in cloudApplied' \/ \E m \in Range(edgeQueue') : IdOf(m) = id
<1>1. SimulationTypeOK /\ EdgeQueueIsSound /\ CloudIsBehind
  BY DEF SimulationInv, Queues
<1>2. Waiting' = Waiting \cup M /\ Waiting \cap M = {}
  <2>1. \A m \in Waiting : m \in Range(edgeQueue) /\ IdOf(m) \in edgeApplied
    BY <1>1 DEF Waiting, EdgeQueueIsSound
  <2>2. \A m \in M : IdOf(m) \notin cloudApplied
    BY <1>1 DEF CloudIsBehind
  <2>3. Waiting' = {m \in Range(edgeQueue) \cup M : IdOf(m) \notin cloudApplied}
    BY DEF Waiting
  <2> QED
    BY <2>1, <2>2, <2>3 DEF Waiting
<1>3. ASSUME NEW b
      PROVE  Effect(Waiting', b) = Effect(Waiting, b) + Effect(M, b) /\ Effect(M, b) \in Int
  <2>1. AreMutations(Waiting)
    BY <1>1, QueueEffects
  <2> QED
    BY <1>2, <2>1, EffectOfUnion
<1>4. ASSUME NEW m \in Range(edgeQueue')
      PROVE  IdOf(m) \in edgeApplied' /\ (m.kind = "ORDER" => m.of \in orders')
  BY <1>1, <1>4 DEF EdgeQueueIsSound
<1>5. ASSUME NEW m \in Range(edgeQueue'), NEW k \in Range(edgeQueue'), IdOf(m) = IdOf(k)
      PROVE  m = k
  BY <1>1, <1>5 DEF EdgeQueueIsSound
<1>6. CloudIsBehind'
  BY <1>1 DEF CloudIsBehind
<1>7. \A id \in edgeApplied' : id \in cloudApplied' \/ \E m \in Range(edgeQueue') : IdOf(m) = id
  BY DEF SimulationInv, Queues, NothingIsLost
<1> QED
  BY <1>3, <1>4, <1>5, <1>6, <1>7

\* The mutation of a transfer, and what the bars get by those of these places.
NewOf(i) == Mutation(transfers[i].id, "TRANSFER", transfers[i].bar, transfers[i].quantity)

\* Transfers that arrive bring what they carry: one mutation each.
LEMMA ArrivalsAddUp ==
  ASSUME SimulationInv, NEW due \in SUBSET OnTheWay
  PROVE  LET M == {NewOf(i) : i \in due} IN
         /\ AreMutations(M) /\ M \subseteq Mutations
         /\ \A m \in M : m.kind = "TRANSFER" /\ m.delta \in Nat /\ IdOf(m) \notin edgeApplied
                         /\ m.of \in Nat /\ m.of <= sequence
         /\ \A m, k \in M : IdOf(m) = IdOf(k) => m = k
         /\ \A b \in Bars : Effect(M, b) \in Nat
         /\ SumFunctionOnSet([b \in Bars |-> Effect(M, b)], Bars) = SumFunctionOnSet(Quantities, due)
<1> DEFINE M == {NewOf(i) : i \in due}
           row == [i \in due |-> NewOf(i)]
<1>1. SimulationTypeOK /\ NumbersAreSpent /\ EdgeQueueIsSound
  BY DEF SimulationInv, Queues
<1>2. due \subseteq DOMAIN transfers /\ IsFiniteSet(due) /\ \A i \in due : Quantities[i] = transfers[i].quantity
  BY <1>1, OnTheWayIsFinite, FS_Subset DEF Quantities
<1>3. ASSUME NEW i \in due
      PROVE  /\ NewOf(i) \in Mutations /\ NewOf(i).kind = "TRANSFER" /\ NewOf(i).delta = Quantities[i]
             /\ NewOf(i).delta \in Nat /\ NewOf(i).of = transfers[i].id /\ NewOf(i).bar = transfers[i].bar
             /\ IdOf(NewOf(i)) = <<transfers[i].id, "TRANSFER">>
             /\ IdOf(NewOf(i)) \notin edgeApplied /\ transfers[i].id <= sequence
             /\ transfers[i].id \in Nat /\ transfers[i].bar \in Bars
  <2>1. /\ transfers[i].id \in Nat /\ transfers[i].bar \in Bars /\ transfers[i].quantity \in Nat
        /\ i \in DOMAIN transfers
    BY <1>1, <1>2, TransferFields
  <2>2. <<transfers[i].id, "TRANSFER">> \notin edgeApplied /\ transfers[i].id <= sequence
    BY <1>1, <2>1 DEF NumbersAreSpent, EdgeQueueIsSound
  <2> QED
    BY <1>2, <2>1, <2>2 DEF NewOf, Mutation, Mutations, IdOf
<1>4. ASSUME NEW i \in due, NEW j \in due, NewOf(i).of = NewOf(j).of
      PROVE  i = j
  BY <1>1, <1>2, <1>3, <1>4 DEF NumbersAreSpent
<1>5. AreMutations(M) /\ M \subseteq Mutations
  <2>1. M = {row[i] : i \in due}
    OBVIOUS
  <2> HIDE DEF row
  <2>2. IsFiniteSet({row[i] : i \in due})
    BY ONLY <1>2, ImageIsFinite
  <2>3. \A m \in M : m \in Mutations /\ m.delta \in Nat
    BY <1>3
  <2> HIDE DEF M
  <2> QED
    BY <2>1, <2>2, <2>3 DEF AreMutations
<1>6. ASSUME NEW m \in M
      PROVE  /\ m.kind = "TRANSFER" /\ m.delta \in Nat /\ IdOf(m) \notin edgeApplied
             /\ m.of \in Nat /\ m.of <= sequence /\ m.bar \in Bars
  <2>1. PICK i \in due : m = NewOf(i)
    BY <1>6
  <2> QED
    BY <1>3, <2>1
<1>7. ASSUME NEW m \in M, NEW k \in M, IdOf(m) = IdOf(k)
      PROVE  m = k
  <2>1. PICK i \in due : m = NewOf(i)
    BY <1>7
  <2>2. PICK j \in due : k = NewOf(j)
    BY <1>7
  <2>3. m.of = k.of
    BY <1>7 DEF IdOf
  <2> QED
    BY <1>4, <2>1, <2>2, <2>3
<1>8. \A i, j \in due : row[i] = row[j] => i = j
  BY <1>4
<1>9. Values(row, due) = M
  BY DEF Values
<1> DEFINE f == Delta(M)
           key == [m \in M |-> m.bar]
           g == [b \in Bars |-> Effect(M, b)]
<1>10. \A m \in M : f[m] = m.delta /\ f[m] \in Int /\ key[m] \in Bars
  BY <1>6 DEF Delta
<1>11. \A i \in due : f[row[i]] = Quantities[i] /\ Quantities[i] \in Int
  <2>1. ASSUME NEW i \in due PROVE row[i] \in M /\ row[i].delta = Quantities[i] /\ Quantities[i] \in Int
    BY <1>3
  <2> HIDE DEF f, row, M
  <2> QED
    BY <1>10, <2>1
<1>12. \A b \in Bars : g[b] = SumFunctionOnSet(f, Part(M, key, b))
  <2>1. ASSUME NEW b \in Bars PROVE Part(M, key, b) = Own(M, b)
    BY DEF Part, Own
  <2>2. ASSUME NEW b \in Bars PROVE Effect(M, b) = SumFunctionOnSet(f, Own(M, b))
    <3> HIDE DEF M
    <3>1. M \in SUBSET M
      OBVIOUS
    <3> QED
      BY <1>5, <3>1, EffectIs
  <2> HIDE DEF M, f, key
  <2> QED
    BY <2>1, <2>2
<1>13. ASSUME NEW b \in Bars PROVE Effect(M, b) \in Nat
  <2>1. IsFiniteSet(Own(M, b)) /\ \A m \in Own(M, b) : f[m] \in Nat
    <3>1. Own(M, b) \in SUBSET M
      BY DEF Own
    <3>2. IsFiniteSet(M)
      BY <1>5 DEF AreMutations
    <3> HIDE DEF M, f
    <3> QED
      BY <1>6, <1>10, <3>1, <3>2, FS_Subset
  <2>2. Effect(M, b) = SumFunctionOnSet(f, Own(M, b))
    <3> HIDE DEF M
    <3>1. M \in SUBSET M
      OBVIOUS
    <3> QED
      BY <1>5, <3>1, EffectIs
  <2> HIDE DEF M, f
  <2> QED
    BY <2>1, <2>2, SumIsPositive
<1> HIDE DEF M, f, key, g, row
<1>14. SumFunctionOnSet(g, Bars) = SumFunctionOnSet(f, M)
  <2>1. IsFiniteSet(M) /\ IsFiniteSet(Bars)
    BY <1>5, BarsAre DEF AreMutations
  <2> QED
    BY <1>10, <1>12, <2>1, SumByParts
<1>15. SumFunctionOnSet(f, Values(row, due)) = SumFunctionOnSet(Quantities, due)
  BY <1>2, <1>8, <1>11, SumOverRows
<1> QED
  BY <1>5, <1>6, <1>7, <1>9, <1>13, <1>14, <1>15 DEF M, g

\* An arrival puts on stock what was on its way, once, and tells the Cloud.
LEMMA ArrivalsAreSound == ASSUME SimulationInv, CompleteTransfers PROVE SimulationInv'
<1> DEFINE due == Arriving
           arrived == Elements(transfers, due)
           news == [n \in DOMAIN arrived |->
             Mutation(arrived[n].id, "TRANSFER", arrived[n].bar, arrived[n].quantity)]
           M == {NewOf(i) : i \in due}
<1>0. /\ SimulationTypeOK /\ Queues /\ CashIsPaid /\ IsFiniteSet(orders)
      /\ StockIsAccounted /\ GoodsAreConserved /\ EffectsHappenOnce
  BY DEF SimulationInv
<1>1. /\ config' = config /\ second \in Nat /\ Final' = Final
  <2>1. config \in Configurations /\ second \in 0..Final
    BY <1>0, ConfigIsSound DEF SimulationTypeOK
  <2>2. second \in Nat
    BY <2>1 DEF Configurations, Final
  <2> QED
    BY <2>2 DEF CompleteTransfers, config, Final
<1>2. /\ UNCHANGED <<scenario, second, selling, accumulator, sequence, localQueue, cloudStock,
                     cloudApplied, cloudOrders, twice, orders, payments, answered, replenished,
                     remaining>>
      /\ phase' = "local"
  BY DEF CompleteTransfers, sales, cloud, money
<1>3. /\ transfers \in Seq(TransferRow) /\ DOMAIN transfers = 1..Len(transfers)
      /\ Len(transfers) \in Nat
      /\ IsFiniteSet(OnTheWay) /\ \A i \in OnTheWay : Quantities[i] \in Nat
      /\ OnTheWay \subseteq DOMAIN transfers
  BY <1>0, OnTheWayIsFinite DEF SimulationTypeOK, TransferRow
<1>4. due \in SUBSET OnTheWay /\ due \in SUBSET (1..Len(transfers))
  BY <1>3 DEF Arriving, OnTheWay
<1>5. SumFunctionOnSet(physical, Bars) \in Int /\ Cardinality(orders) \in Nat
  <2>1. \A b \in Bars : physical[b] \in Int
    BY <1>0 DEF SimulationTypeOK
  <2> QED
    BY <1>0, <2>1, BarsAre, SumLess, FS_CardinalityType
<1>6. CashIsPaid' /\ IsFiniteSet(orders') /\ EffectsHappenOnce'
  BY <1>0, <1>2, EffectsStay DEF CashIsPaid
<1> HIDE DEF due
<1>7. CASE edgeAvailable
  <2>1. /\ transfers' = [i \in DOMAIN transfers |->
                           [transfers[i] EXCEPT !.completed = @ \/ i \in due]]
        /\ physical' = StockAfter(physical, Range(news), {})
        /\ edgeStock' = StockAfter(edgeStock, Range(news), edgeApplied)
        /\ edgeApplied' = edgeApplied \cup {IdOf(m) : m \in Range(news)}
        /\ edgeQueue' = edgeQueue \o news
    BY <1>7 DEF CompleteTransfers, due
  <2>2. arrived \in Seq(TransferRow) /\ Range(arrived) = {transfers[i] : i \in due}
    <3> HIDE DEF TransferRow
    <3> QED
      BY <1>3, <1>4, ElementsAre, RangeOfElements
  <2>3. Range(news) = M /\ news \in Seq(Mutations)
    <3> DEFINE L == Len(arrived)
               Made(r) == Mutation(r.id, "TRANSFER", r.bar, r.quantity)
    <3>1. L \in Nat /\ DOMAIN arrived = 1..L
      <4> HIDE DEF arrived
      <4> QED
        BY <2>2
    <3> HIDE DEF arrived
    <3>2. ASSUME NEW n \in 1..L PROVE news[n] = Made(arrived[n]) /\ arrived[n] \in TransferRow
      BY <2>2, <3>1
    <3>3. \A r \in TransferRow : Made(r) \in Mutations
      BY DEF TransferRow, Mutation, Mutations
    <3>4. DOMAIN news = 1..L
      BY <3>1
    <3>5. news \in Seq(Mutations)
      <4>1. \A n \in 1..L : news[n] \in Mutations
        BY <3>2, <3>3
      <4>2. news = [n \in 1..L |-> news[n]]
        BY <3>1
      <4> HIDE DEF news, L, Made, Mutations
      <4>3. news \in [1..L -> Mutations]
        BY <4>1, <4>2
      <4> QED
        BY <3>1, <4>3
    <3>6. \A i \in due : Made(transfers[i]) = NewOf(i)
      BY DEF NewOf
    <3> HIDE DEF news, Made, L
    <3>7. ASSUME NEW m \in Range(news) PROVE m \in M
      <4>1. PICK n \in 1..L : m = news[n]
        BY <3>4 DEF Range
      <4>2. arrived[n] \in Range(arrived)
        BY <3>1 DEF Range
      <4>3. PICK i \in due : arrived[n] = transfers[i]
        BY <2>2, <4>2
      <4> QED
        BY <3>2, <3>6, <4>1, <4>3
    <3>8. ASSUME NEW m \in M PROVE m \in Range(news)
      <4>1. PICK i \in due : m = NewOf(i)
        BY <3>8
      <4>2. transfers[i] \in Range(arrived)
        BY <2>2
      <4>3. PICK n \in 1..L : transfers[i] = arrived[n]
        BY <3>1, <4>2 DEF Range
      <4>4. m = news[n] /\ n \in DOMAIN news
        BY <3>2, <3>4, <3>6, <4>1, <4>3
      <4> QED
        BY <4>4 DEF Range
    <3> QED
      BY <3>5, <3>7, <3>8
  <2> HIDE DEF arrived, news
  <2>4. /\ AreMutations(M) /\ M \subseteq Mutations
        /\ \A m \in M : m.kind = "TRANSFER" /\ m.delta \in Nat /\ IdOf(m) \notin edgeApplied
                        /\ m.of \in Nat /\ m.of <= sequence
        /\ \A m, k \in M : IdOf(m) = IdOf(k) => m = k
        /\ \A b \in Bars : Effect(M, b) \in Nat
        /\ SumFunctionOnSet([b \in Bars |-> Effect(M, b)], Bars) = SumFunctionOnSet(Quantities, due)
    BY <1>4, ArrivalsAddUp
  <2> HIDE DEF M
  <2>5. /\ physical' = [b \in Bars |-> physical[b] + Effect(M, b)]
        /\ edgeStock' = [b \in Bars |-> edgeStock[b] + Effect(M, b)]
        /\ edgeApplied' = edgeApplied \cup {IdOf(m) : m \in M}
    BY <2>1, <2>3, <2>4, AllAreNew
  <2>6. edgeQueue' \in Seq(Mutations) /\ Range(edgeQueue') = Range(edgeQueue) \cup M
    <3>1. edgeQueue \in Seq(Mutations)
      BY <1>0 DEF SimulationTypeOK
    <3> QED
      BY <2>1, <2>3, <3>1, ElementsOfBoth
  <2>7. /\ \A b : Effect(Waiting', b) = Effect(Waiting, b) + Effect(M, b) /\ Effect(M, b) \in Int
        /\ \A m \in Range(edgeQueue') : IdOf(m) \in edgeApplied' /\ (m.kind = "ORDER" => m.of \in orders')
        /\ \A m, k \in Range(edgeQueue') : IdOf(m) = IdOf(k) => m = k
        /\ CloudIsBehind'
        /\ \A id \in edgeApplied' : id \in cloudApplied' \/ \E m \in Range(edgeQueue') : IdOf(m) = id
    <3>1. \A m \in M : m.kind # "ORDER"
      BY <2>4
    <3> QED
      BY <1>2, <2>4, <2>5, <2>6, <3>1, EdgeTakes
  <2>8. ASSUME NEW i \in DOMAIN transfers
        PROVE  /\ transfers'[i] = [transfers[i] EXCEPT !.completed = @ \/ i \in due]
               /\ transfers'[i] \in TransferRow
               /\ transfers'[i].id = transfers[i].id /\ transfers'[i].quantity = transfers[i].quantity
               /\ transfers'[i].completed <=> transfers[i].completed \/ i \in due
    <3>1. transfers[i] \in TransferRow
      <4> HIDE DEF TransferRow
      <4> QED
        BY <1>3
    <3>2. transfers'[i] = [transfers[i] EXCEPT !.completed = @ \/ i \in due]
      BY <2>1
    <3> QED
      BY <3>1, <3>2, Zenon DEF TransferRow
  <2>9. /\ DOMAIN transfers' = DOMAIN transfers /\ transfers' \in Seq(TransferRow)
    <3>1. DOMAIN transfers' = DOMAIN transfers /\ transfers' = [i \in DOMAIN transfers |-> transfers'[i]]
      BY <2>1
    <3> HIDE DEF TransferRow
    <3>2. transfers' \in [1..Len(transfers) -> TransferRow]
      BY <1>3, <2>8, <3>1
    <3> QED
      BY <1>3, <3>1, <3>2
  <2>10. OnTheWay' = OnTheWay \ due
    BY <2>8, <2>9 DEF OnTheWay
  <2>11. \A i \in OnTheWay' : Quantities'[i] = Quantities[i] /\ i \in OnTheWay
    BY <1>3, <2>8, <2>9, <2>10 DEF Quantities
  <2>12. StockIsAccounted'
    <3>1. ASSUME NEW b \in Bars
          PROVE  /\ edgeStock'[b] = physical'[b] - Effect(Range(localQueue'), b)
                 /\ cloudStock'[b] = edgeStock'[b] - Effect(Waiting', b)
      <4>1. physical[b] \in Int /\ edgeStock[b] \in Int
        BY <1>0 DEF SimulationTypeOK
      <4>2. Effect(Range(localQueue), b) \in Int /\ Effect(Waiting, b) \in Int
        BY <1>0, QueueEffects
      <4>3. Effect(M, b) \in Int /\ Effect(Waiting', b) = Effect(Waiting, b) + Effect(M, b)
        BY <2>7
      <4>4. physical'[b] = physical[b] + Effect(M, b) /\ edgeStock'[b] = edgeStock[b] + Effect(M, b)
        BY <2>5
      <4>5. /\ edgeStock[b] = physical[b] - Effect(Range(localQueue), b)
            /\ cloudStock[b] = edgeStock[b] - Effect(Waiting, b)
        BY <1>0, StocksAreNamed
      <4>6. cloudStock'[b] = cloudStock[b] /\ localQueue' = localQueue
        BY <1>2
      <4> QED
        BY <4>1, <4>2, <4>3, <4>4, <4>5, <4>6
    <3> QED
      BY <3>1, StocksAreNamed
  <2>13. GoodsAreConserved'
    <3> DEFINE g == [b \in Bars |-> Effect(M, b)]
    <3>1. SumFunctionOnSet(physical', Bars)
            = SumFunctionOnSet(physical, Bars) + SumFunctionOnSet(Quantities, due)
      <4>1. \A b \in Bars : physical[b] \in Int /\ g[b] \in Int /\ physical'[b] = physical[b] + g[b]
        BY <1>0, <2>4, <2>5 DEF SimulationTypeOK
      <4>2. SumFunctionOnSet(g, Bars) = SumFunctionOnSet(Quantities, due)
        BY <2>4
      <4> HIDE DEF g
      <4>3. SumFunctionOnSet(physical', Bars) = SumFunctionOnSet(physical, Bars) + SumFunctionOnSet(g, Bars)
        BY <4>1, BarsAre, SumOfSums
      <4> QED
        BY <4>2, <4>3
    <3>2. /\ SumFunctionOnSet(Quantities, OnTheWay)
               = SumFunctionOnSet(Quantities, due) + SumFunctionOnSet(Quantities, OnTheWay')
          /\ SumFunctionOnSet(Quantities, due) \in Int
          /\ SumFunctionOnSet(Quantities, OnTheWay') \in Int
      <4> DEFINE rest == OnTheWay \ due
      <4>1. /\ IsFiniteSet(due) /\ IsFiniteSet(rest) /\ due \cap rest = {} /\ due \cup rest = OnTheWay
            /\ \A i \in due \cup rest : Quantities[i] \in Int
        BY <1>3, <1>4, FS_Subset
      <4>2. rest = OnTheWay'
        BY <2>10
      <4> HIDE DEF rest
      <4>3. SumFunctionOnSet(Quantities, due \cup rest)
              = SumFunctionOnSet(Quantities, due) + SumFunctionOnSet(Quantities, rest)
        BY <4>1, SumOfUnion
      <4>4. SumFunctionOnSet(Quantities, due) \in Int /\ SumFunctionOnSet(Quantities, rest) \in Int
        BY <4>1, SumLess
      <4> QED
        BY <4>1, <4>2, <4>3, <4>4
    <3>3. SumFunctionOnSet(Quantities', OnTheWay') = SumFunctionOnSet(Quantities, OnTheWay')
      <4> DEFINE rest == OnTheWay'
                 q == Quantities'
      <4>1. IsFiniteSet(rest)
        BY <1>3, <2>10, FS_Subset
      <4>2. \A i \in rest : q[i] = Quantities[i]
        BY <2>11
      <4> HIDE DEF rest, q
      <4>3. SumFunctionOnSet(q, rest) = SumFunctionOnSet(Quantities, rest)
        BY <4>1, <4>2, SameSum
      <4> QED
        BY <4>3 DEF rest, q
    <3>4. remaining \in Nat /\ orders' = orders /\ remaining' = remaining
      BY <1>0, <1>2 DEF SimulationTypeOK
    <3> QED
      BY <1>0, <1>1, <1>5, <3>1, <3>2, <3>3, <3>4, FiguresAreNamed, NextFiguresAreNamed
  <2>14. Queues'
    <3>1. ASSUME NEW i \in DOMAIN localQueue PROVE IdOf(localQueue[i]) \notin edgeApplied'
      <4>1. localQueue[i].kind # "TRANSFER" /\ IdOf(localQueue[i]) \notin edgeApplied
        BY <1>0 DEF Queues, LocalQueueIsSound
      <4>2. \A m \in M : IdOf(m) # IdOf(localQueue[i])
        BY <2>4, <4>1 DEF IdOf
      <4> QED
        BY <2>5, <4>1, <4>2
    <3>2. LocalQueueIsSound'
      BY <1>0, <1>2, <3>1 DEF Queues, LocalQueueIsSound
    <3>3. \A id \in edgeApplied' : id[1] <= sequence'
      <4>1. \A m \in M : IdOf(m)[1] = m.of /\ m.of <= sequence
        BY <2>4 DEF IdOf
      <4> QED
        BY <1>0, <1>2, <2>5, <4>1 DEF Queues, NumbersAreSpent
    <3>4. NumbersAreSpent'
      BY <1>0, <1>2, <2>8, <2>9, <3>3 DEF Queues, NumbersAreSpent
    <3>5. ASSUME NEW i \in OnTheWay' PROVE <<transfers'[i].id, "TRANSFER">> \notin edgeApplied'
      <4>1. i \in OnTheWay /\ i \notin due /\ i \in DOMAIN transfers /\ transfers'[i].id = transfers[i].id
        BY <1>3, <2>8, <2>10
      <4>2. <<transfers[i].id, "TRANSFER">> \notin edgeApplied
        BY <1>0, <4>1 DEF Queues, EdgeQueueIsSound
      <4>3. ASSUME NEW m \in M PROVE IdOf(m) # <<transfers[i].id, "TRANSFER">>
        <5>1. PICK j \in due : m = NewOf(j)
          BY DEF M
        <5>2. transfers[j].id # transfers[i].id
          BY <1>0, <1>3, <1>4, <4>1 DEF Queues, NumbersAreSpent
        <5>3. IdOf(m)[1] = transfers[j].id
          BY <5>1 DEF NewOf, Mutation, IdOf
        <5> QED
          BY <5>2, <5>3
      <4> QED
        BY <2>5, <4>1, <4>2, <4>3
    <3>6. EdgeQueueIsSound'
      BY <2>7, <3>5 DEF EdgeQueueIsSound
    <3>7. Len(transfers') = Len(transfers)
      <4> HIDE DEF TransferRow
      <4> QED
        BY <1>3, <2>9
    <3>8. NothingIsLost'
      BY <1>0, <1>2, <2>5, <2>7, <3>7 DEF Queues, NothingIsLost
    <3> QED
      BY <2>7, <3>2, <3>4, <3>6, <3>8 DEF Queues
  <2>15. SimulationTypeOK'
    <3>1. physical' \in [Bars -> Nat] /\ edgeStock' \in [Bars -> Nat]
      BY <1>0, <2>4, <2>5 DEF SimulationTypeOK
    <3>2. edgeApplied' \cup cloudApplied' \subseteq Nat \X {"ORDER", "INVENTORY", "TRANSFER"}
      <4>1. \A m \in M : IdOf(m) \in Nat \X {"ORDER", "INVENTORY", "TRANSFER"}
        BY <2>4 DEF IdOf
      <4> QED
        BY <1>0, <1>2, <2>5, <4>1 DEF SimulationTypeOK
    <3> QED
      BY <1>0, <1>1, <1>2, <2>6, <2>9, <3>1, <3>2 DEF SimulationTypeOK, TransferRow
  <2> QED
    BY <1>6, <2>12, <2>13, <2>14, <2>15 DEF SimulationInv
<1>8. CASE ~edgeAvailable
  <2>1. /\ transfers' = [i \in DOMAIN transfers |->
                           [transfers[i] EXCEPT !.due = IF i \in due THEN second + 1 ELSE @]]
        /\ UNCHANGED <<physical, edgeStock, edgeApplied, edgeQueue>>
    BY <1>8 DEF CompleteTransfers, due
  <2>2. ASSUME NEW i \in DOMAIN transfers
        PROVE  /\ transfers'[i] \in TransferRow
               /\ transfers'[i].id = transfers[i].id /\ transfers'[i].quantity = transfers[i].quantity
               /\ transfers'[i].completed <=> transfers[i].completed
    <3>1. transfers[i] \in TransferRow
      <4> HIDE DEF TransferRow
      <4> QED
        BY <1>3
    <3>2. transfers'[i] = [transfers[i] EXCEPT !.due = IF i \in due THEN second + 1 ELSE @]
      BY <2>1
    <3> QED
      BY <1>1, <3>1, <3>2 DEF TransferRow
  <2>3. DOMAIN transfers' = DOMAIN transfers /\ transfers' \in Seq(TransferRow)
    <3>1. DOMAIN transfers' = DOMAIN transfers /\ transfers' = [i \in DOMAIN transfers |-> transfers'[i]]
      BY <2>1
    <3> HIDE DEF TransferRow
    <3>2. transfers' \in [1..Len(transfers) -> TransferRow]
      BY <1>3, <2>2, <3>1
    <3> QED
      BY <1>3, <3>1, <3>2
  <2>4. OnTheWay' = OnTheWay
    BY <2>2, <2>3 DEF OnTheWay
  <2>5. Quantities' = Quantities
    BY <2>2, <2>3 DEF Quantities
  <2>6. GoodsAreConserved'
    BY <1>0, <1>1, <1>2, <2>1, <2>4, <2>5, FiguresAreNamed, NextFiguresAreNamed
  <2>7. StockIsAccounted'
    BY <1>0, <1>2, <2>1, StocksStay DEF stocks
  <2>8. Queues'
    <3>1. NumbersAreSpent'
      BY <1>0, <1>2, <2>1, <2>2, <2>3 DEF Queues, NumbersAreSpent
    <3>2. EdgeQueueIsSound'
      BY <1>0, <1>2, <1>3, <2>1, <2>2, <2>4 DEF Queues, EdgeQueueIsSound
    <3>3. LocalQueueIsSound' /\ CloudIsBehind'
      BY <1>0, <1>2, <2>1 DEF Queues, LocalQueueIsSound, CloudIsBehind
    <3>4. Len(transfers') = Len(transfers)
      <4> HIDE DEF TransferRow
      <4> QED
        BY <1>3, <2>3
    <3>5. NothingIsLost'
      BY <1>0, <1>2, <2>1, <3>4 DEF Queues, NothingIsLost
    <3> QED
      BY <3>1, <3>2, <3>3, <3>5 DEF Queues
  <2>9. SimulationTypeOK'
    BY <1>0, <1>1, <1>2, <2>1, <2>3 DEF SimulationTypeOK, TransferRow
  <2> QED
    BY <1>6, <2>6, <2>7, <2>8, <2>9 DEF SimulationInv
<1> QED
  BY <1>7, <1>8

\* What Edge takes from the registers it gives to the Cloud; what it does not
\* take stays in its place.
LEMMA LocalDrainIsSound == ASSUME SimulationInv, DrainLocalQueue PROVE SimulationInv'
<1>0. /\ SimulationTypeOK /\ Queues /\ CashIsPaid /\ IsFiniteSet(orders)
      /\ StockIsAccounted /\ GoodsAreConserved /\ EffectsHappenOnce
  BY DEF SimulationInv
<1>1. config' = config /\ Final' = Final
  BY DEF DrainLocalQueue, config, Final
<1>2. /\ UNCHANGED <<scenario, second, selling, accumulator, sequence, physical, cloudStock,
                     cloudApplied, cloudOrders, twice, orders, payments, answered, transfers,
                     replenished, remaining>>
      /\ phase' = "edge"
  BY DEF DrainLocalQueue, sales, cloud, money, supply
<1>3. PICK moved \in SUBSET (DOMAIN localQueue) :
        /\ localQueue' = Elements(localQueue, DOMAIN localQueue \ moved)
        /\ edgeStock' = StockAfter(edgeStock, Range(Elements(localQueue, moved)), edgeApplied)
        /\ edgeApplied' = edgeApplied \cup {IdOf(m) : m \in Range(Elements(localQueue, moved))}
        /\ \E again : edgeQueue' = edgeQueue \o Doubled(Elements(localQueue, moved), again)
  <2> DEFINE reachable == {i \in DOMAIN localQueue : posToEdgeAvailable(localQueue[i].bar)}
             MovedOf(lost) == {i \in reachable \ lost :
                       Cardinality({j \in reachable \ lost : j < i}) < LocalCapacity}
             Drained(moved) ==
               /\ localQueue' = Elements(localQueue, DOMAIN localQueue \ moved)
               /\ edgeStock' = StockAfter(edgeStock, Range(Elements(localQueue, moved)), edgeApplied)
               /\ edgeApplied' = edgeApplied \cup {IdOf(m) : m \in Range(Elements(localQueue, moved))}
               /\ \E again : edgeQueue' = edgeQueue \o Doubled(Elements(localQueue, moved), again)
  <2>1. PICK lost : Drained(MovedOf(lost))
    BY DEF DrainLocalQueue
  <2>2. MovedOf(lost) \in SUBSET (DOMAIN localQueue)
    OBVIOUS
  <2> HIDE DEF MovedOf
  <2> QED
    BY <2>1, <2>2
<1> DEFINE sent == Elements(localQueue, moved)
           rest == DOMAIN localQueue \ moved
           M == {localQueue[i] : i \in moved}
           R == {localQueue[i] : i \in rest}
<1>4. /\ localQueue \in Seq(Mutations) /\ edgeQueue \in Seq(Mutations)
      /\ DOMAIN localQueue = 1..Len(localQueue) /\ Len(localQueue) \in Nat
      /\ moved \in SUBSET (1..Len(localQueue)) /\ rest \in SUBSET (1..Len(localQueue))
  <2>1. localQueue \in Seq(Mutations) /\ edgeQueue \in Seq(Mutations)
    BY <1>0 DEF SimulationTypeOK
  <2>2. DOMAIN localQueue = 1..Len(localQueue) /\ Len(localQueue) \in Nat
    BY <2>1
  <2> QED
    BY <2>1, <2>2
<1>5. /\ sent \in Seq(Mutations) /\ Range(sent) = M
      /\ localQueue' \in Seq(Mutations) /\ Range(localQueue') = R
      /\ AreTaken(localQueue', localQueue, rest)
  <2> HIDE DEF Mutations
  <2>1. sent \in Seq(Mutations) /\ Range(sent) = M
    BY <1>4, ElementsAre, RangeOfElements
  <2>2. Elements(localQueue, rest) \in Seq(Mutations) /\ Range(Elements(localQueue, rest)) = R
        /\ AreTaken(Elements(localQueue, rest), localQueue, rest)
    BY <1>4, ElementsAre, RangeOfElements
  <2>3. localQueue' = Elements(localQueue, rest)
    BY <1>3
  <2> QED
    BY <2>1, <2>2, <2>3
<1>6. PICK again : edgeQueue' = edgeQueue \o Doubled(sent, again)
  BY <1>3
<1> HIDE DEF sent
<1>7. edgeQueue' \in Seq(Mutations) /\ Range(edgeQueue') = Range(edgeQueue) \cup M
  <2> DEFINE d == Doubled(sent, again)
  <2> HIDE DEF Mutations
  <2>1. d \in Seq(Mutations) /\ Range(d) = M
    BY <1>5, RangeOfDoubled
  <2> HIDE DEF d
  <2>2. edgeQueue \o d \in Seq(Mutations) /\ Range(edgeQueue \o d) = Range(edgeQueue) \cup Range(d)
    BY <1>4, <2>1, ElementsOfBoth
  <2> QED
    BY <1>6, <2>1, <2>2 DEF d
<1>8. ASSUME NEW i \in DOMAIN localQueue
      PROVE  /\ localQueue[i].kind # "TRANSFER" /\ localQueue[i].of \in orders
             /\ localQueue[i].delta <= 0 /\ IdOf(localQueue[i]) \notin edgeApplied
             /\ localQueue[i] \in Mutations
             /\ \A j \in DOMAIN localQueue : IdOf(localQueue[i]) = IdOf(localQueue[j]) => i = j
  <2>1. localQueue[i] \in Mutations
    <3> HIDE DEF Mutations
    <3> QED
      BY <1>4
  <2> QED
    BY <1>0, <2>1 DEF Queues, LocalQueueIsSound
<1>9. Range(localQueue) = R \cup M /\ R \cap M = {}
  <2>1. Range(localQueue) = {localQueue[i] : i \in DOMAIN localQueue}
    BY DEF Range
  <2> QED
    BY <1>8, <2>1
<1>10. AreMutations(M) /\ AreMutations(R)
  <2>1. AreMutations(Range(localQueue))
    BY <1>0, QueueEffects
  <2> HIDE DEF M, R
  <2>2. M \in SUBSET Range(localQueue) /\ R \in SUBSET Range(localQueue)
    BY <1>9
  <2> QED
    BY <2>1, <2>2, FewerMutations
<1>11. /\ \A m \in M : IdOf(m) \notin edgeApplied /\ (m.kind = "ORDER" => m.of \in orders)
                       /\ m.kind # "TRANSFER" /\ m.of \in orders /\ m \in Mutations
       /\ \A m, k \in M : IdOf(m) = IdOf(k) => m = k
  BY <1>8
<1> HIDE DEF M, R
<1>12. /\ edgeStock' = [b \in Bars |-> edgeStock[b] + Effect(M, b)]
       /\ edgeApplied' = edgeApplied \cup {IdOf(m) : m \in M}
  BY <1>3, <1>5, <1>11, AllAreNew DEF sent
<1>13. /\ \A b : Effect(Waiting', b) = Effect(Waiting, b) + Effect(M, b) /\ Effect(M, b) \in Int
       /\ \A m \in Range(edgeQueue') : IdOf(m) \in edgeApplied' /\ (m.kind = "ORDER" => m.of \in orders')
       /\ \A m, k \in Range(edgeQueue') : IdOf(m) = IdOf(k) => m = k
       /\ CloudIsBehind'
       /\ \A id \in edgeApplied' : id \in cloudApplied' \/ \E m \in Range(edgeQueue') : IdOf(m) = id
  BY <1>2, <1>7, <1>10, <1>11, <1>12, EdgeTakes
<1>14. ASSUME NEW b \in Bars
       PROVE  /\ edgeStock'[b] = physical'[b] - Effect(Range(localQueue'), b)
              /\ cloudStock'[b] = edgeStock'[b] - Effect(Waiting', b)
              /\ edgeStock'[b] \in Nat
  <2>1. physical[b] \in Nat /\ edgeStock[b] \in Int /\ cloudStock[b] \in Int
    BY <1>0 DEF SimulationTypeOK
  <2>2. Effect(R \cup M, b) = Effect(R, b) + Effect(M, b) /\ Effect(R, b) \in Int /\ Effect(M, b) \in Int
    BY <1>9, <1>10, EffectOfUnion
  <2>3. Effect(Waiting, b) \in Int /\ Effect(Waiting', b) = Effect(Waiting, b) + Effect(M, b)
    BY <1>0, <1>13, QueueEffects
  <2>4. /\ edgeStock[b] = physical[b] - Effect(R \cup M, b)
        /\ cloudStock[b] = edgeStock[b] - Effect(Waiting, b)
    BY <1>0, <1>9, StocksAreNamed
  <2>5. edgeStock'[b] = edgeStock[b] + Effect(M, b)
    BY <1>12
  <2>6. Effect(R, b) <= 0
    <3>1. \A m \in R : m.delta <= 0
      BY <1>8 DEF R
    <3> QED
      BY <1>10, <3>1, EffectOfSign
  <2>7. physical'[b] = physical[b] /\ cloudStock'[b] = cloudStock[b] /\ Range(localQueue') = R
    BY <1>2, <1>5
  <2> QED
    BY <2>1, <2>2, <2>3, <2>4, <2>5, <2>6, <2>7
<1>15. StockIsAccounted'
  BY <1>14, StocksAreNamed
<1>16. GoodsAreConserved' /\ EffectsHappenOnce' /\ CashIsPaid' /\ IsFiniteSet(orders')
  BY <1>0, <1>2, GoodsStay, EffectsStay DEF CashIsPaid
<1>17. Queues'
  <2>1. PICK p \in [1..Len(localQueue') -> rest] :
          /\ \A n \in 1..Len(localQueue') : localQueue'[n] = localQueue[p[n]]
          /\ \A m, n \in 1..Len(localQueue') : p[m] = p[n] => m = n
    BY <1>5 DEF AreTaken
  <2>2. DOMAIN localQueue' = 1..Len(localQueue')
    <3> HIDE DEF Mutations
    <3> QED
      BY <1>5
  <2>3. \A n \in DOMAIN localQueue' :
          p[n] \in DOMAIN localQueue /\ p[n] \notin moved /\ localQueue'[n] = localQueue[p[n]]
    BY <2>1, <2>2
  <2>4. ASSUME NEW n \in DOMAIN localQueue'
        PROVE  /\ localQueue'[n].kind # "TRANSFER" /\ localQueue'[n].of \in orders
               /\ localQueue'[n].delta <= 0 /\ IdOf(localQueue'[n]) \notin edgeApplied'
    <3>1. ASSUME NEW m \in M PROVE IdOf(m) # IdOf(localQueue[p[n]])
      <4>1. PICK i \in moved : m = localQueue[i]
        BY DEF M
      <4> QED
        BY <1>8, <2>3, <4>1
    <3> QED
      BY <1>8, <1>12, <2>3, <3>1
  <2>5. ASSUME NEW n \in DOMAIN localQueue', NEW m \in DOMAIN localQueue',
               IdOf(localQueue'[n]) = IdOf(localQueue'[m])
        PROVE  n = m
    <3>1. p[n] = p[m]
      BY <1>8, <2>3, <2>5
    <3> QED
      BY <2>1, <2>2, <3>1
  <2>6. LocalQueueIsSound'
    BY <1>2, <2>4, <2>5 DEF LocalQueueIsSound
  <2>7. NumbersAreSpent'
    <3>1. \A m \in M : IdOf(m)[1] = m.of /\ m.of <= sequence
      BY <1>0, <1>11 DEF IdOf, Queues, NumbersAreSpent
    <3> QED
      BY <1>0, <1>2, <1>12, <3>1 DEF Queues, NumbersAreSpent
  <2>8. EdgeQueueIsSound'
    <3>1. OnTheWay' = OnTheWay
      BY <1>2 DEF OnTheWay
    <3>2. \A m \in M : IdOf(m)[2] # "TRANSFER"
      BY <1>11 DEF IdOf
    <3>3. ASSUME NEW i \in OnTheWay PROVE <<transfers[i].id, "TRANSFER">> \notin edgeApplied'
      <4>1. <<transfers[i].id, "TRANSFER">> \notin edgeApplied
        BY <1>0 DEF Queues, EdgeQueueIsSound
      <4>2. <<transfers[i].id, "TRANSFER">>[2] = "TRANSFER"
        OBVIOUS
      <4> QED
        BY <1>12, <3>2, <4>1, <4>2
    <3> QED
      BY <1>2, <1>13, <3>1, <3>3 DEF EdgeQueueIsSound
  <2>9. NothingIsLost'
    <3>1. ASSUME NEW o \in orders
          PROVE  \/ <<o, "ORDER">> \in edgeApplied'
                 \/ \E m \in Range(localQueue') : IdOf(m) = <<o, "ORDER">>
      <4>1. CASE <<o, "ORDER">> \in edgeApplied
        BY <1>12, <4>1
      <4>2. CASE \E m \in Range(localQueue) : IdOf(m) = <<o, "ORDER">>
        <5>1. PICK m \in R \cup M : IdOf(m) = <<o, "ORDER">>
          BY <1>9, <4>2
        <5> QED
          BY <1>5, <1>12, <5>1
      <4> QED
        BY <1>0, <4>1, <4>2 DEF Queues, NothingIsLost
    <3> QED
      BY <1>0, <1>2, <1>13, <3>1 DEF Queues, NothingIsLost
  <2> QED
    BY <1>13, <2>6, <2>7, <2>8, <2>9 DEF Queues
<1>18. SimulationTypeOK'
  <2>1. edgeStock' \in [Bars -> Nat]
    BY <1>12, <1>14
  <2>2. edgeApplied' \cup cloudApplied' \subseteq Nat \X {"ORDER", "INVENTORY", "TRANSFER"}
    <3>1. \A m \in M : IdOf(m) \in Nat \X {"ORDER", "INVENTORY", "TRANSFER"}
      BY <1>11 DEF Mutations, IdOf
    <3> QED
      BY <1>0, <1>2, <1>12, <3>1 DEF SimulationTypeOK
  <2> QED
    BY <1>0, <1>1, <1>2, <1>5, <1>7, <2>1, <2>2 DEF SimulationTypeOK
<1> QED
  BY <1>15, <1>16, <1>17, <1>18 DEF SimulationInv

\* The elements of the two parts of a queue are its elements.
LEMMA PartsOfAQueue ==
  ASSUME NEW S, NEW seq \in Seq(S), NEW n \in 0..Len(seq)
  PROVE  /\ SubSeq(seq, 1, n) \in Seq(S) /\ SubSeq(seq, n + 1, Len(seq)) \in Seq(S)
         /\ Range(SubSeq(seq, 1, n)) \cup Range(SubSeq(seq, n + 1, Len(seq))) = Range(seq)
<1> DEFINE L == Len(seq)
           front == SubSeq(seq, 1, n)
           back == SubSeq(seq, n + 1, Len(seq))
<1>1. L \in Nat /\ n \in Nat /\ n <= L /\ DOMAIN seq = 1..L
  OBVIOUS
<1>2. /\ front \in Seq(S) /\ DOMAIN front = 1..n
      /\ \A i \in 1..n : front[i] = seq[i]
  OBVIOUS
<1>3. /\ back \in Seq(S) /\ DOMAIN back = 1..(L - n)
      /\ \A i \in 1..(L - n) : back[i] = seq[n + i]
  <2>1. back \in Seq(S) /\ Len(back) = L - n
    OBVIOUS
  <2>2. \A i \in 1..(L - n) : back[i] = seq[n + i]
    OBVIOUS
  <2> HIDE DEF back
  <2>3. DOMAIN back = 1..(L - n)
    BY <2>1
  <2> QED
    BY <2>1, <2>2, <2>3
<1> HIDE DEF L, front, back
<1>4. ASSUME NEW m \in Range(front) \cup Range(back) PROVE m \in Range(seq)
  <2>1. CASE m \in Range(front)
    <3>1. PICK i \in 1..n : m = front[i]
      BY <1>2, <2>1 DEF Range
    <3>2. i \in DOMAIN seq /\ m = seq[i]
      BY <1>1, <1>2, <3>1
    <3> QED
      BY <3>2 DEF Range
  <2>2. CASE m \in Range(back)
    <3>1. PICK i \in 1..(L - n) : m = back[i]
      BY <1>3, <2>2 DEF Range
    <3>2. n + i \in DOMAIN seq /\ m = seq[n + i]
      BY <1>1, <1>3, <3>1
    <3> QED
      BY <3>2 DEF Range
  <2> QED
    BY <1>4, <2>1, <2>2
<1>5. ASSUME NEW m \in Range(seq) PROVE m \in Range(front) \cup Range(back)
  <2>1. PICK i \in 1..L : m = seq[i]
    BY <1>1 DEF Range
  <2>2. CASE i <= n
    <3>1. i \in DOMAIN front /\ m = front[i]
      BY <1>1, <1>2, <2>1, <2>2
    <3> QED
      BY <3>1 DEF Range
  <2>3. CASE ~(i <= n)
    <3>1. i - n \in 1..(L - n) /\ n + (i - n) = i
      BY <1>1, <2>3
    <3>2. i - n \in DOMAIN back /\ m = back[i - n]
      BY <1>3, <2>1, <3>1
    <3> QED
      BY <3>2 DEF Range
  <2> QED
    BY <2>2, <2>3
<1> QED
  BY <1>2, <1>3, <1>4, <1>5 DEF front, back

\* Put out of order, a queue has the same elements.
LEMMA ReorderedIs ==
  ASSUME NEW S, NEW seq \in Seq(S), Len(seq) > 1
  PROVE  Reordered(seq) \in Seq(S) /\ Range(Reordered(seq)) = Range(seq)
<1> DEFINE tail == Tail(seq)
           last == <<Head(seq)>>
           L == Len(seq)
<1>1. L \in Nat /\ DOMAIN seq = 1..L /\ L > 1 /\ Head(seq) = seq[1] /\ seq[1] \in S
  OBVIOUS
<1>2. tail \in Seq(S) /\ Len(tail) = L - 1 /\ \A i \in 1..(L - 1) : tail[i] = seq[i + 1]
  OBVIOUS
<1>3. last \in Seq(S) /\ DOMAIN last = {1} /\ last[1] = seq[1]
  BY <1>1
<1>4. Range(last) = {seq[1]}
  BY <1>3 DEF Range
<1> HIDE DEF tail, last, L
<1>5. Range(tail) = {seq[i + 1] : i \in 1..(L - 1)}
  <2>1. DOMAIN tail = 1..(L - 1)
    BY <1>2
  <2> QED
    BY <1>2, <2>1 DEF Range
<1>6. tail \o last \in Seq(S) /\ Range(tail \o last) = Range(tail) \cup Range(last)
  BY <1>2, <1>3, ElementsOfBoth
<1>7. Range(seq) = {seq[i] : i \in 1..L}
  BY <1>1 DEF Range
<1>8. ASSUME NEW m \in Range(seq) PROVE m \in Range(tail) \cup Range(last)
  <2>1. PICK i \in 1..L : m = seq[i]
    BY <1>7
  <2>2. CASE i = 1
    BY <1>4, <2>1, <2>2
  <2>3. CASE i # 1
    <3>1. i - 1 \in 1..(L - 1) /\ (i - 1) + 1 = i
      BY <1>1, <2>3
    <3> QED
      BY <1>5, <2>1, <3>1
  <2> QED
    BY <2>2, <2>3
<1>9. ASSUME NEW m \in Range(tail) \cup Range(last) PROVE m \in Range(seq)
  <2>1. CASE m \in Range(last)
    BY <1>1, <1>4, <1>7, <2>1
  <2>2. CASE m \in Range(tail)
    <3>1. PICK i \in 1..(L - 1) : m = seq[i + 1]
      BY <1>5, <2>2
    <3>2. i + 1 \in 1..L
      BY <1>1
    <3> QED
      BY <1>7, <3>1, <3>2
  <2> QED
    BY <1>9, <2>1, <2>2
<1> QED
  BY <1>6, <1>8, <1>9 DEF Reordered, tail, last

\* The Cloud takes what it has not seen; what was repeated or put out of order
\* is counted once.
LEMMA EdgeDrainIsSound == ASSUME SimulationInv, DrainEdgeQueue PROVE SimulationInv'
<1>0. /\ SimulationTypeOK /\ Queues /\ CashIsPaid /\ IsFiniteSet(orders)
      /\ StockIsAccounted /\ GoodsAreConserved /\ EffectsHappenOnce
  BY DEF SimulationInv
<1>1. config' = config /\ Final' = Final
  BY DEF DrainEdgeQueue, config, Final
<1>2. /\ UNCHANGED <<scenario, second, selling, accumulator, sequence, physical, edgeStock,
                     localQueue, edgeApplied, orders, payments, answered, transfers, replenished,
                     remaining>>
      /\ phase' = "payments"
  BY DEF DrainEdgeQueue, sales, money, supply
<1>3. CashIsPaid' /\ IsFiniteSet(orders') /\ OnTheWay' = OnTheWay
  BY <1>0, <1>2 DEF CashIsPaid, OnTheWay
<1>4. GoodsAreConserved'
  BY <1>0, <1>2, GoodsStay
<1>5. CASE ~edgeToCloudAvailable
  <2>1. UNCHANGED <<edgeQueue, cloudStock, cloudApplied, cloudOrders, twice>>
    BY <1>5 DEF DrainEdgeQueue, cloud
  <2>2. Queues' /\ StockIsAccounted' /\ EffectsHappenOnce'
    BY <1>0, <1>2, <2>1, QueuesStay, StocksStay, EffectsStay DEF stocks
  <2>3. SimulationTypeOK'
    BY <1>0, <1>1, <1>2, <2>1 DEF SimulationTypeOK
  <2> QED
    BY <1>3, <1>4, <2>2, <2>3 DEF SimulationInv
<1>6. CASE edgeToCloudAvailable
  <2> DEFINE sold(new) == {m.of : m \in {m \in new : m.kind = "ORDER"}}
  <2>1. PICK queue, n :
          /\ queue = edgeQueue \/ (queue = Reordered(edgeQueue) /\ Len(edgeQueue) > 1)
          /\ n \in 0..Len(queue)
          /\ edgeQueue' = SubSeq(queue, n + 1, Len(queue))
          /\ cloudApplied' = cloudApplied \cup
               {IdOf(m) : m \in NewAtCloud(Range(SubSeq(queue, 1, n)))}
          /\ cloudOrders' = cloudOrders \cup sold(NewAtCloud(Range(SubSeq(queue, 1, n))))
          /\ twice' = twice +
               Cardinality(sold(NewAtCloud(Range(SubSeq(queue, 1, n)))) \cap cloudOrders)
          /\ cloudStock' = StockAfter(cloudStock, NewAtCloud(Range(SubSeq(queue, 1, n))), {})
    <3>1. PICK reorder \in Chance(config.reorders /\ Len(edgeQueue) > 1) :
            LET queue == IF reorder THEN Reordered(edgeQueue) ELSE edgeQueue
                most == Min({Len(queue), IF second \in config.slow THEN SlowCapacity
                                         ELSE EdgeCapacity}) IN
            \E n \in IF config.loss THEN 0..most ELSE {most} :
              LET new == NewAtCloud(Range(SubSeq(queue, 1, n))) IN
              /\ edgeQueue' = SubSeq(queue, n + 1, Len(queue))
              /\ cloudApplied' = cloudApplied \cup {IdOf(m) : m \in new}
              /\ cloudOrders' = cloudOrders \cup sold(new)
              /\ twice' = twice + Cardinality(sold(new) \cap cloudOrders)
              /\ cloudStock' = StockAfter(cloudStock, new, {})
      BY <1>6 DEF DrainEdgeQueue
    <3> DEFINE q == IF reorder THEN Reordered(edgeQueue) ELSE edgeQueue
               X == IF second \in config.slow THEN SlowCapacity ELSE EdgeCapacity
               most == Min({Len(q), X})
    <3>2. q = edgeQueue \/ (q = Reordered(edgeQueue) /\ Len(edgeQueue) > 1)
      BY DEF Chance
    <3>3. Len(q) \in Nat
      <4>1. edgeQueue \in Seq(Mutations)
        BY <1>0 DEF SimulationTypeOK
      <4> HIDE DEF q, Mutations
      <4>2. q \in Seq(Mutations)
        BY <3>2, <4>1, ReorderedIs
      <4> QED
        BY <4>2
    <3>4. most \in 0..Len(q)
      <4>1. X \in Nat
        BY EventSimulationAssumption
      <4> DEFINE pair == {Len(q), X}
      <4> HIDE DEF q, X
      <4>2. pair \in SUBSET Nat /\ pair # {} /\ Len(q) \in pair
        BY <3>3, <4>1
      <4>3. Min(pair) \in Nat /\ Min(pair) <= Len(q)
        <5> HIDE DEF pair
        <5> QED
          BY <4>2, MinIs
      <4> QED
        BY <3>3, <4>3
    <3>5. PICK n \in IF config.loss THEN 0..most ELSE {most} :
            /\ edgeQueue' = SubSeq(q, n + 1, Len(q))
            /\ cloudApplied' = cloudApplied \cup {IdOf(m) : m \in NewAtCloud(Range(SubSeq(q, 1, n)))}
            /\ cloudOrders' = cloudOrders \cup sold(NewAtCloud(Range(SubSeq(q, 1, n))))
            /\ twice' = twice + Cardinality(sold(NewAtCloud(Range(SubSeq(q, 1, n)))) \cap cloudOrders)
            /\ cloudStock' = StockAfter(cloudStock, NewAtCloud(Range(SubSeq(q, 1, n))), {})
      BY <3>1
    <3>6. n \in 0..Len(q)
      <4> HIDE DEF q, most
      <4> QED
        BY <3>3, <3>4
    <3> HIDE DEF q, sold
    <3> QED
      BY <3>2, <3>5, <3>6
  <2> DEFINE taken == Range(SubSeq(queue, 1, n))
             new == NewAtCloud(taken)
  <2>2. /\ edgeQueue \in Seq(Mutations) /\ queue \in Seq(Mutations)
        /\ Range(queue) = Range(edgeQueue)
    <3>1. edgeQueue \in Seq(Mutations)
      BY <1>0 DEF SimulationTypeOK
    <3> HIDE DEF Mutations
    <3> QED
      BY <2>1, <3>1, ReorderedIs
  <2>3. edgeQueue' \in Seq(Mutations) /\ taken \cup Range(edgeQueue') = Range(edgeQueue)
    <3> HIDE DEF Mutations
    <3> QED
      BY <2>1, <2>2, PartsOfAQueue
  <2>4. /\ cloudApplied' = cloudApplied \cup {IdOf(m) : m \in new}
        /\ cloudOrders' = cloudOrders \cup sold(new)
        /\ twice' = twice + Cardinality(sold(new) \cap cloudOrders)
        /\ cloudStock' = StockAfter(cloudStock, new, {})
    BY <2>1
  <2> HIDE DEF taken
  <2>5. new = {m \in taken : IdOf(m) \notin cloudApplied}
    BY DEF NewAtCloud
  <2> HIDE DEF new
  <2>6. ASSUME NEW m \in Range(edgeQueue)
        PROVE  /\ IdOf(m) \in edgeApplied /\ (m.kind = "ORDER" => m.of \in orders)
               /\ m \in Mutations
               /\ \A k \in Range(edgeQueue) : IdOf(m) = IdOf(k) => m = k
    <3>1. m \in Mutations
      <4> HIDE DEF Mutations
      <4> QED
        BY <2>2, QueueIsFinite
    <3> QED
      BY <1>0, <3>1 DEF Queues, EdgeQueueIsSound
  <2>7. Waiting = new \cup Waiting' /\ new \cap Waiting' = {}
    <3>1. Waiting' = {m \in Range(edgeQueue') : IdOf(m) \notin cloudApplied'}
      BY DEF Waiting
    <3>2. ASSUME NEW m \in Waiting PROVE m \in new \cup Waiting'
      <4>1. m \in Range(edgeQueue) /\ IdOf(m) \notin cloudApplied
        BY DEF Waiting
      <4>2. CASE m \in taken
        BY <2>5, <4>1, <4>2
      <4>3. CASE m \notin taken
        <5>1. m \in Range(edgeQueue')
          BY <2>3, <4>1, <4>3
        <5>2. ASSUME NEW k \in new, IdOf(k) = IdOf(m) PROVE FALSE
          <6>1. k \in taken /\ k \in Range(edgeQueue)
            BY <2>3, <2>5
          <6> QED
            BY <2>6, <4>1, <4>3, <5>2, <6>1
        <5>3. IdOf(m) \notin cloudApplied'
          BY <2>4, <4>1, <5>2
        <5> QED
          BY <3>1, <5>1, <5>3
      <4> QED
        BY <4>2, <4>3
    <3>3. ASSUME NEW m \in Waiting' PROVE m \in Waiting /\ m \notin new
      BY <2>3, <2>4, <3>1 DEF Waiting
    <3>4. new \subseteq Waiting
      BY <2>3, <2>5 DEF Waiting
    <3> QED
      BY <3>2, <3>3, <3>4
  <2>8. ASSUME NEW b
        PROVE  /\ Effect(Waiting, b) = Effect(new, b) + Effect(Waiting', b)
               /\ Effect(new, b) \in Int /\ Effect(Waiting', b) \in Int
    <3> DEFINE left == Waiting'
    <3>1. AreMutations(Waiting)
      BY <1>0, QueueEffects
    <3>2. new \in SUBSET Waiting /\ left \in SUBSET Waiting /\ Waiting = new \cup left /\ new \cap left = {}
      BY <2>7
    <3> HIDE DEF left
    <3>3. AreMutations(new) /\ AreMutations(left)
      BY <3>1, <3>2, FewerMutations
    <3>4. Effect(new \cup left, b) = Effect(new, b) + Effect(left, b)
          /\ Effect(new, b) \in Int /\ Effect(left, b) \in Int
      BY ONLY <3>2, <3>3, EffectOfUnion
    <3> QED
      BY <3>2, <3>4 DEF left
  <2>9. cloudStock' = [b \in Bars |-> cloudStock[b] + Effect(new, b)]
    BY <2>4, AllAreNew
  <2>10. ASSUME NEW b \in Bars
         PROVE  /\ cloudStock'[b] = edgeStock'[b] - Effect(Waiting', b)
                /\ cloudStock'[b] \in Int
    <3>1. cloudStock[b] \in Int /\ edgeStock[b] \in Int
      BY <1>0 DEF SimulationTypeOK
    <3>2. cloudStock[b] = edgeStock[b] - Effect(Waiting, b)
      BY <1>0, StocksAreNamed
    <3>3. cloudStock'[b] = cloudStock[b] + Effect(new, b) /\ edgeStock'[b] = edgeStock[b]
      BY <1>2, <2>9
    <3> QED
      BY <2>8, <3>1, <3>2, <3>3
  <2>11. StockIsAccounted'
    <3>1. \A b \in Bars : edgeStock'[b] = physical'[b] - Effect(Range(localQueue'), b)
      BY <1>0, <1>2, StocksAreNamed
    <3> QED
      BY <2>10, <3>1, StocksAreNamed
  <2>12. \A o \in sold(new) : o \in orders /\ o \notin cloudOrders /\ <<o, "ORDER">> \in cloudApplied'
    <3>1. ASSUME NEW m \in new, m.kind = "ORDER"
          PROVE  m.of \in orders /\ m.of \notin cloudOrders /\ <<m.of, "ORDER">> \in cloudApplied'
      <4>1. m \in Range(edgeQueue) /\ IdOf(m) \notin cloudApplied
        BY <2>3, <2>5
      <4>2. IdOf(m) = <<m.of, "ORDER">>
        BY <3>1 DEF IdOf
      <4>3. IdOf(m) \in cloudApplied'
        BY <2>4
      <4> QED
        BY <1>0, <2>6, <3>1, <4>1, <4>2, <4>3 DEF Queues, CloudIsBehind
    <3> QED
      BY <3>1
  <2>13. EffectsHappenOnce'
    <3>1. sold(new) \cap cloudOrders = {}
      BY <2>12
    <3>2. twice = 0 /\ answered = Cardinality(Completed)
      BY <1>0, FiguresAreNamed
    <3>3. twice' = 0
      <4>1. twice' = twice + Cardinality(sold(new) \cap cloudOrders)
        BY <2>4
      <4>2. twice' = 0 + Cardinality({})
        BY <3>1, <3>2, <4>1
      <4> QED
        BY ONLY <4>2, FS_EmptySet
    <3>4. Completed' = Completed /\ answered' = answered
      BY <1>2 DEF Completed
    <3> QED
      BY <3>2, <3>3, <3>4, NextFiguresAreNamed
  <2>14. Queues'
    <3>1. Range(edgeQueue') \subseteq Range(edgeQueue)
      BY <2>3
    <3>2. CloudIsBehind'
      <4>1. \A m \in new : IdOf(m) \in edgeApplied
        BY <2>3, <2>5, <2>6
      <4>2. cloudApplied' \subseteq edgeApplied'
        BY <1>0, <1>2, <2>4, <4>1 DEF Queues, CloudIsBehind
      <4>3. \A o \in cloudOrders' : <<o, "ORDER">> \in cloudApplied'
        BY <1>0, <2>4, <2>12 DEF Queues, CloudIsBehind
      <4> QED
        BY <4>2, <4>3 DEF CloudIsBehind
    <3>3. EdgeQueueIsSound'
      BY <1>0, <1>2, <1>3, <3>1 DEF Queues, EdgeQueueIsSound
    <3>4. NumbersAreSpent' /\ LocalQueueIsSound'
      BY <1>0, <1>2 DEF Queues, NumbersAreSpent, LocalQueueIsSound
    <3>5. NothingIsLost'
      <4>1. ASSUME NEW id \in edgeApplied
            PROVE  id \in cloudApplied' \/ \E m \in Range(edgeQueue') : IdOf(m) = id
        <5>1. CASE id \in cloudApplied
          BY <2>4, <5>1
        <5>2. CASE id \notin cloudApplied
          <6>1. PICK m \in Range(edgeQueue) : IdOf(m) = id
            BY <1>0, <5>2 DEF Queues, NothingIsLost
          <6>2. CASE m \in taken
            BY <2>4, <2>5, <5>2, <6>1, <6>2
          <6>3. CASE m \notin taken
            BY <2>3, <6>1, <6>3
          <6> QED
            BY <6>2, <6>3
        <5> QED
          BY <5>1, <5>2
      <4>2. ASSUME NEW o \in orders, <<o, "ORDER">> \in cloudApplied'
            PROVE  o \in cloudOrders'
        <5>1. CASE <<o, "ORDER">> \in cloudApplied
          BY <1>0, <2>4, <5>1 DEF Queues, NothingIsLost
        <5>2. CASE <<o, "ORDER">> \notin cloudApplied
          <6>1. PICK m \in new : IdOf(m) = <<o, "ORDER">>
            BY <2>4, <4>2, <5>2
          <6>2. m.of = o /\ m.kind = "ORDER"
            BY <6>1 DEF IdOf
          <6> QED
            BY <2>4, <6>1, <6>2
        <5> QED
          BY <5>1, <5>2
      <4> QED
        BY <1>0, <1>2, <4>1, <4>2 DEF Queues, NothingIsLost
    <3> QED
      BY <3>2, <3>3, <3>4, <3>5 DEF Queues
  <2>15. SimulationTypeOK'
    <3>1. cloudStock' \in [Bars -> Int]
      BY <2>9, <2>10
    <3>2. cloudOrders' \subseteq orders'
      BY <1>0, <1>2, <2>4, <2>12 DEF SimulationTypeOK
    <3>3. edgeApplied' \cup cloudApplied' \subseteq Nat \X {"ORDER", "INVENTORY", "TRANSFER"}
      <4>1. cloudApplied' \subseteq edgeApplied' /\ edgeApplied' = edgeApplied
        BY <1>2, <2>14 DEF Queues, CloudIsBehind
      <4> QED
        BY <1>0, <4>1 DEF SimulationTypeOK
    <3>4. twice' \in Nat
      BY <2>13 DEF EffectsHappenOnce
    <3> QED
      BY <1>0, <1>1, <1>2, <2>3, <3>1, <3>2, <3>3, <3>4 DEF SimulationTypeOK
  <2> QED
    BY <1>3, <1>4, <2>11, <2>13, <2>14, <2>15 DEF SimulationInv
<1> QED
  BY <1>5, <1>6

\* A run starts with the opening stock everywhere, and nothing queued.
LEMMA SimulationStarts == SimulationInit => SimulationInv
<1> SUFFICES ASSUME SimulationInit PROVE SimulationInv
  OBVIOUS
<1>1. /\ scenario \in Scenarios /\ second = 0 /\ phase = "traffic" /\ selling = {}
      /\ accumulator = 0 /\ sequence = 0
      /\ physical = [b \in Bars |-> config.opening] /\ edgeStock = physical /\ cloudStock = physical
      /\ localQueue = <<>> /\ edgeQueue = <<>> /\ edgeApplied = {} /\ cloudApplied = {}
      /\ orders = {} /\ cloudOrders = {} /\ payments = <<>> /\ answered = 0 /\ transfers = <<>>
      /\ replenished = {} /\ remaining = config.plan.source /\ twice = 0
  BY DEF SimulationInit
<1>2. config \in Configurations
  BY <1>1, ConfigIsSound
<1>3. /\ config.opening \in Nat /\ config.plan.source \in Nat /\ Final \in Nat
  BY <1>2 DEF Configurations, Final
<1>4. payments \in [orders -> [status : Statuses, due : Nat, cash : BOOLEAN]]
  BY <1>1
<1>5. SimulationTypeOK
  <2>1. second \in 0..Final /\ accumulator \in 0..SalePoint - 1
    BY <1>1, <1>3 DEF SalePoint
  <2>2. /\ physical \in [Bars -> Nat] /\ edgeStock \in [Bars -> Nat] /\ cloudStock \in [Bars -> Int]
    BY <1>1, <1>3
  <2>3. localQueue \in Seq(Mutations) /\ edgeQueue \in Seq(Mutations)
    BY <1>1
  <2>4. transfers \in Seq([id : Nat, bar : Bars, quantity : Nat, due : Nat, completed : BOOLEAN])
    BY <1>1
  <2> QED
    BY <1>1, <1>3, <1>4, <2>1, <2>2, <2>3, <2>4 DEF SimulationTypeOK
<1>6. Range(localQueue) = {} /\ Range(edgeQueue) = {} /\ OnTheWay = {} /\ Completed = {} /\ Waiting = {}
  BY <1>1 DEF Range, OnTheWay, Completed, Waiting
<1>7. Queues /\ CashIsPaid /\ IsFiniteSet(orders)
  BY <1>1, <1>6, FS_EmptySet
    DEF Queues, NumbersAreSpent, LocalQueueIsSound, EdgeQueueIsSound, CloudIsBehind, NothingIsLost,
        CashIsPaid
<1>8. StockIsAccounted
  <2>1. ASSUME NEW b \in Bars
        PROVE  /\ edgeStock[b] = physical[b] - Effect(Range(localQueue), b)
               /\ cloudStock[b] = edgeStock[b] - Effect(Waiting, b)
    <3>1. Effect({}, b) = 0
      BY EffectOfNone
    <3>2. edgeStock[b] = physical[b] /\ cloudStock[b] = physical[b] /\ physical[b] \in Nat
      BY <1>1, <1>3
    <3> QED
      BY <1>6, <3>1, <3>2
  <2> QED
    BY <2>1, StocksAreNamed
<1>9. GoodsAreConserved
  <2>1. SumFunctionOnSet(physical, Bars) = Cardinality(Bars) * config.opening
    <3>1. \A b \in Bars : physical[b] = config.opening
      BY <1>1
    <3> QED
      BY <1>3, <3>1, BarsAre, SumOfEquals
  <2>2. SumFunctionOnSet(Quantities, OnTheWay) = 0 /\ Cardinality(orders) = 0
    BY <1>1, <1>6, SumOfNone, FS_EmptySet
  <2>3. Cardinality(Bars) * config.opening \in Int
    BY <1>3, BarsAre
  <2> QED
    BY <1>1, <1>3, <2>1, <2>2, <2>3, FiguresAreNamed
<1>10. EffectsHappenOnce
  BY <1>1, <1>6, FiguresAreNamed, FS_EmptySet
<1> QED
  BY <1>5, <1>7, <1>8, <1>9, <1>10 DEF SimulationInv

\* Every step keeps the invariant.
LEMMA SimulationStepIsSound == SimulationInv /\ [SimulationNext]_simulationVars => SimulationInv'
<1> SUFFICES ASSUME SimulationInv, [SimulationNext]_simulationVars PROVE SimulationInv'
  OBVIOUS
<1>1. CASE GenerateTraffic
  BY <1>1, TrafficIsSound
<1>2. CASE CreateSale
  BY <1>2, SaleIsSound
<1>3. CASE MaybeCreateTransfers
  BY <1>3, TransfersAreSound
<1>4. CASE CompleteTransfers
  BY <1>4, ArrivalsAreSound
<1>5. CASE DrainLocalQueue
  BY <1>5, LocalDrainIsSound
<1>6. CASE DrainEdgeQueue
  BY <1>6, EdgeDrainIsSound
<1>7. CASE ProcessPaymentSignals
  BY <1>7, SignalsAreSound
<1>8. CASE NextSecond
  BY <1>8, SecondIsSound
<1>9. CASE UNCHANGED simulationVars
  <2>1. config' = config /\ Final' = Final
    BY <1>9 DEF simulationVars, config, Final
  <2>2. SimulationTypeOK' /\ CashIsPaid' /\ IsFiniteSet(orders')
    BY <1>9, <2>1 DEF SimulationInv, SimulationTypeOK, CashIsPaid, simulationVars
  <2>3. Queues' /\ GoodsAreConserved' /\ EffectsHappenOnce' /\ StockIsAccounted'
    BY <1>9, QueuesStay, GoodsStay, EffectsStay, StocksStay DEF SimulationInv, simulationVars, stocks
  <2> QED
    BY <2>2, <2>3 DEF SimulationInv
<1> QED
  BY <1>1, <1>2, <1>3, <1>4, <1>5, <1>6, <1>7, <1>8, <1>9 DEF SimulationNext

\* A run whose queues are empty and whose payments are complete passes.
LEMMA DrainedPasses == SimulationInv => DrainedRunPasses
<1> SUFFICES ASSUME SimulationInv, localQueue = <<>>, edgeQueue = <<>>,
                    \A o \in orders : payments[o].status = "SUCCEEDED"
             PROVE  Passed
  BY DEF DrainedRunPasses
<1>0. /\ SimulationTypeOK /\ IsFiniteSet(orders) /\ Queues /\ StockIsAccounted /\ EffectsHappenOnce
  BY DEF SimulationInv
<1>1. Range(localQueue) = {} /\ Range(edgeQueue) = {} /\ Waiting = {}
  BY DEF Range, Waiting
<1>2. InventoryConverged
  <2>1. ASSUME NEW b \in Bars PROVE edgeStock[b] = physical[b] /\ cloudStock[b] = physical[b]
    <3>1. Effect({}, b) = 0
      BY EffectOfNone
    <3>2. physical[b] \in Int /\ edgeStock[b] \in Int
      BY <1>0 DEF SimulationTypeOK
    <3>3. /\ edgeStock[b] = physical[b] - Effect({}, b)
          /\ cloudStock[b] = edgeStock[b] - Effect({}, b)
      BY <1>0, <1>1, StocksAreNamed
    <3> QED
      BY <3>1, <3>2, <3>3
  <2>2. /\ physical = [b \in Bars |-> physical[b]] /\ edgeStock = [b \in Bars |-> edgeStock[b]]
        /\ cloudStock = [b \in Bars |-> cloudStock[b]]
    BY <1>0 DEF SimulationTypeOK
  <2> QED
    BY <2>1, <2>2 DEF InventoryConverged
<1>3. cloudOrders = orders
  <2>1. ASSUME NEW o \in orders PROVE o \in cloudOrders
    <3>1. <<o, "ORDER">> \in edgeApplied
      BY <1>0, <1>1 DEF Queues, NothingIsLost
    <3>2. <<o, "ORDER">> \in cloudApplied
      BY <1>0, <1>1, <3>1 DEF Queues, NothingIsLost
    <3> QED
      BY <1>0, <3>2 DEF Queues, NothingIsLost
  <2>2. cloudOrders \subseteq orders
    BY <1>0 DEF SimulationTypeOK
  <2> QED
    BY <2>1, <2>2
<1>4. sequence - Len(transfers) <= Cardinality(orders)
  <2>1. Cardinality(orders) \in Nat /\ Len(transfers) \in Nat
    BY <1>0, FS_CardinalityType DEF SimulationTypeOK
  <2>2. sequence = Cardinality(orders) + Len(transfers)
    BY <1>0 DEF Queues, NothingIsLost
  <2> QED
    BY <2>1, <2>2
<1>5. twice = 0
  BY <1>0 DEF EffectsHappenOnce
<1> QED
  BY <1>2, <1>3, <1>4, <1>5 DEF Passed

\* The books of a simulated event balance, for every seed of the generator: the
\* types, the stocks and the queues between them, the goods, one effect of
\* each delivery and signal, and the assertions of a run that has drained.
THEOREM SimulationBooks == SimulationSpec => []BooksBalance
<1>1. SimulationInit => SimulationInv
  BY SimulationStarts
<1>2. SimulationInv /\ [SimulationNext]_simulationVars => SimulationInv'
  BY SimulationStepIsSound
<1>3. SimulationInv => BooksBalance
  BY DrainedPasses DEF SimulationInv, BooksBalance
<1> QED
  BY <1>1, <1>2, <1>3, PTL DEF SimulationSpec

\* Whatever the seed, the scenario and the figures: a run whose queues are
\* empty and whose payments are complete passes its release assertions.
THEOREM DrainedRunsPass == SimulationSpec => []DrainedRunPasses
<1>1. BooksBalance => DrainedRunPasses
  BY DEF BooksBalance
<1> QED
  BY <1>1, SimulationBooks, PTL

==============================================================================
