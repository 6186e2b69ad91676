--------------------------- MODULE InventoryProofs ---------------------------
(***************************************************************************)
(* Proofs about Inventory: what happens in the venue is booked once and    *)
(* whole, and dispatches and counts decide on balances that stay true      *)
(* until they commit, for any number of workers, sales, transfers, counts, *)
(* locations and SKUs.                                                     *)
(***************************************************************************)
EXTENDS Inventory, InductionLemmas

-----------------------------------------------------------------------------
(* The inductive invariant.                                                 *)

Things == Sales \cup Transfers \cup Counts
Places == Locations \cup {NoLocation}
Amounts == {q \in Quantities : \A s \in Skus : q[s] >= 0}

\* What a transaction is going to write.
Moves ==
  [kind : {"sale", "out", "count"}, of : Things,
   by : {"SALE", "RECIPE_CONSUMPTION", "dispatch", "close"},
   location : Locations, sku : Skus, delta : Int \ {0}]
OnePerSku(D) == \A m, n \in D : m.sku = n.sku => m = n

TxnType ==
  [op : {"idle", "sale", "dispatch", "close"}, of : Things \cup {NoLocation}, at : Places,
   stage : {"none", "mapped", "locking", "decided"}, wants : Seq(Skus),
   holds : SUBSET Skus, moves : SUBSET Moves]
TransferType ==
  [state : {"NONE", "REQUESTED", "ASSIGNED", "PICKING", "IN_TRANSIT", "RECEIVED", "CANCELLED"},
   source : Places, destination : Places, requested : Amounts, received : Amounts]
CountType ==
  [state : {"NONE", "OPEN", "CLOSED"}, location : Places, counted : Amounts]

Types ==
  /\ config \in Configurations
  /\ inbox \in [Sales -> {"none", "pending", "APPLIED", "EXCEPTION"}]
  /\ transfer \in [Transfers -> TransferType]
  /\ told = [x \in Transfers \cup Counts |-> told[x]]
  /\ receipts \subseteq Receipts
  /\ count \in [Counts -> CountType]
  /\ txn \in [Workers -> TxnType]

\* The ledger is finite, its keys are unique, and a receipt is used once.
IsRow(m) == m.location \in Locations /\ m.sku \in Skus /\ m.delta \in Int \ {0}
LedgerIsSound ==
  /\ IsFiniteSet(ledger)
  /\ \A m \in ledger : IsRow(m)
  /\ \A m, n \in ledger : SameKey(m, n) => m = n
  /\ \A m \in ledger : m.kind = "in" => m.by \in receipts

\* A transfer that exists asks for something, and the ledger has exactly its
\* dispatch and its receipts.
Arrived(t, s) == SumOf({m \in RowsOf("in", t) : m.sku = s})
TransferIsSound(t) ==
  LET x == transfer[t] IN
  /\ x.state # "NONE" =>
       x.source \in Locations /\ x.destination \in Locations /\ Lines(x.requested) # {}
  /\ IF x.state \in {"IN_TRANSIT", "RECEIVED"}
       THEN /\ RowsOf("out", t) = OutMoves(t)
            /\ \A s \in Skus : Arrived(t, s) = x.received[s] /\ x.received[s] <= x.requested[s]
            /\ x.state = "RECEIVED" <=> x.received = x.requested
       ELSE RowsOf("out", t) = {} /\ RowsOf("in", t) = {} /\ x.received = Nothing
  /\ told[t] = x

\* A count has adjustments only once it is closed.
CountIsSound(n) ==
  /\ count[n].state # "NONE" => count[n].location \in Locations
  /\ IF count[n].state = "CLOSED"
       THEN told[n] = [counted |-> count[n].counted, adjusted |-> RowsOf("count", n)]
       ELSE RowsOf("count", n) = {}

DocumentsAreSound ==
  (\A t \in Transfers : TransferIsSound(t)) /\ (\A n \in Counts : CountIsSound(n))

\* A stock is held by one transaction, and so is the row of a document.
LocksAreExclusive ==
  /\ \A v, w \in Workers : \A s \in Skus :
       s \in txn[v].holds /\ s \in txn[w].holds /\ txn[v].at = txn[w].at => v = w
  /\ \A v, w \in Workers :
       txn[v].op \in {"dispatch", "close"} /\ txn[v].op = txn[w].op /\ txn[v].of = txn[w].of
         => v = w

\* What a transaction holds or is still going to lock.
Secured(w) == txn[w].holds \cup {txn[w].wants[i] : i \in DOMAIN txn[w].wants}

\* A transaction has decided on what its locks keep true.
SaleIsSound(w) ==
  LET x == txn[w] IN
  /\ x.of \in Sales /\ x.at \in Locations /\ x.stage \in {"mapped", "decided"}
  /\ x.stage = "mapped" => x.wants = <<>>
  /\ x.stage = "decided" =>
       /\ \E c \in Configurations : x.moves = SaleMoves(x.of, x.at, c.recipe)
       /\ \A m \in x.moves : m.sku \in Secured(w)
DispatchIsSound(w) ==
  LET x == txn[w]   t == transfer[x.of] IN
  /\ x.of \in Transfers /\ t.state = "PICKING" /\ x.at = t.source
  /\ x.stage \in {"locking", "decided"}
  /\ Lines(t.requested) \subseteq Secured(w)
  /\ x.stage = "decided" =>
       /\ x.wants = <<>> /\ x.moves = OutMoves(x.of)
       /\ \A s \in Lines(t.requested) : OnHand(x.at, s) >= t.requested[s]
CloseIsSound(w) ==
  LET x == txn[w]   n == count[x.of] IN
  /\ x.of \in Counts /\ n.state = "OPEN" /\ x.at = n.location
  /\ x.stage \in {"locking", "decided"}
  /\ Skus \subseteq Secured(w)
  /\ x.stage = "decided" => x.wants = <<>> /\ x.moves = AdjustMoves(x.of)
TxnIsSound(w) ==
  CASE txn[w].op = "idle"     -> txn[w] = Idle
    [] txn[w].op = "sale"     -> SaleIsSound(w)
    [] txn[w].op = "dispatch" -> DispatchIsSound(w)
    [] txn[w].op = "close"    -> CloseIsSound(w)

IInv ==
  /\ Types
  /\ LedgerIsSound
  /\ DocumentsAreSound
  /\ LocksAreExclusive
  /\ \A w \in Workers : TxnIsSound(w)

-----------------------------------------------------------------------------
(* The sum of the movements.                                                *)

\* The sum of the movements of a set is a sum in the sense of InductionLemmas.
LEMMA SumOfIsFold ==
  ASSUME NEW S, IsFiniteSet(S)
  PROVE  \E g : IsSum([m \in S |-> m.delta], g, S) /\ SumOf(S) = g[S]
<1> DEFINE weight == [m \in S |-> m.delta]
           Iter(g, s) == IF s = {} THEN 0
                         ELSE LET x == CHOOSE x \in s : TRUE IN x.delta + g[s \ {x}]
           f == CHOOSE g : g = [s \in SUBSET S |-> Iter(g, s)]
<1>1. ASSUME NEW g PROVE [s \in SUBSET S |-> Iter(g, s)] = [s \in SUBSET S |-> SumStep(weight, g, s)]
  <2>1. ASSUME NEW s \in SUBSET S PROVE Iter(g, s) = SumStep(weight, g, s)
    BY DEF SumStep
  <2> QED
    BY <2>1
<1>2. PICK g : IsSum(weight, g, S)
  BY SumExists
<1>3. g = [s \in SUBSET S |-> Iter(g, s)]
  BY <1>1, <1>2 DEF IsSum
<1>4. f = [s \in SUBSET S |-> Iter(f, s)]
  BY <1>3
<1>5. SumOf(S) = f[S]
  BY DEF SumOf, MapThenSumSet, MapThenFoldSet
<1>6. IsSum(weight, f, S)
  BY <1>1, <1>4 DEF IsSum
<1> QED
  BY <1>5, <1>6

\* A sum is a number, and a new movement adds to it.
LEMMA SumOfNone == SumOf({}) = 0
<1>1. PICK g : IsSum([m \in {} |-> m.delta], g, {}) /\ SumOf({}) = g[{}]
  BY SumOfIsFold, FS_EmptySet
<1> QED
  BY <1>1 DEF IsSum, SumStep

\* A sum of whole numbers is one.
LEMMA SumOfType ==
  ASSUME NEW S, IsFiniteSet(S), \A m \in S : m.delta \in Int
  PROVE  SumOf(S) \in Int
<1> DEFINE weight == [m \in S |-> m.delta]
<1>1. PICK g : IsSum(weight, g, S) /\ SumOf(S) = g[S]
  BY SumOfIsFold
<1>2. \A x \in S : weight[x] \in Int
  OBVIOUS
<1> HIDE DEF weight
<1>3. \A s \in SUBSET S : g[s] \in Int
  BY <1>1, <1>2, SumSplits
<1> QED
  BY <1>1, <1>3

\* A movement more adds its delta to the sum.
LEMMA SumOfMore ==
  ASSUME NEW S, IsFiniteSet(S), \A m \in S : m.delta \in Int,
         NEW d, d.delta \in Int, d \notin S
  PROVE  SumOf(S \cup {d}) = SumOf(S) + d.delta
<1> DEFINE T == S \cup {d}
           v == [m \in S |-> m.delta]
           weight == [m \in T |-> m.delta]
<1>1. IsFiniteSet(T)
  BY FS_AddElement
<1>2. PICK g : IsSum(weight, g, T) /\ SumOf(T) = g[T]
  BY <1>1, SumOfIsFold
<1>3. PICK h : IsSum(v, h, S) /\ SumOf(S) = h[S]
  BY SumOfIsFold
<1>4. /\ \A x \in T : weight[x] \in Int
      /\ \A x \in S : v[x] = weight[x]
      /\ weight[d] = d.delta /\ d \in T /\ T \ {d} = S /\ S \in SUBSET T
  OBVIOUS
<1> HIDE DEF weight, v, T
<1>5. \A s \in SUBSET S : h[s] = g[s]
  BY <1>1, <1>2, <1>3, <1>4, SumsAgree
<1>6. \A s \in SUBSET T : g[s] \in Int /\ \A x \in s : g[s] = weight[x] + g[s \ {x}]
  BY <1>1, <1>2, <1>4, SumSplits
<1>7. h[S] = g[S] /\ g[S] \in Int /\ g[T] = weight[d] + g[S]
  BY <1>4, <1>5, <1>6
<1>8. SumOf(T) = SumOf(S) + d.delta
  BY <1>2, <1>3, <1>4, <1>7
<1> QED
  BY <1>8 DEF T

\* One movement sums to its delta.
LEMMA SumOfOne ==
  ASSUME NEW d, d.delta \in Int
  PROVE  SumOf({d}) = d.delta
<1>1. {d} = {} \cup {d} /\ \A m \in {} : m.delta \in Int
  OBVIOUS
<1>2. SumOf({} \cup {d}) = SumOf({}) + d.delta
  BY <1>1, FS_EmptySet, SumOfMore
<1> QED
  BY <1>1, <1>2, SumOfNone

(* The order of the locks: every SKU of S is in it.                         *)

SortStep(order, S, f, i) ==
  IF i = 0 THEN <<>> ELSE IF order[i] \in S THEN Append(f[i - 1], order[i]) ELSE f[i - 1]
IsSorted(order, S, f, n) == f = [i \in 0..n |-> SortStep(order, S, f, i)]
Members(q) == {q[i] : i \in DOMAIN q}

\* Appending adds one member.
LEMMA AppendMembers ==
  ASSUME NEW q \in Seq(Skus), NEW x \in Skus
  PROVE  Append(q, x) \in Seq(Skus) /\ Members(Append(q, x)) = Members(q) \cup {x}
<1> DEFINE r == Append(q, x)
<1>1. /\ r \in Seq(Skus) /\ DOMAIN r = 1..Len(q) + 1 /\ DOMAIN q = 1..Len(q) /\ Len(q) \in Nat
      /\ \A i \in 1..Len(q) : r[i] = q[i]
      /\ r[Len(q) + 1] = x
  OBVIOUS
<1> HIDE DEF r
<1>2. 1..Len(q) + 1 = (1..Len(q)) \cup {Len(q) + 1}
  BY <1>1
<1>3. Members(r) = Members(q) \cup {x}
  BY <1>1, <1>2 DEF Members
<1> QED
  BY <1>1, <1>3 DEF r

\* InOrder is built prefix by prefix of the order.
LEMMA InOrderIsSorted ==
  ASSUME NEW order, Len(order) \in Nat, NEW S
  PROVE  \E f : IsSorted(order, S, f, Len(order)) /\ InOrder(order, S) = f[Len(order)]
<1> DEFINE n == Len(order)
           D == {m \in 0..n : \E f : IsSorted(order, S, f, m)}
<1>1. 0 \in D
  <2> DEFINE f == [i \in 0..0 |-> <<>>]
  <2>1. IsSorted(order, S, f, 0)
    BY DEF IsSorted, SortStep
  <2> HIDE DEF f
  <2> QED
    BY <2>1
<1>2. ASSUME NEW m \in 0..n, m # n, m \in D
      PROVE  m + 1 \in D
  <2>1. PICK f : IsSorted(order, S, f, m)
    BY <1>2
  <2> DEFINE h == [i \in 0..m + 1 |-> IF i = m + 1 THEN SortStep(order, S, f, i) ELSE f[i]]
  <2>2. ASSUME NEW i \in 0..m + 1 PROVE h[i] = SortStep(order, S, h, i)
    <3>1. h[i] = SortStep(order, S, f, i)
      <4>1. i # m + 1 => i \in 0..m
        OBVIOUS
      <4>2. i # m + 1 => f[i] = SortStep(order, S, f, i)
        BY <2>1, <4>1 DEF IsSorted
      <4> QED
        BY <4>2
    <3>2. i # 0 => h[i - 1] = f[i - 1]
      <4>1. i # 0 => i - 1 \in 0..m + 1 /\ i - 1 # m + 1
        OBVIOUS
      <4> QED
        BY <4>1
    <3> HIDE DEF h
    <3> QED
      BY <3>1, <3>2 DEF SortStep
  <2>3. IsSorted(order, S, h, m + 1)
    BY <2>2 DEF IsSorted
  <2> HIDE DEF h
  <2>4. m + 1 \in 0..n
    BY <1>2
  <2> QED
    BY <2>3, <2>4
<1> HIDE DEF D
<1>3. 0..n \subseteq D
  BY <1>1, <1>2, UpTo
<1> USE DEF D
<1>4. n \in D
  <2>1. n \in 0..n
    OBVIOUS
  <2> HIDE DEF D, n
  <2> QED
    BY <1>3, <2>1
<1>5. PICK f : IsSorted(order, S, f, n)
  BY <1>4
<1> QED
  BY <1>5 DEF InOrder, IsSorted, SortStep

\* No SKU is lost when a set is put in the order its locks are taken in.
LEMMA InOrderHasAll ==
  ASSUME NEW order \in Seq(Skus), Skus = Members(order), NEW S \in SUBSET Skus
  PROVE  InOrder(order, S) \in Seq(Skus) /\ S \subseteq Members(InOrder(order, S))
<1> DEFINE n == Len(order)
<1>0. n \in Nat /\ DOMAIN order = 1..n /\ \A i \in 1..n : order[i] \in Skus
  OBVIOUS
<1>1. PICK f : IsSorted(order, S, f, n) /\ InOrder(order, S) = f[n]
  BY <1>0, InOrderIsSorted
<1> HIDE DEF n
<1> DEFINE D == {m \in 0..n : f[m] \in Seq(Skus)
                                /\ \A i \in 1..m : order[i] \in S => order[i] \in Members(f[m])}
<1>2. 0 \in D
  <2>1. 0 \in 0..n
    BY <1>0
  <2>2. f[0] = <<>>
    BY <1>1, <2>1 DEF IsSorted, SortStep
  <2>3. \A i \in 1..0 : order[i] \in S => order[i] \in Members(f[0])
    OBVIOUS
  <2>4. <<>> \in Seq(Skus)
    OBVIOUS
  <2> QED
    BY <2>1, <2>2, <2>3, <2>4
<1>3. ASSUME NEW m \in 0..n, m # n, m \in D
      PROVE  m + 1 \in D
  <2>1. m + 1 \in 1..n /\ m + 1 \in 0..n /\ m + 1 # 0 /\ (m + 1) - 1 = m
    BY <1>0, <1>3, NextNumber
  <2>2. f[m + 1] = IF order[m + 1] \in S THEN Append(f[m], order[m + 1]) ELSE f[m]
    <3> DEFINE k == m + 1
    <3>1. k \in 0..n /\ k # 0 /\ k - 1 = m
      BY <2>1
    <3> HIDE DEF k
    <3>2. f[k] = SortStep(order, S, f, k)
      BY <1>1, <3>1 DEF IsSorted
    <3>3. f[k] = IF order[k] \in S THEN Append(f[m], order[k]) ELSE f[m]
      BY <3>1, <3>2 DEF SortStep
    <3> QED
      BY <3>3 DEF k
  <2>3. f[m + 1] \in Seq(Skus) /\ Members(f[m]) \subseteq Members(f[m + 1])
        /\ (order[m + 1] \in S => order[m + 1] \in Members(f[m + 1]))
    BY <1>0, <1>3, <2>1, <2>2, AppendMembers
  <2>4. \A i \in 1..m + 1 : i \in 1..m \/ i = m + 1
    BY <1>3
  <2> QED
    BY <1>3, <2>1, <2>3, <2>4
<1> HIDE DEF D
<1>4. 0..n \subseteq D
  BY <1>0, <1>2, <1>3, UpTo
<1> USE DEF D
<1>5. n \in D
  <2>1. n \in 0..n
    BY <1>0
  <2> HIDE DEF D
  <2> QED
    BY <1>4, <2>1
<1>6. \A s \in S : \E i \in 1..n : order[i] = s
  BY <1>0 DEF Members
<1> QED
  BY <1>1, <1>5, <1>6

-----------------------------------------------------------------------------
(* What is written.                                                         *)

\* Movements of different SKUs are finitely many.
LEMMA OnePerSkuIsFinite ==
  ASSUME NEW D, OnePerSku(D), \A m \in D : m.sku \in Skus
  PROVE  IsFiniteSet(D)
<1> DEFINE f == [m \in D |-> m.sku]
<1>1. f \in Injection(D, Skus)
  BY DEF Injection, IsInjective, OnePerSku
<1> QED
  BY <1>1, FS_Injection, InventoryAssumptions DEF InventoryAssumptions

AreMovements(D, kind, x, by, l, S, f) == D = {Movement(kind, x, by, l, s, f[s]) : s \in S}

\* What the movements of a sale, a dispatch and a close have in common.
LEMMA MovementsAre ==
  ASSUME NEW kind \in {"sale", "out", "count"}, NEW x \in Things,
         NEW by \in {"SALE", "RECIPE_CONSUMPTION", "dispatch", "close"},
         NEW l \in Locations, NEW S \in SUBSET Skus, NEW f, \A s \in S : f[s] \in Int \ {0},
         NEW D, AreMovements(D, kind, x, by, l, S, f)
  PROVE  /\ D \subseteq Moves /\ OnePerSku(D)
         /\ \A m \in D : /\ m.kind = kind /\ m.of = x /\ m.location = l
                        /\ m.sku \in S /\ m.delta = f[m.sku]
         /\ \A s \in S : \E m \in D : m.sku = s
<1>1. \A s \in S : /\ Movement(kind, x, by, l, s, f[s]) \in Moves
                  /\ Movement(kind, x, by, l, s, f[s]).kind = kind
                  /\ Movement(kind, x, by, l, s, f[s]).of = x
                  /\ Movement(kind, x, by, l, s, f[s]).location = l
                  /\ Movement(kind, x, by, l, s, f[s]).sku = s
                  /\ Movement(kind, x, by, l, s, f[s]).delta = f[s]
  BY DEF Movement, Moves
<1>2. \A m \in D : m.sku \in S /\ m = Movement(kind, x, by, l, m.sku, f[m.sku])
  BY <1>1 DEF AreMovements
<1>3. \A s \in S : Movement(kind, x, by, l, s, f[s]) \in D
  BY DEF AreMovements
<1> QED
  BY <1>1, <1>2, <1>3 DEF OnePerSku

\* A quantity taken is as far from zero as one given.
LEMMA Negative == \A i \in Int : i # 0 => -i \in Int \ {0}
  OBVIOUS

\* The movements of a sale: one for each component, where the sale is mapped.
LEMMA SaleMovesAre ==
  ASSUME NEW e \in Sales, NEW l \in Locations, NEW r \in Quantities
  PROVE  /\ SaleMoves(e, l, r) \subseteq Moves /\ OnePerSku(SaleMoves(e, l, r))
         /\ SaleMoves(e, l, r) # {}
         /\ \A m \in SaleMoves(e, l, r) : m.kind = "sale" /\ m.of = e /\ m.location = l
<1>1. e \in Things /\ Product \in Skus
  BY InventoryAssumptions DEF Things, InventoryAssumptions
<1>2. CASE Lines(r) = {}
  <2> DEFINE S == {Product}
             f == [s \in S |-> -1]
  <2>1. SaleMoves(e, l, r) = {Movement("sale", e, "SALE", l, s, f[s]) : s \in S}
    BY <1>2 DEF SaleMoves
  <2>2. \A s \in S : f[s] \in Int \ {0}
    OBVIOUS
  <2>3. AreMovements(SaleMoves(e, l, r), "sale", e, "SALE", l, S, f)
    BY <2>1 DEF AreMovements
  <2>4. S \in SUBSET Skus /\ Product \in S
    BY <1>1
  <2> HIDE DEF f, S
  <2> QED
    BY <1>1, <2>2, <2>3, <2>4, MovementsAre
<1>3. CASE Lines(r) # {}
  <2> DEFINE f == [s \in Lines(r) |-> -r[s]]
  <2>1. SaleMoves(e, l, r)
          = {Movement("sale", e, "RECIPE_CONSUMPTION", l, s, f[s]) : s \in Lines(r)}
    BY <1>3 DEF SaleMoves
  <2>2. \A s \in Lines(r) : s \in Skus /\ r[s] \in Int /\ r[s] # 0
    BY DEF Lines, Quantities
  <2>3. \A s \in Lines(r) : f[s] \in Int \ {0}
    BY <2>2, Negative
  <2>4. Lines(r) \in SUBSET Skus
    BY <2>2
  <2>5. AreMovements(SaleMoves(e, l, r), "sale", e, "RECIPE_CONSUMPTION", l, Lines(r), f)
    BY <2>1 DEF AreMovements
  <2> HIDE DEF f
  <2> QED
    BY <1>1, <1>3, <2>3, <2>4, <2>5, MovementsAre
<1> QED
  BY <1>2, <1>3

\* The movements of a dispatch: every line leaves the source in full.
LEMMA OutMovesAre ==
  ASSUME Types, NEW t \in Transfers, transfer[t].source \in Locations
  PROVE  /\ OutMoves(t) \subseteq Moves /\ OnePerSku(OutMoves(t))
         /\ \A m \in OutMoves(t) :
              /\ m.kind = "out" /\ m.of = t /\ m.location = transfer[t].source
              /\ m.sku \in Lines(transfer[t].requested)
              /\ m.delta = -transfer[t].requested[m.sku]
         /\ \A s \in Lines(transfer[t].requested) : \E m \in OutMoves(t) : m.sku = s
<1> DEFINE q == transfer[t].requested
           f == [s \in Lines(q) |-> -q[s]]
<1>1. q \in [Skus -> Int]
  BY DEF Types, TransferType, Amounts, Quantities
<1>2. \A s \in Lines(q) : s \in Skus /\ q[s] \in Int /\ q[s] # 0
  BY <1>1 DEF Lines
<1>3. (\A s \in Lines(q) : f[s] \in Int \ {0} /\ f[s] = -q[s]) /\ Lines(q) \in SUBSET Skus
  BY <1>2, Negative
<1>4. OutMoves(t) = {Movement("out", t, "dispatch", transfer[t].source, s, f[s]) : s \in Lines(q)}
  BY DEF OutMoves
<1>5. /\ t \in Things
      /\ AreMovements(OutMoves(t), "out", t, "dispatch", transfer[t].source, Lines(q), f)
  BY <1>4 DEF Things, AreMovements
<1> HIDE DEF f, q
<1>6. /\ OutMoves(t) \subseteq Moves /\ OnePerSku(OutMoves(t))
      /\ \A m \in OutMoves(t) :
           /\ m.kind = "out" /\ m.of = t /\ m.location = transfer[t].source
           /\ m.sku \in Lines(q) /\ m.delta = f[m.sku]
      /\ \A s \in Lines(q) : \E m \in OutMoves(t) : m.sku = s
  BY <1>3, <1>5, MovementsAre
<1> QED
  BY <1>3, <1>6 DEF q

\* Stock on hand is a whole number.
LEMMA OnHandType ==
  ASSUME LedgerIsSound, NEW l, NEW s
  PROVE  OnHand(l, s) \in Int
<1> DEFINE S == {m \in ledger : m.location = l /\ m.sku = s}
<1>1. S \subseteq ledger /\ \A m \in S : m.delta \in Int
  BY DEF LedgerIsSound, IsRow
<1>2. IsFiniteSet(S)
  BY <1>1, FS_Subset DEF LedgerIsSound
<1> HIDE DEF S
<1>3. SumOf(S) \in Int
  BY <1>1, <1>2, SumOfType
<1> QED
  BY <1>3 DEF S, OnHand

Missing(n, s) == count[n].counted[s] - OnHand(count[n].location, s)

\* The movements of a close: what is missing, where anything is.
LEMMA AdjustMovesAre ==
  ASSUME Types, LedgerIsSound, NEW n \in Counts, count[n].location \in Locations
  PROVE  /\ AdjustMoves(n) \subseteq Moves /\ OnePerSku(AdjustMoves(n))
         /\ \A m \in AdjustMoves(n) :
              /\ m.kind = "count" /\ m.of = n /\ m.location = count[n].location
              /\ m.delta = Missing(n, m.sku)
         /\ \A s \in Skus : Missing(n, s) # 0 => \E m \in AdjustMoves(n) : m.sku = s
         /\ \A s \in Skus : Missing(n, s) \in Int
<1> DEFINE S == {x \in Skus : Missing(n, x) # 0}
           f == [s \in Skus |-> Missing(n, s)]
<1>1. \A s \in Skus : count[n].counted[s] \in Int
  BY DEF Types, CountType, Amounts, Quantities
<1>2. \A s \in Skus : OnHand(count[n].location, s) \in Int
  BY OnHandType
<1>3. \A s \in Skus : Missing(n, s) \in Int /\ f[s] = Missing(n, s)
  BY <1>1, <1>2 DEF Missing
<1>4. n \in Things
  BY DEF Things
<1>5. AreMovements(AdjustMoves(n), "count", n, "close", count[n].location, S, f)
  BY <1>3 DEF AdjustMoves, AreMovements, Missing
<1>6. (\A s \in S : f[s] \in Int \ {0} /\ f[s] = Missing(n, s)) /\ S \in SUBSET Skus
  BY <1>3
<1> HIDE DEF f, S
<1>7. /\ AdjustMoves(n) \subseteq Moves /\ OnePerSku(AdjustMoves(n))
      /\ \A m \in AdjustMoves(n) :
           /\ m.kind = "count" /\ m.of = n /\ m.location = count[n].location
           /\ m.sku \in S /\ m.delta = f[m.sku]
      /\ \A s \in S : \E m \in AdjustMoves(n) : m.sku = s
  BY <1>4, <1>5, <1>6, MovementsAre
<1>8. \A s \in Skus : Missing(n, s) # 0 => s \in S
  BY DEF S
<1> QED
  BY <1>3, <1>6, <1>7, <1>8

\* The sum of a stock after new movements.
Stock(L, l, s) == SumOf({m \in L : m.location = l /\ m.sku = s})

IsBook(L) == IsFiniteSet(L) /\ \A m \in L : m.delta \in Int
AllAt(D, l) == \A m \in D : m.location = l
AddsUp(L, D, l, d) == Stock(L \cup D, l, d.sku) = Stock(L, l, d.sku) + d.delta

\* A set of movements, one for each SKU, changes the stock of a SKU by its
\* delta.
LEMMA StockAfter ==
  ASSUME NEW L, NEW D, NEW l, NEW d, IsBook(L), OnePerSku(D), AllAt(D, l),
         d \in D, d.delta \in Int, d \notin L
  PROVE  AddsUp(L, D, l, d)
<1> DEFINE S == {m \in L : m.location = l /\ m.sku = d.sku}
<1>1. {m \in L \cup D : m.location = l /\ m.sku = d.sku} = S \cup {d}
  BY DEF OnePerSku, AllAt
<1>2. IsFiniteSet(S) /\ d \notin S /\ \A m \in S : m.delta \in Int
  BY FS_Subset DEF IsBook
<1> HIDE DEF S
<1>3. SumOf(S \cup {d}) = SumOf(S) + d.delta
  BY <1>2, SumOfMore
<1> QED
  BY <1>1, <1>3 DEF S, Stock, AddsUp

-----------------------------------------------------------------------------
(* What stays sound.                                                        *)

\* Rows whose keys are new keep the ledger sound.
LEMMA LedgerGrows ==
  ASSUME LedgerIsSound, NEW D, ledger' = ledger \cup D, IsFiniteSet(D),
         \A m \in D : IsRow(m),
         \A m \in D, n \in ledger : SameKey(m, n) => m = n,
         \A m, n \in D : SameKey(m, n) => m = n,
         receipts \subseteq receipts', \A m \in D : m.kind = "in" => m.by \in receipts'
  PROVE  LedgerIsSound'
<1>1. IsFiniteSet(ledger')
  BY FS_Union DEF LedgerIsSound
<1>2. \A m \in ledger' : IsRow(m) /\ (m.kind = "in" => m.by \in receipts')
  BY DEF LedgerIsSound
<1>3. \A m, n \in ledger' : SameKey(m, n) => m = n
  BY DEF LedgerIsSound, SameKey
<1> QED
  BY <1>1, <1>2, <1>3 DEF LedgerIsSound, IsRow, SameKey

\* A transfer whose rows and movements stay is as sound as before.
LEMMA TransferStays ==
  ASSUME NEW t \in Transfers, TransferIsSound(t), transfer'[t] = transfer[t], told'[t] = told[t],
         RowsOf("out", t)' = RowsOf("out", t), RowsOf("in", t)' = RowsOf("in", t)
  PROVE  TransferIsSound(t)'
<1>1. OutMoves(t)' = OutMoves(t)
  BY DEF OutMoves
<1>2. \A s : Arrived(t, s)' = Arrived(t, s)
  BY DEF Arrived
<1> QED
  BY <1>1, <1>2 DEF TransferIsSound

\* So is a count.
LEMMA CountStays ==
  ASSUME NEW n \in Counts, CountIsSound(n), count'[n] = count[n], told'[n] = told[n],
         RowsOf("count", n)' = RowsOf("count", n)
  PROVE  CountIsSound(n)'
BY DEF CountIsSound

\* A document keeps its rows in the ledger while others are written.
LEMMA RowsStay ==
  ASSUME NEW kind, NEW x, NEW D, ledger' = ledger \cup D,
         \A m \in D : m.kind # kind \/ m.of # x
  PROVE  RowsOf(kind, x)' = RowsOf(kind, x)
BY DEF RowsOf

\* Movements elsewhere, or of other SKUs, leave a stock alone.
LEMMA StockStays ==
  ASSUME NEW l, NEW s, NEW D, ledger' = ledger \cup D,
         \A m \in D : m.location # l \/ m.sku # s
  PROVE  OnHand(l, s)' = OnHand(l, s)
<1>1. {m \in ledger' : m.location = l /\ m.sku = s} = {m \in ledger : m.location = l /\ m.sku = s}
  OBVIOUS
<1> QED
  BY <1>1 DEF OnHand

\* A transaction stays sound while others write other documents, and stocks
\* that it does not hold.
LEMMA TxnStays ==
  ASSUME Types, NEW w \in Workers, TxnIsSound(w), txn'[w] = txn[w],
         txn[w].op = "dispatch" => transfer'[txn[w].of] = transfer[txn[w].of],
         txn[w].op = "close" => count'[txn[w].of] = count[txn[w].of],
         \A s \in txn[w].holds : OnHand(txn[w].at, s)' = OnHand(txn[w].at, s)
  PROVE  TxnIsSound(w)'
<1>1. txn[w].op \in {"idle", "sale", "dispatch", "close"}
  BY DEF Types, TxnType
<1>2. Secured(w)' = Secured(w)
  BY DEF Secured
<1>3. txn[w].wants = <<>> => Secured(w) = txn[w].holds
  BY DEF Secured
<1>4. CASE txn[w].op = "idle"
  BY <1>4 DEF TxnIsSound, Idle
<1>5. CASE txn[w].op = "sale"
  <2>1. SaleIsSound(w)
    BY <1>5 DEF TxnIsSound
  <2>2. SaleIsSound(w)'
    BY <1>2, <2>1 DEF SaleIsSound
  <2> QED
    BY <1>5, <2>2 DEF TxnIsSound
<1>6. CASE txn[w].op = "dispatch"
  <2>1. DispatchIsSound(w) /\ transfer'[txn[w].of] = transfer[txn[w].of]
    BY <1>6 DEF TxnIsSound
  <2>2. OutMoves(txn[w].of)' = OutMoves(txn[w].of)
    BY <2>1 DEF OutMoves
  <2>3. txn[w].stage = "decided" =>
          \A s \in Lines(transfer[txn[w].of].requested) :
             OnHand(txn[w].at, s)' = OnHand(txn[w].at, s)
    BY <1>3, <2>1 DEF DispatchIsSound
  <2>4. DispatchIsSound(w)'
    BY <1>2, <2>1, <2>2, <2>3 DEF DispatchIsSound
  <2> QED
    BY <1>6, <2>4 DEF TxnIsSound
<1>7. CASE txn[w].op = "close"
  <2>1. CloseIsSound(w) /\ count'[txn[w].of] = count[txn[w].of]
    BY <1>7 DEF TxnIsSound
  <2>2. txn[w].stage = "decided" => AdjustMoves(txn[w].of)' = AdjustMoves(txn[w].of)
    <3>1. SUFFICES ASSUME txn[w].stage = "decided"
                   PROVE  AdjustMoves(txn[w].of)' = AdjustMoves(txn[w].of)
      OBVIOUS
    <3>2. \A s \in Skus :
             OnHand(count[txn[w].of].location, s)' = OnHand(count[txn[w].of].location, s)
      BY <1>3, <2>1, <3>1 DEF CloseIsSound
    <3>3. \A s \in Skus : Missing(txn[w].of, s)' = Missing(txn[w].of, s)
      BY <2>1, <3>2 DEF Missing
    <3>4. \A n : AdjustMoves(n) =
             {Movement("count", n, "close", count[n].location, s, Missing(n, s)) :
                 s \in {x \in Skus : Missing(n, x) # 0}}
      BY DEF AdjustMoves, Missing
    <3>5. \A n : AdjustMoves(n)' =
             {Movement("count", n, "close", count'[n].location, s, Missing(n, s)') :
                 s \in {x \in Skus : Missing(n, x)' # 0}}
      BY DEF AdjustMoves, Missing
    <3> QED
      BY <2>1, <3>3, <3>4, <3>5
  <2>3. CloseIsSound(w)'
    BY <1>2, <2>1, <2>2 DEF CloseIsSound
  <2> QED
    BY <1>7, <2>3 DEF TxnIsSound
<1> QED
  BY <1>1, <1>4, <1>5, <1>6, <1>7

\* Transactions stay sound while nobody changes their rows or a stock they
\* hold.
LEMMA AllTxnsStay ==
  ASSUME Types, \A w \in Workers : TxnIsSound(w), txn' = txn,
         \A w \in Workers : txn[w].op = "dispatch" => transfer'[txn[w].of] = transfer[txn[w].of],
         \A w \in Workers : txn[w].op = "close" => count'[txn[w].of] = count[txn[w].of],
         \A w \in Workers : \A s \in txn[w].holds : OnHand(txn[w].at, s)' = OnHand(txn[w].at, s)
  PROVE  LocksAreExclusive => LocksAreExclusive' /\ \A w \in Workers : TxnIsSound(w)'
<1>1. \A w \in Workers : TxnIsSound(w)'
  BY TxnStays
<1> QED
  BY <1>1 DEF LocksAreExclusive

\* A step that writes no table keeps what is said of them.
LEMMA SameBooks ==
  ASSUME ledger' = ledger, transfer' = transfer, told' = told, receipts' = receipts, count' = count
  PROVE  /\ LedgerIsSound => LedgerIsSound'
         /\ DocumentsAreSound => DocumentsAreSound'
         /\ \A l, s : OnHand(l, s)' = OnHand(l, s)
<1>1. LedgerIsSound => LedgerIsSound'
  BY DEF LedgerIsSound, IsRow, SameKey
<1>2. \A l, s : OnHand(l, s)' = OnHand(l, s)
  BY DEF OnHand
<1>3. \A kind, x : RowsOf(kind, x)' = RowsOf(kind, x)
  BY DEF RowsOf
<1>4. DocumentsAreSound => DocumentsAreSound'
  BY <1>3, TransferStays, CountStays DEF DocumentsAreSound
<1> QED
  BY <1>1, <1>2, <1>4

\* A step that changes one transaction and no book.
LEMMA TxnMoves ==
  ASSUME IInv, NEW w \in Workers, NEW x \in TxnType, txn' = [txn EXCEPT ![w] = x],
         config' = config, inbox' = inbox, ledger' = ledger, transfer' = transfer, told' = told,
         receipts' = receipts, count' = count, TxnIsSound(w)',
         \A v \in Workers : \A s \in x.holds : s \in txn[v].holds /\ txn[v].at = x.at => v = w,
         x.op \in {"dispatch", "close"} =>
            \A v \in Workers : txn[v].op = x.op /\ txn[v].of = x.of => v = w
  PROVE  IInv'
<1>1. Types'
  BY DEF IInv, Types
<1>2. LedgerIsSound' /\ DocumentsAreSound' /\ \A l, s : OnHand(l, s)' = OnHand(l, s)
  BY SameBooks DEF IInv
<1>3. txn \in [Workers -> TxnType] /\ LocksAreExclusive /\ txn'[w] = x
      /\ \A v \in Workers : v # w => txn'[v] = txn[v]
  BY DEF IInv, Types
<1>4. LocksAreExclusive'
  BY <1>3 DEF LocksAreExclusive
<1>5. ASSUME NEW v \in Workers, v # w PROVE TxnIsSound(v)'
  BY <1>2, <1>3, <1>5, TxnStays DEF IInv
<1> QED
  BY <1>1, <1>2, <1>4, <1>5 DEF IInv

\* A transaction that ends without a trace releases its locks (Fail, Refused).
LEMMA TxnEnds ==
  ASSUME IInv, NEW w \in Workers, End(w), config' = config, inbox' = inbox, ledger' = ledger,
         transfer' = transfer, told' = told, receipts' = receipts, count' = count
  PROVE  IInv'
<1>1. Idle \in TxnType /\ Idle.holds = {} /\ Idle.op = "idle"
  BY DEF Idle, TxnType, Places
<1>2. txn' = [txn EXCEPT ![w] = Idle] /\ txn'[w] = Idle
  BY DEF End, IInv, Types
<1>3. TxnIsSound(w)'
  BY <1>1, <1>2 DEF TxnIsSound, Idle
<1> QED
  BY <1>1, <1>2, <1>3, TxnMoves

-----------------------------------------------------------------------------
(* The invariant holds at the start.                                        *)

\* The rows before anything is created have their types.
LEMMA EmptyAmounts == Nothing \in Amounts /\ NoTransfer \in TransferType /\ NoCount \in CountType
<1>1. Nothing \in Amounts
  BY DEF Nothing, Amounts, Quantities
<1> QED
  BY <1>1 DEF NoTransfer, NoCount, TransferType, CountType, Places

\* The opening stocks are sound movements.
LEMMA OpeningIsSound == Init => LedgerIsSound
<1> SUFFICES ASSUME Init PROVE LedgerIsSound
  OBVIOUS
<1> DEFINE P == {q \in Locations \X Skus : Opening[q[1]][q[2]] > 0}
           Row(p) == Movement("manual", "opening", p[1], p[1], p[2], Opening[p[1]][p[2]])
<1>1. ledger = {Row(p) : p \in P}
  BY DEF Init
<1>2. IsFiniteSet(P)
  <2>1. IsFiniteSet(Locations \X Skus)
    BY FS_Product, InventoryAssumptions DEF InventoryAssumptions
  <2> QED
    BY <2>1, FS_Subset
<1>3. IsFiniteSet(ledger)
  <2> DEFINE f == [p \in P |-> Row(p)]
  <2>1. f \in Surjection(P, ledger)
    BY <1>1 DEF Surjection
  <2> QED
    BY <1>2, <2>1, FS_Surjection
<1>4. \A p \in P : /\ p = <<p[1], p[2]>> /\ p[1] \in Locations /\ p[2] \in Skus
                  /\ Opening[p[1]][p[2]] \in Int \ {0}
  <2>1. ASSUME NEW p \in P PROVE p = <<p[1], p[2]>> /\ p[1] \in Locations /\ p[2] \in Skus
    OBVIOUS
  <2>2. ASSUME NEW p \in P PROVE Opening[p[1]][p[2]] \in Int \ {0}
    <3>1. Opening[p[1]] \in [Skus -> Int]
      BY <2>1, InventoryAssumptions DEF InventoryAssumptions, Quantities
    <3>2. Opening[p[1]][p[2]] \in Int /\ Opening[p[1]][p[2]] > 0
      BY <2>1, <3>1
    <3> QED
      BY <3>2
  <2> QED
    BY <2>1, <2>2
<1>5. \A p \in P : /\ IsRow(Row(p)) /\ Row(p).kind = "manual"
                  /\ Row(p).by = p[1] /\ Row(p).sku = p[2]
  BY <1>4 DEF Movement, IsRow
<1> HIDE DEF P, Row
<1>6. \A m, n \in ledger : SameKey(m, n) => m = n
  <2>1. ASSUME NEW p \in P, NEW q \in P, SameKey(Row(p), Row(q)) PROVE p = q
    BY <1>4, <1>5, <2>1 DEF SameKey
  <2> QED
    BY <1>1, <2>1
<1> QED
  BY <1>1, <1>3, <1>5, <1>6 DEF LedgerIsSound

\* The invariant holds at first.
LEMMA Initially == Init => IInv
<1> SUFFICES ASSUME Init PROVE IInv
  OBVIOUS
<1>1. \A kind, x : kind # "manual" => RowsOf(kind, x) = {}
  BY DEF Init, RowsOf, Movement
<1>2. Idle \in TxnType
  BY DEF Idle, TxnType, Places
<1>3. \A w \in Workers : txn[w] = Idle
  BY DEF Init
<1>4. Types
  BY <1>2, EmptyAmounts DEF Init, Types
<1>5. DocumentsAreSound
  <2>1. ASSUME NEW t \in Transfers PROVE TransferIsSound(t)
    <3>1. transfer[t] = NoTransfer /\ told[t] = NoTransfer
      BY DEF Init
    <3> QED
      BY <1>1, <3>1 DEF TransferIsSound, NoTransfer
  <2>2. ASSUME NEW n \in Counts PROVE CountIsSound(n)
    BY <1>1 DEF CountIsSound, Init, NoCount
  <2> QED
    BY <2>1, <2>2 DEF DocumentsAreSound
<1>6. LocksAreExclusive
  BY <1>3 DEF LocksAreExclusive, Idle
<1>7. \A w \in Workers : TxnIsSound(w)
  <2>1. Idle.op = "idle"
    BY DEF Idle
  <2> QED
    BY <1>3, <2>1 DEF TxnIsSound
<1> QED
  BY <1>4, <1>5, <1>6, <1>7, OpeningIsSound DEF IInv

-----------------------------------------------------------------------------
(* The steps that change neither the ledger nor a transaction.              *)

\* Mapping, recipes and the inbox of sales touch no stock.
LEMMA ConfigurationOrInbox ==
  ASSUME IInv, config' \in Configurations,
         inbox' \in [Sales -> {"none", "pending", "APPLIED", "EXCEPTION"}],
         UNCHANGED <<ledger, transfer, told, receipts, count, txn>>
  PROVE  IInv'
<1>1. LedgerIsSound' /\ DocumentsAreSound' /\ \A l, s : OnHand(l, s)' = OnHand(l, s)
  BY SameBooks DEF IInv
<1>2. Types'
  BY DEF IInv, Types
<1>3. LocksAreExclusive' /\ \A w \in Workers : TxnIsSound(w)'
  BY <1>1, AllTxnsStay DEF IInv
<1> QED
  BY <1>1, <1>2, <1>3 DEF IInv

\* A transfer that nobody dispatches, and that nothing was booked for.
LEMMA TransferChanges ==
  ASSUME IInv, NEW t \in Transfers, NEW x \in TransferType,
         transfer' = [transfer EXCEPT ![t] = x], told' = QueueTransfer(t, transfer'),
         UNCHANGED <<config, inbox, ledger, receipts, count, txn>>,
         \A w \in Workers : txn[w].op = "dispatch" => txn[w].of # t,
         transfer[t].state \notin {"IN_TRANSIT", "RECEIVED"},
         x.state \in {"REQUESTED", "ASSIGNED", "PICKING", "CANCELLED"},
         x.source \in Locations, x.destination \in Locations, Lines(x.requested) # {},
         x.received = Nothing
  PROVE  IInv'
<1>1. /\ transfer'[t] = x /\ told'[t] = x
      /\ \A u \in Transfers : u # t => transfer'[u] = transfer[u] /\ told'[u] = told[u]
      /\ \A n \in Counts : told'[n] = told[n]
      /\ told' = [y \in Transfers \cup Counts |-> told'[y]]
  <2>1. told = [y \in Transfers \cup Counts |-> told[y]] /\ transfer'[t] = x /\ t \notin Counts
    BY InventoryAssumptions DEF IInv, Types, InventoryAssumptions
  <2>2. told' = [told EXCEPT ![t] = x]
    BY <2>1 DEF QueueTransfer
  <2> QED
    BY <2>1, <2>2 DEF IInv, Types
<1>2. Types'
  BY <1>1 DEF IInv, Types
<1>3. LedgerIsSound' /\ (\A l, s : OnHand(l, s)' = OnHand(l, s))
      /\ \A kind, y : RowsOf(kind, y)' = RowsOf(kind, y)
  BY DEF IInv, LedgerIsSound, IsRow, SameKey, OnHand, RowsOf
<1>4. DocumentsAreSound'
  <2>1. TransferIsSound(t)'
    <3>1. RowsOf("out", t) = {} /\ RowsOf("in", t) = {}
      BY DEF IInv, DocumentsAreSound, TransferIsSound
    <3> QED
      BY <1>1, <1>3, <3>1 DEF TransferIsSound
  <2>2. ASSUME NEW u \in Transfers, u # t PROVE TransferIsSound(u)'
    BY <1>1, <1>3, <2>2, TransferStays DEF IInv, DocumentsAreSound
  <2>3. ASSUME NEW n \in Counts PROVE CountIsSound(n)'
    BY <1>1, <1>3, CountStays DEF IInv, DocumentsAreSound
  <2> QED
    BY <2>1, <2>2, <2>3 DEF DocumentsAreSound
<1>5. ASSUME NEW w \in Workers PROVE TxnIsSound(w)'
  <2>1. txn[w].op = "dispatch" => transfer'[txn[w].of] = transfer[txn[w].of]
    <3>1. txn[w].op = "dispatch" => txn[w].of \in Transfers
      BY DEF IInv, TxnIsSound, DispatchIsSound
    <3> QED
      BY <1>1, <3>1
  <2> QED
    BY <1>3, <2>1, TxnStays DEF IInv
<1> QED
  BY <1>2, <1>3, <1>4, <1>5 DEF IInv, LocksAreExclusive

\* create: a transfer without movements.
LEMMA TransferIsCreated ==
  ASSUME IInv, NEW t \in Transfers, CreateTransfer(t)
  PROVE  IInv'
<1>1. PICK r \in Requests :
         /\ ParsedTransfer(r.requested)
         /\ transfer' = [transfer EXCEPT ![t] =
                [state |-> "REQUESTED", source |-> r.source, destination |-> r.destination,
                 requested |-> r.requested, received |-> Nothing]]
  BY DEF CreateTransfer
<1>2. r.source \in Locations /\ r.destination \in Locations /\ r.requested \in Quantities
  BY InventoryAssumptions DEF InventoryAssumptions
<1>3. r.requested \in Amounts /\ Lines(r.requested) # {}
  <2>1. \A s \in Skus : r.requested[s] \in Int
    BY <1>2 DEF Quantities
  <2>2. \A s \in Skus : r.requested[s] >= 0
    BY <1>1, <2>1 DEF ParsedTransfer, PositiveLines, Lines
  <2> QED
    BY <1>1, <1>2, <2>2 DEF Amounts, ParsedTransfer, PositiveLines
<1> DEFINE x == [state |-> "REQUESTED", source |-> r.source, destination |-> r.destination,
                 requested |-> r.requested, received |-> Nothing]
<1>4. /\ x \in TransferType /\ x.state = "REQUESTED"
      /\ x.source \in Locations /\ x.destination \in Locations
      /\ Lines(x.requested) # {} /\ x.received = Nothing
  BY <1>2, <1>3, EmptyAmounts DEF TransferType, Places
<1>5. transfer' = [transfer EXCEPT ![t] = x]
  BY <1>1
<1> HIDE DEF x
<1>6. \A w \in Workers : txn[w].op = "dispatch" => txn[w].of # t
  BY DEF IInv, TxnIsSound, DispatchIsSound, CreateTransfer
<1> QED
  BY <1>4, <1>5, <1>6, TransferChanges DEF CreateTransfer

\* submit, approve, cancel: states in which nothing moves.
LEMMA TransferMovesOn ==
  ASSUME IInv, NEW t \in Transfers, SimpleTransition(t)
  PROVE  IInv'
<1>1. PICK to \in {"ASSIGNED", "PICKING", "CANCELLED"} :
         /\ <<transfer[t].state, to>> \in Transitions
         /\ transfer' = [transfer EXCEPT ![t].state = to]
  BY DEF SimpleTransition
<1>2. transfer[t].state \in {"REQUESTED", "ASSIGNED", "PICKING"}
  BY <1>1 DEF Transitions
<1>3. transfer \in [Transfers -> TransferType] /\ TransferIsSound(t)
  BY DEF IInv, Types, DocumentsAreSound
<1> DEFINE x == [transfer[t] EXCEPT !.state = to]
<1>4. /\ x \in TransferType /\ x.state = to
      /\ x.source = transfer[t].source /\ x.destination = transfer[t].destination
      /\ x.requested = transfer[t].requested /\ x.received = transfer[t].received
  BY <1>3 DEF TransferType
<1>5. transfer' = [transfer EXCEPT ![t] = x]
  BY <1>1, <1>3
<1> HIDE DEF x
<1>6. \A w \in Workers : txn[w].op = "dispatch" => txn[w].of # t
  BY DEF SimpleTransition, RowFree
<1>7. x.source \in Locations /\ x.destination \in Locations /\ Lines(x.requested) # {}
      /\ x.received = Nothing
  BY <1>2, <1>3, <1>4 DEF TransferIsSound
<1> QED
  BY <1>1, <1>2, <1>4, <1>5, <1>6, <1>7, TransferChanges DEF SimpleTransition

\* open: the count has its place, its lines and no movements.
LEMMA CountIsOpened ==
  ASSUME IInv, NEW n \in Counts, OpenCount(n)
  PROVE  IInv'
<1>1. PICK f \in Findings :
         /\ ParsedCount(f.counted)
         /\ count' = [count EXCEPT ![n] =
                [state |-> "OPEN", location |-> f.location, counted |-> f.counted]]
  BY DEF OpenCount
<1>2. f.location \in Locations /\ f.counted \in Amounts
  BY <1>1, InventoryAssumptions DEF InventoryAssumptions, Amounts, ParsedCount
<1> DEFINE x == [state |-> "OPEN", location |-> f.location, counted |-> f.counted]
<1>3. x \in CountType /\ x.state = "OPEN" /\ x.location \in Locations
  BY <1>2 DEF CountType, Places
<1>4. count' = [count EXCEPT ![n] = x]
  BY <1>1
<1> HIDE DEF x
<1>5. count'[n] = x /\ \A k \in Counts : k # n => count'[k] = count[k]
  BY <1>4 DEF IInv, Types
<1>6. UNCHANGED <<config, inbox, ledger, transfer, told, receipts, txn>> /\ count[n].state = "NONE"
  BY DEF OpenCount
<1>7. Types'
  BY <1>3, <1>4, <1>6 DEF IInv, Types
<1>8. LedgerIsSound' /\ (\A l, s : OnHand(l, s)' = OnHand(l, s))
      /\ \A kind, y : RowsOf(kind, y)' = RowsOf(kind, y)
  BY <1>6 DEF IInv, LedgerIsSound, IsRow, SameKey, OnHand, RowsOf
<1>9. DocumentsAreSound'
  <2>1. ASSUME NEW u \in Transfers PROVE TransferIsSound(u)'
    BY <1>6, <1>8, TransferStays DEF IInv, DocumentsAreSound
  <2>2. ASSUME NEW k \in Counts, k # n PROVE CountIsSound(k)'
    BY <1>5, <1>6, <1>8, <2>2, CountStays DEF IInv, DocumentsAreSound
  <2>3. CountIsSound(n)'
    <3>1. RowsOf("count", n) = {}
      BY <1>6 DEF IInv, DocumentsAreSound, CountIsSound
    <3> QED
      BY <1>3, <1>5, <1>8, <3>1 DEF CountIsSound
  <2> QED
    BY <2>1, <2>2, <2>3 DEF DocumentsAreSound
<1>10. ASSUME NEW w \in Workers PROVE TxnIsSound(w)'
  <2>1. txn[w].op = "close" => count'[txn[w].of] = count[txn[w].of]
    <3>1. txn[w].op = "close" => txn[w].of \in Counts /\ txn[w].of # n
      BY <1>6 DEF IInv, TxnIsSound, CloseIsSound
    <3> QED
      BY <1>5, <3>1
  <2> QED
    BY <1>6, <1>8, <2>1, TxnStays DEF IInv
<1> QED
  BY <1>6, <1>7, <1>8, <1>9, <1>10 DEF IInv, LocksAreExclusive

-----------------------------------------------------------------------------
(* The requests that write the ledger in one step.                          *)

\* They touch only stocks that no transaction holds.
LEMMA HeldStocksStay ==
  ASSUME txn' = txn, NEW D, ledger' = ledger \cup D, NEW l, NEW S, StockFree(l, S),
         \A m \in D : m.location = l /\ m.sku \in S
  PROVE  \A w \in Workers : \A s \in txn[w].holds : OnHand(txn[w].at, s)' = OnHand(txn[w].at, s)
<1> SUFFICES ASSUME NEW w \in Workers, NEW s \in txn[w].holds
             PROVE  OnHand(txn[w].at, s)' = OnHand(txn[w].at, s)
  OBVIOUS
<1>1. \A m \in D : m.location # txn[w].at \/ m.sku # s
  BY DEF StockFree, HeldBy
<1>2. {m \in ledger' : m.location = txn[w].at /\ m.sku = s}
        = {m \in ledger : m.location = txn[w].at /\ m.sku = s}
  BY <1>1
<1> QED
  BY <1>2 DEF OnHand

\* A single movement on a stock that nobody holds.
LEMMA OneMovementMore ==
  ASSUME IInv, NEW d, IsRow(d), d.kind \in {"manual", "reversal"},
         \A n \in ledger : ~SameKey(d, n), StockFree(d.location, {d.sku}),
         ledger' = ledger \cup {d},
         UNCHANGED <<config, inbox, transfer, told, receipts, count, txn>>
  PROVE  IInv'
<1> DEFINE D == {d}
<1>0. ledger' = ledger \cup D /\ \A m \in D : m = d
  OBVIOUS
<1>1. IsFiniteSet(D)
  BY FS_Singleton
<1> HIDE DEF D
<1>2. Types'
  BY DEF IInv, Types
<1>3. LedgerIsSound'
  BY <1>0, <1>1, LedgerGrows DEF IInv
<1>4. \A kind, x : kind \in {"out", "in", "count"} => RowsOf(kind, x)' = RowsOf(kind, x)
  BY <1>0, RowsStay
<1>5. DocumentsAreSound'
  BY <1>4, TransferStays, CountStays DEF IInv, DocumentsAreSound
<1>6. \A w \in Workers : \A s \in txn[w].holds : OnHand(txn[w].at, s)' = OnHand(txn[w].at, s)
  BY <1>0, HeldStocksStay
<1>7. LocksAreExclusive' /\ \A w \in Workers : TxnIsSound(w)'
  BY <1>6, AllTxnsStay DEF IInv
<1> QED
  BY <1>2, <1>3, <1>5, <1>7 DEF IInv

\* post: an opening, adjustment or wastage by hand.
LEMMA ManualIsPosted ==
  ASSUME IInv, NEW m \in Manuals, PostManual(m)
  PROVE  IInv'
<1>1. PICK p \in Postings :
         /\ p.delta # 0 /\ StockFree(p.location, {p.sku})
         /\ ledger' = ledger \cup {Movement("manual", m, NoLocation, p.location, p.sku, p.delta)}
  BY DEF PostManual, ParsedMovement
<1> DEFINE d == Movement("manual", m, NoLocation, p.location, p.sku, p.delta)
<1>2. p.location \in Locations /\ p.sku \in Skus /\ p.delta \in Int \ {0}
  BY <1>1, InventoryAssumptions DEF InventoryAssumptions
<1>3. IsRow(d) /\ d.kind = "manual" /\ d.of = m /\ d.location = p.location /\ d.sku = p.sku
  BY <1>2 DEF Movement, IsRow
<1>4. ledger' = ledger \cup {d}
  BY <1>1
<1> HIDE DEF d
<1>5. \A n \in ledger : ~SameKey(d, n)
  BY <1>3 DEF PostManual, SameKey
<1> QED
  BY <1>1, <1>3, <1>4, <1>5, OneMovementMore DEF PostManual

\* reverse: one reversal for each movement, which takes it back.
LEMMA ReversalIsPosted ==
  ASSUME IInv, NEW m \in ledger, PostReversal(m)
  PROVE  IInv'
<1> DEFINE d == Movement("reversal", m, NoLocation, m.location, m.sku, -m.delta)
<1>1. m.location \in Locations /\ m.sku \in Skus /\ -m.delta \in Int \ {0}
  BY Negative DEF IInv, LedgerIsSound, IsRow
<1>2. IsRow(d) /\ d.kind = "reversal" /\ d.of = m /\ d.location = m.location /\ d.sku = m.sku
  BY <1>1 DEF Movement, IsRow
<1>3. ledger' = ledger \cup {d}
  BY DEF PostReversal
<1> HIDE DEF d
<1>4. \A n \in ledger : ~SameKey(d, n)
  BY <1>2 DEF PostReversal, SameKey, RowsOf
<1>5. StockFree(d.location, {d.sku})
  BY <1>2 DEF PostReversal
<1> QED
  BY <1>2, <1>3, <1>4, <1>5, OneMovementMore DEF PostReversal

\* The movements of a receipt: what arrived, at the destination.
LEMMA InMovesAre ==
  ASSUME NEW t, NEW r, NEW q, \A s \in Lines(q) : q[s] \in Int \ {0}
  PROVE  /\ \A m \in InMoves(t, r, q) :
              /\ m.kind = "in" /\ m.of = t /\ m.by = r /\ m.location = transfer[t].destination
              /\ m.sku \in Lines(q) /\ m.delta = q[m.sku]
         /\ OnePerSku(InMoves(t, r, q))
         /\ \A s \in Lines(q) : \E m \in InMoves(t, r, q) : m.sku = s
<1> DEFINE Row(s) == Movement("in", t, r, transfer[t].destination, s, q[s])
<1>1. \A s \in Lines(q) :
         /\ Row(s).kind = "in" /\ Row(s).of = t /\ Row(s).by = r
         /\ Row(s).location = transfer[t].destination /\ Row(s).sku = s /\ Row(s).delta = q[s]
  BY DEF Movement
<1>2. InMoves(t, r, q) = {Row(s) : s \in Lines(q)}
  BY DEF InMoves
<1> HIDE DEF Row
<1> QED
  BY <1>1, <1>2 DEF OnePerSku

\* What has arrived of a SKU once the movements D are added.
LEMMA ArrivedAfter ==
  ASSUME IInv, NEW t, NEW r, r \notin receipts, NEW q, \A s \in Lines(q) : q[s] \in Int \ {0},
         ledger' = ledger \cup InMoves(t, r, q), NEW s \in Skus
  PROVE  Arrived(t, s)' = Arrived(t, s) + q[s]
<1> DEFINE D == InMoves(t, r, q)
           R == {m \in RowsOf("in", t) : m.sku = s}
           T == {m \in RowsOf("in", t) \cup D : m.sku = s}
<1>1. /\ \A m \in D : /\ m.kind = "in" /\ m.of = t /\ m.by = r
                      /\ m.sku \in Lines(q) /\ m.delta = q[m.sku]
      /\ OnePerSku(D)
      /\ \A z \in Lines(q) : \E m \in D : m.sku = z
  BY InMovesAre
<1>2. IsFiniteSet(R) /\ \A m \in R : m.delta \in Int
  <2>1. R \subseteq ledger
    BY DEF RowsOf
  <2> QED
    BY <2>1, FS_Subset DEF IInv, LedgerIsSound, IsRow
<1>3. \A m \in D : m \notin R
  BY <1>1 DEF IInv, LedgerIsSound, RowsOf
<1>4. RowsOf("in", t)' = RowsOf("in", t) \cup D
  <2> HIDE DEF D
  <2>1. ledger' = ledger \cup D
    BY DEF D
  <2> QED
    BY <1>1, <2>1 DEF RowsOf
<1>5. Arrived(t, s) = SumOf(R) /\ Arrived(t, s)' = SumOf(T)
  BY <1>4 DEF Arrived
<1>6. SumOf(R) \in Int
  BY <1>2, SumOfType
<1>7. CASE s \in Lines(q)
  <2>1. PICK d \in D : d.sku = s
    BY <1>1, <1>7
  <2> HIDE DEF D
  <2>2. T = R \cup {d}
    BY <1>1, <2>1 DEF OnePerSku
  <2> HIDE DEF R, T
  <2>3. d.delta \in Int /\ d.delta = q[s] /\ d \notin R
    BY <1>1, <1>3, <1>7, <2>1
  <2>4. SumOf(R \cup {d}) = SumOf(R) + d.delta
    BY <1>2, <2>3, SumOfMore
  <2> QED
    BY <1>5, <2>2, <2>3, <2>4
<1>8. CASE s \notin Lines(q)
  <2> HIDE DEF D
  <2>1. T = R
    BY <1>1, <1>8
  <2> HIDE DEF R, T
  <2>2. q[s] = 0
    BY <1>8 DEF Lines
  <2> QED
    BY <1>5, <1>6, <2>1, <2>2
<1> QED
  BY <1>7, <1>8

\* receive: no more than is under way, and the state follows what has arrived.
LEMMA ReceiptIsBooked ==
  ASSUME IInv, NEW t \in Transfers, NEW r \in Receipts, Receive(t, r)
  PROVE  IInv'
<1> DEFINE x == transfer[t]
           Got(q) == [s \in Skus |-> x.received[s] + q[s]]
           After(q) == [x EXCEPT !.received = Got(q),
                                 !.state = IF Got(q) = x.requested THEN "RECEIVED" ELSE "IN_TRANSIT"]
<1>1. /\ x \in TransferType /\ TransferIsSound(t) /\ x.state = "IN_TRANSIT"
      /\ transfer \in [Transfers -> TransferType]
  BY DEF IInv, Types, DocumentsAreSound, Receive
<1>2. PICK q \in [Skus -> -1..1] :
         /\ ParsedReceipt(q)
         /\ \A s \in Skus : x.received[s] + q[s] <= x.requested[s]
         /\ StockFree(x.destination, Lines(q))
         /\ ledger' = ledger \cup InMoves(t, r, q)
         /\ transfer' = [transfer EXCEPT ![t].received = Got(q),
                ![t].state = IF Got(q) = x.requested THEN "RECEIVED" ELSE "IN_TRANSIT"]
  BY DEF Receive
<1>3. /\ \A s \in Skus : x.requested[s] \in Int /\ x.received[s] \in Int /\ x.received[s] >= 0
      /\ x.source \in Locations /\ x.destination \in Locations
  BY <1>1 DEF TransferType, Amounts, Quantities, TransferIsSound
<1>4. \A s \in Skus : q[s] \in Int /\ q[s] >= 0 /\ (q[s] # 0 <=> s \in Lines(q))
  BY <1>2 DEF ParsedReceipt, PositiveLines, Lines
<1>5. \A s \in Lines(q) : s \in Skus /\ q[s] \in Int \ {0}
  BY <1>4 DEF Lines
<1> DEFINE g == Got(q)
           y == After(q)
<1>6. /\ g \in Amounts
      /\ \A s \in Skus : g[s] = x.received[s] + q[s] /\ g[s] <= x.requested[s]
  <2>1. \A s \in Skus : g[s] = x.received[s] + q[s] /\ g[s] \in Int /\ g[s] >= 0
    BY <1>3, <1>4
  <2> QED
    BY <1>2, <2>1 DEF Amounts, Quantities
<1>7. transfer' = [transfer EXCEPT ![t] = y]
  BY <1>1, <1>2
<1>8. /\ y \in TransferType /\ y.received = g /\ y.requested = x.requested
      /\ y.source = x.source /\ y.destination = x.destination
      /\ y.state = IF g = x.requested THEN "RECEIVED" ELSE "IN_TRANSIT"
  <2> HIDE DEF g, Got
  <2>1. y = [x EXCEPT !.received = g,
                      !.state = IF g = x.requested THEN "RECEIVED" ELSE "IN_TRANSIT"]
    BY DEF g
  <2> HIDE DEF x, y
  <2> QED
    BY <1>1, <1>6, <2>1 DEF TransferType
<1> HIDE DEF g, y, Got, After
<1> DEFINE D == InMoves(t, r, q)
<1>9. /\ \A m \in D : /\ m.kind = "in" /\ m.of = t /\ m.by = r /\ m.location = x.destination
                      /\ m.sku \in Lines(q) /\ m.delta = q[m.sku]
      /\ OnePerSku(D)
  BY <1>5, InMovesAre
<1>10. ledger' = ledger \cup D /\ \A s \in Skus : Arrived(t, s)' = Arrived(t, s) + q[s]
  BY <1>2, <1>5, ArrivedAfter DEF Receive
<1>11. IsFiniteSet(D) /\ \A m \in D : IsRow(m)
  <2> HIDE DEF D, x
  <2>1. \A m \in D : IsRow(m)
    BY <1>3, <1>5, <1>9 DEF IsRow
  <2> QED
    BY <2>1, <1>9, OnePerSkuIsFinite DEF IsRow
<1>12. StockFree(x.destination, Lines(q)) /\ r \notin receipts
  BY <1>2 DEF Receive
<1>13. UNCHANGED <<config, inbox, count, txn>> /\ receipts' = receipts \cup {r}
       /\ RowFree(t) /\ told' = QueueTransfer(t, transfer')
  BY DEF Receive
<1> HIDE DEF D, x
<1>14. LedgerIsSound'
  <2>1. \A m, n \in D : SameKey(m, n) => m = n
    BY <1>9 DEF SameKey, OnePerSku
  <2>2. \A m \in D, n \in ledger : SameKey(m, n) => m = n
    BY <1>9, <1>12 DEF SameKey, IInv, LedgerIsSound
  <2>3. receipts \subseteq receipts' /\ \A m \in D : m.kind = "in" => m.by \in receipts'
    BY <1>9, <1>13
  <2> QED
    BY <1>10, <1>11, <2>1, <2>2, <2>3, LedgerGrows DEF IInv
<1>15. /\ transfer'[t] = y /\ told'[t] = y
       /\ \A u \in Transfers : u # t => transfer'[u] = transfer[u] /\ told'[u] = told[u]
       /\ \A n \in Counts : told'[n] = told[n]
       /\ told' = [z \in Transfers \cup Counts |-> told'[z]]
  <2>1. told = [z \in Transfers \cup Counts |-> told[z]] /\ transfer'[t] = y /\ t \notin Counts
    BY <1>7, InventoryAssumptions DEF IInv, Types, InventoryAssumptions
  <2>2. told' = [told EXCEPT ![t] = y]
    BY <1>13, <2>1 DEF QueueTransfer
  <2> QED
    BY <1>7, <2>1, <2>2 DEF IInv, Types
<1>16. Types'
  BY <1>7, <1>8, <1>13, <1>15 DEF IInv, Types
<1>17. DocumentsAreSound'
  <2>1. /\ \A u : RowsOf("out", u)' = RowsOf("out", u) /\ RowsOf("count", u)' = RowsOf("count", u)
        /\ \A u : u # t => RowsOf("in", u)' = RowsOf("in", u)
    BY <1>9, <1>10 DEF RowsOf
  <2>2. ASSUME NEW u \in Transfers, u # t PROVE TransferIsSound(u)'
    BY <1>15, <2>1, <2>2, TransferStays DEF IInv, DocumentsAreSound
  <2>3. ASSUME NEW n \in Counts PROVE CountIsSound(n)'
    BY <1>13, <1>15, <2>1, CountStays DEF IInv, DocumentsAreSound
  <2>4. TransferIsSound(t)'
    <3>1. OutMoves(t)' = OutMoves(t)
      BY <1>8, <1>15 DEF OutMoves, x
    <3>2. /\ RowsOf("out", t) = OutMoves(t) /\ Lines(x.requested) # {}
          /\ \A s \in Skus : Arrived(t, s) = x.received[s]
      BY <1>1 DEF TransferIsSound, x
    <3>3. \A s \in Skus : Arrived(t, s)' = g[s] /\ g[s] <= x.requested[s]
      BY <1>6, <1>10, <3>2
    <3> QED
      BY <1>3, <1>8, <1>15, <2>1, <3>1, <3>2, <3>3 DEF TransferIsSound
  <2> QED
    BY <2>2, <2>3, <2>4 DEF DocumentsAreSound
<1>18. LocksAreExclusive' /\ \A w \in Workers : TxnIsSound(w)'
  <2>1. \A w \in Workers : \A s \in txn[w].holds : OnHand(txn[w].at, s)' = OnHand(txn[w].at, s)
    BY <1>9, <1>10, <1>12, <1>13, HeldStocksStay
  <2>2. \A w \in Workers : txn[w].op = "dispatch" => transfer'[txn[w].of] = transfer[txn[w].of]
    <3>1. \A w \in Workers : txn[w].op = "dispatch" => txn[w].of \in Transfers /\ txn[w].of # t
      BY <1>13 DEF IInv, TxnIsSound, DispatchIsSound, RowFree
    <3> QED
      BY <1>15, <3>1
  <2> QED
    BY <1>13, <2>1, <2>2, AllTxnsStay DEF IInv
<1> QED
  BY <1>14, <1>16, <1>17, <1>18 DEF IInv

-----------------------------------------------------------------------------
(* The steps of a transaction before it commits.                            *)

\* consumeOne reads the mapping before it holds a lock.
LEMMA SaleBegins ==
  ASSUME IInv, NEW w \in Workers, NEW e \in Sales, ReadMapping(w, e)
  PROVE  IInv'
<1>1. CASE config.mapping = NoLocation
  <2>1. inbox' \in [Sales -> {"none", "pending", "APPLIED", "EXCEPTION"}]
        /\ config' \in Configurations
    BY <1>1 DEF ReadMapping, IInv, Types
  <2> QED
    BY <1>1, <2>1, ConfigurationOrInbox DEF ReadMapping
<1>2. CASE config.mapping # NoLocation
  <2> DEFINE x == Begin("sale", e, config.mapping, "mapped", <<>>)
  <2>1. config.mapping \in Locations
    BY <1>2, InventoryAssumptions DEF IInv, Types, Configurations, InventoryAssumptions
  <2>2. /\ x.op = "sale" /\ x.of = e /\ x.at = config.mapping /\ x.stage = "mapped"
        /\ x.wants = <<>> /\ x.holds = {} /\ x \in TxnType
    BY <2>1 DEF Begin, TxnType, Things, Places
  <2>3. txn' = [txn EXCEPT ![w] = x]
    BY <1>2 DEF ReadMapping
  <2> HIDE DEF x
  <2>4. txn'[w] = x
    BY <2>3 DEF IInv, Types
  <2>5. TxnIsSound(w)'
    <3>1. SaleIsSound(w)'
      BY <2>1, <2>2, <2>4 DEF SaleIsSound
    <3> QED
      BY <2>2, <2>4, <3>1 DEF TxnIsSound
  <2> QED
    BY <1>2, <2>2, <2>3, <2>5, TxnMoves DEF ReadMapping
<1> QED
  BY <1>1, <1>2

\* The SKUs that a transaction is to lock, in the order of SkuOrder.
LEMMA WantsAll ==
  ASSUME NEW S \in SUBSET Skus
  PROVE  /\ InOrder(SkuOrder, S) \in Seq(Skus)
         /\ S \subseteq Members(InOrder(SkuOrder, S))
<1>1. SkuOrder \in Seq(Skus) /\ Skus = Members(SkuOrder)
  BY InventoryAssumptions DEF InventoryAssumptions, Members
<1> QED
  BY <1>1, InOrderHasAll

\* A transaction that replaces some fields of its record.
LEMMA WhatATxnIs ==
  ASSUME IInv, NEW w \in Workers
  PROVE  /\ txn \in [Workers -> TxnType] /\ txn[w] \in TxnType /\ TxnIsSound(w)
         /\ txn[w].op \in {"idle", "sale", "dispatch", "close"}
         /\ txn[w].holds \in SUBSET Skus /\ txn[w].wants \in Seq(Skus)
         /\ txn[w].moves \in SUBSET Moves
         /\ Secured(w) = txn[w].holds \cup Members(txn[w].wants)
  BY DEF IInv, Types, TxnType, Secured, Members

\* ... and keeps its document and the stocks it holds.
LEMMA TxnGoesOn ==
  ASSUME IInv, NEW w \in Workers, NEW x \in TxnType, txn' = [txn EXCEPT ![w] = x],
         UNCHANGED tables, TxnIsSound(w)',
         x.op = txn[w].op, x.of = txn[w].of, x.at = txn[w].at, x.holds = txn[w].holds
  PROVE  IInv'
<1>1. \A v \in Workers : \A s \in x.holds : s \in txn[v].holds /\ txn[v].at = x.at => v = w
  BY WhatATxnIs DEF IInv, LocksAreExclusive
<1>2. x.op \in {"dispatch", "close"} =>
         \A v \in Workers : txn[v].op = x.op /\ txn[v].of = x.of => v = w
  BY DEF IInv, LocksAreExclusive
<1> QED
  BY <1>1, <1>2, TxnMoves DEF tables

\* The stage of a transaction says what its record means.
LEMMA TxnStages ==
  ASSUME NEW w \in Workers, TxnIsSound(w), txn[w].op \in {"idle", "sale", "dispatch", "close"}
  PROVE  /\ txn[w].op = "idle" => txn[w].stage = "none" /\ txn[w].wants = <<>>
         /\ txn[w].op = "sale" => SaleIsSound(w)
         /\ txn[w].op = "dispatch" => DispatchIsSound(w)
         /\ txn[w].op = "close" => CloseIsSound(w)
         /\ txn[w].stage = "mapped" => txn[w].op = "sale"
         /\ txn[w].stage \in {"locking", "decided"} => txn[w].op # "idle"
<1>1. Idle.stage = "none" /\ Idle.wants = <<>>
  BY DEF Idle
<1>2. txn[w].op = "idle" => txn[w] = Idle
  BY DEF TxnIsSound
<1>3. /\ txn[w].op = "sale" => SaleIsSound(w)
      /\ txn[w].op = "dispatch" => DispatchIsSound(w)
      /\ txn[w].op = "close" => CloseIsSound(w)
  BY DEF TxnIsSound
<1>4. txn[w].stage = "mapped" => txn[w].op = "sale"
  BY <1>1, <1>2, <1>3 DEF DispatchIsSound, CloseIsSound
<1> QED
  BY <1>1, <1>2, <1>3, <1>4

\* Then the recipe: the sale knows its movements and the locks it wants.
LEMMA RecipeIsRead ==
  ASSUME IInv, NEW w \in Workers, ReadRecipe(w)
  PROVE  IInv'
<1> DEFINE y == txn[w]
           moves == SaleMoves(y.of, y.at, config.recipe)
           skus == {m.sku : m \in moves}
           x == [y EXCEPT !.stage = "decided", !.moves = moves, !.wants = InOrder(SkuOrder, skus)]
<1>1. txn \in [Workers -> TxnType] /\ y \in TxnType /\ TxnIsSound(w) /\ y.stage = "mapped"
      /\ y.op \in {"idle", "sale", "dispatch", "close"}
  BY WhatATxnIs DEF ReadRecipe
<1>2. y.op = "sale" /\ SaleIsSound(w)
  BY <1>1, TxnStages
<1>3. y.of \in Sales /\ y.at \in Locations
  BY <1>2 DEF SaleIsSound
<1>4. config \in Configurations /\ config.recipe \in Quantities
  BY InventoryAssumptions DEF IInv, Types, Configurations, InventoryAssumptions
<1>5. moves \in SUBSET Moves
  <2>1. SaleMoves(y.of, y.at, config.recipe) \subseteq Moves
    <3> HIDE DEF y
    <3> QED
      BY <1>3, <1>4, SaleMovesAre
  <2> QED
    BY <2>1
<1>6. skus \in SUBSET Skus /\ \A m \in moves : m.sku \in skus
  <2> HIDE DEF moves
  <2> QED
    BY <1>5 DEF Moves
<1> HIDE DEF skus
<1>7. InOrder(SkuOrder, skus) \in Seq(Skus) /\ skus \subseteq Members(InOrder(SkuOrder, skus))
  BY <1>6, WantsAll
<1>8. txn' = [txn EXCEPT ![w] = x] /\ UNCHANGED tables
  BY <1>1 DEF ReadRecipe, skus
<1> DEFINE wants == InOrder(SkuOrder, skus)
<1>9. /\ x \in TxnType /\ x.op = "sale" /\ x.of = y.of /\ x.at = y.at /\ x.stage = "decided"
      /\ x.wants = wants /\ x.holds = y.holds /\ x.moves = moves
  <2> HIDE DEF moves, wants
  <2>1. x = [y EXCEPT !.stage = "decided", !.moves = moves, !.wants = wants]
    BY DEF wants
  <2>2. wants \in Seq(Skus)
    BY <1>7 DEF wants
  <2> HIDE DEF y, x
  <2> QED
    BY <1>1, <1>2, <1>5, <2>1, <2>2 DEF TxnType
<1> HIDE DEF x, wants
<1>10. txn'[w] = x
  BY <1>1, <1>8
<1>11. TxnIsSound(w)'
  <2>1. Secured(w)' = x.holds \cup Members(x.wants)
    BY <1>10 DEF Secured, Members
  <2>2. \A m \in x.moves : m.sku \in Secured(w)'
    BY <1>6, <1>7, <1>9, <2>1 DEF wants
  <2>3. \E c \in Configurations : x.moves = SaleMoves(x.of, x.at, c.recipe)
    BY <1>4, <1>9
  <2>4. SaleIsSound(w)'
    BY <1>3, <1>9, <1>10, <2>2, <2>3 DEF SaleIsSound
  <2> QED
    BY <1>9, <1>10, <2>4 DEF TxnIsSound
<1> QED
  BY <1>2, <1>8, <1>9, <1>11, TxnGoesOn

\* A dispatch holds its transfer from FOR UPDATE on.
LEMMA DispatchBegins ==
  ASSUME IInv, NEW w \in Workers, NEW t \in Transfers, BeginDispatch(w, t)
  PROVE  IInv'
<1> DEFINE q == transfer[t].requested
           wants == InOrder(SkuOrder, Lines(q))
           x == Begin("dispatch", t, transfer[t].source, "locking", wants)
<1>1. transfer[t].source \in Locations /\ transfer[t].state = "PICKING"
  BY DEF IInv, DocumentsAreSound, TransferIsSound, BeginDispatch
<1>2. Lines(q) \in SUBSET Skus
  BY DEF Lines
<1>3. wants \in Seq(Skus) /\ Lines(q) \subseteq Members(wants)
  BY <1>2, WantsAll
<1>4. txn' = [txn EXCEPT ![w] = x] /\ UNCHANGED tables /\ RowFree(t)
  BY DEF BeginDispatch
<1> HIDE DEF wants
<1>5. /\ x.op = "dispatch" /\ x.of = t /\ x.at = transfer[t].source /\ x.stage = "locking"
      /\ x.wants = wants /\ x.holds = {} /\ x \in TxnType
  BY <1>1, <1>3 DEF Begin, TxnType, Things, Places
<1> HIDE DEF x
<1>6. txn'[w] = x
  BY <1>4, WhatATxnIs
<1>7. TxnIsSound(w)'
  <2>1. Secured(w)' = x.holds \cup Members(x.wants)
    BY <1>6 DEF Secured, Members
  <2>2. transfer' = transfer
    BY <1>4 DEF tables
  <2>3. DispatchIsSound(w)'
    BY <1>1, <1>3, <1>5, <1>6, <2>1, <2>2 DEF DispatchIsSound
  <2> QED
    BY <1>5, <1>6, <2>3 DEF TxnIsSound
<1>8. \A v \in Workers : txn[v].op = x.op /\ txn[v].of = x.of => v = w
  BY <1>4, <1>5 DEF RowFree
<1> QED
  BY <1>4, <1>5, <1>7, <1>8, TxnMoves DEF tables

\* A close holds its count.
LEMMA CloseBegins ==
  ASSUME IInv, NEW w \in Workers, NEW n \in Counts, BeginClose(w, n)
  PROVE  IInv'
<1> DEFINE x == Begin("close", n, count[n].location, "locking", DbOrder)
<1>1. count[n].location \in Locations /\ count[n].state = "OPEN"
  BY DEF IInv, DocumentsAreSound, CountIsSound, BeginClose
<1>2. DbOrder \in Seq(Skus) /\ Skus = Members(DbOrder)
  BY InventoryAssumptions DEF InventoryAssumptions, Members
<1>3. txn' = [txn EXCEPT ![w] = x] /\ UNCHANGED tables /\ RowFree(n)
  BY DEF BeginClose
<1>4. /\ x.op = "close" /\ x.of = n /\ x.at = count[n].location /\ x.stage = "locking"
      /\ x.wants = DbOrder /\ x.holds = {} /\ x \in TxnType
  BY <1>1, <1>2 DEF Begin, TxnType, Things, Places
<1> HIDE DEF x
<1>5. txn'[w] = x
  BY <1>3, WhatATxnIs
<1>6. TxnIsSound(w)'
  <2>1. Secured(w)' = x.holds \cup Members(x.wants)
    BY <1>5 DEF Secured, Members
  <2>2. count' = count
    BY <1>3 DEF tables
  <2>3. CloseIsSound(w)'
    BY <1>1, <1>2, <1>4, <1>5, <2>1, <2>2 DEF CloseIsSound
  <2> QED
    BY <1>4, <1>5, <2>3 DEF TxnIsSound
<1>7. \A v \in Workers : txn[v].op = x.op /\ txn[v].of = x.of => v = w
  BY <1>3, <1>4 DEF RowFree
<1> QED
  BY <1>3, <1>4, <1>6, <1>7, TxnMoves DEF tables

\* Under all its locks a dispatch finds enough stock.
LEMMA DispatchIsDecided ==
  ASSUME IInv, NEW w \in Workers, DecideDispatch(w)
  PROVE  IInv'
<1> DEFINE y == txn[w]
           t == y.of
           q == transfer[t].requested
           x == [y EXCEPT !.stage = "decided", !.moves = OutMoves(t)]
<1>1. /\ txn \in [Workers -> TxnType] /\ y \in TxnType /\ UNCHANGED tables
      /\ y.op = "dispatch" /\ y.stage = "locking" /\ y.wants = <<>> /\ DispatchIsSound(w)
  BY WhatATxnIs, TxnStages DEF DecideDispatch
<1>2. CASE \A s \in Lines(q) : OnHand(y.at, s) >= q[s]
  <2>1. txn' = [txn EXCEPT ![w] = x]
    BY <1>1, <1>2 DEF DecideDispatch
  <2>2. t \in Transfers /\ transfer[t].source \in Locations
    BY <1>1 DEF DispatchIsSound, IInv, DocumentsAreSound, TransferIsSound
  <2>3. OutMoves(t) \in SUBSET Moves
    <3> HIDE DEF t
    <3> QED
      BY <2>2, OutMovesAre DEF IInv
  <2> DEFINE moves == OutMoves(t)
  <2> HIDE DEF moves
  <2>4. /\ x \in TxnType /\ x.op = "dispatch" /\ x.of = t /\ x.at = y.at /\ x.stage = "decided"
        /\ x.wants = <<>> /\ x.holds = y.holds /\ x.moves = moves
    <3>1. x = [y EXCEPT !.stage = "decided", !.moves = moves]
      BY DEF moves
    <3>2. moves \in SUBSET Moves
      BY <2>3 DEF moves
    <3>3. t = y.of
      OBVIOUS
    <3> HIDE DEF x, y, t
    <3> QED
      BY <1>1, <3>1, <3>2, <3>3 DEF TxnType
  <2> HIDE DEF x
  <2>5. txn'[w] = x
    BY <1>1, <2>1
  <2>6. TxnIsSound(w)'
    <3>1. Secured(w)' = Secured(w)
      BY <1>1, <2>4, <2>5 DEF Secured
    <3>2. /\ transfer' = transfer /\ \A l, s : OnHand(l, s)' = OnHand(l, s)
          /\ OutMoves(t)' = OutMoves(x.of)
      BY <1>1, <2>4, <2>5 DEF tables, OnHand, OutMoves
    <3>3. DispatchIsSound(w)'
      BY <1>1, <1>2, <2>4, <2>5, <3>1, <3>2 DEF DispatchIsSound, moves
    <3> QED
      BY <2>4, <2>5, <3>3 DEF TxnIsSound
  <2> QED
    BY <1>1, <2>1, <2>4, <2>6, TxnGoesOn
<1>3. CASE ~ \A s \in Lines(q) : OnHand(y.at, s) >= q[s]
  <2>1. End(w)
    BY <1>3 DEF DecideDispatch
  <2> QED
    BY <1>1, <2>1, TxnEnds DEF tables
<1> QED
  BY <1>2, <1>3

\* Under all its locks a close finds what is missing.
LEMMA CloseIsDecided ==
  ASSUME IInv, NEW w \in Workers, DecideClose(w)
  PROVE  IInv'
<1> DEFINE y == txn[w]
           n == y.of
           moves == AdjustMoves(n)
           x == [y EXCEPT !.stage = "decided", !.moves = moves]
<1>1. /\ txn \in [Workers -> TxnType] /\ y \in TxnType /\ UNCHANGED tables
      /\ y.op = "close" /\ y.stage = "locking" /\ y.wants = <<>> /\ CloseIsSound(w)
      /\ txn' = [txn EXCEPT ![w] = x]
  <2>1. UNCHANGED tables /\ y.op = "close" /\ y.stage = "locking" /\ y.wants = <<>>
    BY DEF DecideClose
  <2>2. txn \in [Workers -> TxnType] /\ y \in TxnType /\ CloseIsSound(w)
    BY <2>1, WhatATxnIs, TxnStages
  <2>3. txn' = [txn EXCEPT ![w] = x]
    BY <2>2 DEF DecideClose
  <2> QED
    BY <2>1, <2>2, <2>3
<1>2. n \in Counts /\ count[n].location \in Locations
  BY <1>1 DEF CloseIsSound, IInv, DocumentsAreSound, CountIsSound
<1>3. moves \in SUBSET Moves
  <2> HIDE DEF n
  <2> QED
    BY <1>2, AdjustMovesAre DEF IInv
<1> HIDE DEF moves
<1>4. /\ x \in TxnType /\ x.op = "close" /\ x.of = n /\ x.at = y.at /\ x.stage = "decided"
      /\ x.wants = <<>> /\ x.holds = y.holds /\ x.moves = moves
  <2>1. x = [y EXCEPT !.stage = "decided", !.moves = moves] /\ n = y.of
    OBVIOUS
  <2> HIDE DEF x, y, n
  <2> QED
    BY <1>1, <1>3, <2>1 DEF TxnType
<1> HIDE DEF x
<1>5. txn'[w] = x
  BY <1>1
<1>6. TxnIsSound(w)'
  <2>1. Secured(w)' = Secured(w)
    BY <1>1, <1>4, <1>5 DEF Secured
  <2>2. count' = count /\ (\A l, s : OnHand(l, s)' = OnHand(l, s))
        /\ AdjustMoves(n)' = AdjustMoves(x.of)
    <3>1. count' = count /\ ledger' = ledger
      BY <1>1 DEF tables
    <3>2. \A l, s : OnHand(l, s)' = OnHand(l, s)
      BY <3>1 DEF OnHand
    <3>3. txn'[w].of = txn[w].of /\ x.of = n
      BY <1>4, <1>5
    <3>4. AdjustMoves(n)' = AdjustMoves(n)
      BY <3>1, <3>2, <3>3 DEF AdjustMoves
    <3> QED
      BY <3>1, <3>2, <3>3, <3>4
  <2>3. CloseIsSound(w)'
    BY <1>1, <1>4, <1>5, <2>1, <2>2 DEF CloseIsSound, moves
  <2> QED
    BY <1>4, <1>5, <2>3 DEF TxnIsSound
<1> QED
  BY <1>1, <1>4, <1>6, TxnGoesOn

\* The next lock wanted and the rest are all that is wanted.
LEMMA HeadAndTail ==
  ASSUME NEW q \in Seq(Skus), q # <<>>
  PROVE  /\ Head(q) \in Skus /\ Tail(q) \in Seq(Skus)
         /\ Members(q) \subseteq {Head(q)} \cup Members(Tail(q))
<1>1. /\ Head(q) = q[1] /\ q[1] \in Skus /\ Tail(q) \in Seq(Skus)
      /\ DOMAIN q = 1..Len(q) /\ Len(q) \in Nat \ {0} /\ DOMAIN Tail(q) = 1..Len(q) - 1
      /\ \A i \in 1..Len(q) - 1 : Tail(q)[i] = q[i + 1]
  OBVIOUS
<1>2. ASSUME NEW i \in 1..Len(q), i # 1 PROVE q[i] \in Members(Tail(q))
  <2>1. i - 1 \in 1..Len(q) - 1 /\ (i - 1) + 1 = i
    BY <1>1, <1>2
  <2>2. Tail(q)[i - 1] = q[i]
    BY <1>1, <2>1
  <2> QED
    BY <1>1, <2>1, <2>2 DEF Members
<1> QED
  BY <1>1, <1>2 DEF Members

\* A lock is taken when nobody else holds it, so that holders stay exclusive.
LEMMA LockIsTaken ==
  ASSUME IInv, NEW w \in Workers, TakeLock(w)
  PROVE  IInv'
<1> DEFINE y == txn[w]
           h == Head(y.wants)
           x == [y EXCEPT !.wants = Tail(y.wants), !.holds = y.holds \cup {h}]
<1>1. /\ txn \in [Workers -> TxnType] /\ y \in TxnType /\ TxnIsSound(w)
      /\ y.op \in {"idle", "sale", "dispatch", "close"}
      /\ y.holds \in SUBSET Skus /\ y.wants \in Seq(Skus)
      /\ Secured(w) = y.holds \cup Members(y.wants)
  BY WhatATxnIs
<1>2. y.wants # <<>> /\ UNCHANGED tables /\ StockFree(y.at, {h})
  BY DEF TakeLock
<1>3. h \in Skus /\ Tail(y.wants) \in Seq(Skus) /\ Members(y.wants) \subseteq {h} \cup Members(Tail(y.wants))
  BY <1>1, <1>2, HeadAndTail
<1>4. txn' = [txn EXCEPT ![w] = x]
  BY <1>1 DEF TakeLock
<1>5. /\ x \in TxnType /\ x.op = y.op /\ x.of = y.of /\ x.at = y.at /\ x.stage = y.stage
      /\ x.wants = Tail(y.wants) /\ x.holds = y.holds \cup {h} /\ x.moves = y.moves
  <2> DEFINE rest == Tail(y.wants)
             held == y.holds \cup {h}
  <2>1. x = [y EXCEPT !.wants = rest, !.holds = held] /\ rest \in Seq(Skus) /\ held \in SUBSET Skus
    BY <1>1, <1>3
  <2> HIDE DEF x, rest, held
  <2>2. /\ x \in TxnType /\ x.op = y.op /\ x.of = y.of /\ x.at = y.at /\ x.stage = y.stage
        /\ x.wants = rest /\ x.holds = held /\ x.moves = y.moves
    <3> HIDE DEF y
    <3> QED
      BY <1>1, <2>1 DEF TxnType
  <2> QED
    BY <2>2 DEF rest, held
<1> HIDE DEF x, h
<1>6. txn'[w] = x
  BY <1>1, <1>4
<1>7. Secured(w) \subseteq Secured(w)'
  <2>1. Secured(w)' = x.holds \cup Members(x.wants)
    BY <1>6 DEF Secured, Members
  <2> QED
    BY <1>1, <1>3, <1>5, <2>1
<1>8. transfer' = transfer /\ count' = count
  BY <1>2 DEF tables
<1>9. TxnIsSound(w)'
  <2>1. CASE y.op = "idle"
    BY <1>1, <1>2, <2>1, TxnStages
  <2>2. CASE y.op = "sale"
    <3>1. SaleIsSound(w)
      BY <1>1, <2>2, TxnStages
    <3>2. SaleIsSound(w)'
      BY <1>2, <1>5, <1>6, <1>7, <3>1 DEF SaleIsSound
    <3> QED
      BY <1>5, <1>6, <2>2, <3>2 DEF TxnIsSound
  <2>3. CASE y.op = "dispatch"
    <3>1. DispatchIsSound(w) /\ y.stage = "locking"
      BY <1>1, <1>2, <2>3, TxnStages DEF DispatchIsSound
    <3>2. DispatchIsSound(w)'
      BY <1>5, <1>6, <1>7, <1>8, <3>1 DEF DispatchIsSound
    <3> QED
      BY <1>5, <1>6, <2>3, <3>2 DEF TxnIsSound
  <2>4. CASE y.op = "close"
    <3>1. CloseIsSound(w) /\ y.stage = "locking"
      BY <1>1, <1>2, <2>4, TxnStages DEF CloseIsSound
    <3>2. CloseIsSound(w)'
      BY <1>5, <1>6, <1>7, <1>8, <3>1 DEF CloseIsSound
    <3> QED
      BY <1>5, <1>6, <2>4, <3>2 DEF TxnIsSound
  <2> QED
    BY <1>1, <2>1, <2>2, <2>3, <2>4
<1>10. \A v \in Workers : \A s \in x.holds : s \in txn[v].holds /\ txn[v].at = x.at => v = w
  <2>1. ASSUME NEW v \in Workers, NEW s \in x.holds, s \in txn[v].holds, txn[v].at = x.at
        PROVE  v = w
    <3>1. CASE s = h
      BY <1>2, <1>5, <2>1, <3>1 DEF StockFree, HeldBy
    <3>2. CASE s \in y.holds
      BY <1>1, <1>5, <2>1, <3>2 DEF IInv, LocksAreExclusive
    <3> QED
      BY <1>5, <3>1, <3>2
  <2> QED
    BY <2>1
<1>11. x.op \in {"dispatch", "close"} =>
         \A v \in Workers : txn[v].op = x.op /\ txn[v].of = x.of => v = w
  BY <1>5 DEF IInv, LocksAreExclusive
<1> QED
  BY <1>2, <1>4, <1>5, <1>9, <1>10, <1>11, TxnMoves DEF tables

-----------------------------------------------------------------------------
(* A transaction commits.                                                   *)

KindOf(op) == CASE op = "sale" -> "sale" [] op = "dispatch" -> "out" [] op = "close" -> "count"

\* What is about to be written: one movement per SKU, on stocks that it holds.
LEMMA WhatCommits ==
  ASSUME IInv, NEW w \in Workers, txn[w].stage = "decided", txn[w].wants = <<>>
  PROVE  /\ txn[w].op \in {"sale", "dispatch", "close"}
         /\ txn[w].moves \subseteq Moves /\ OnePerSku(txn[w].moves) /\ IsFiniteSet(txn[w].moves)
         /\ \A m \in txn[w].moves :
              /\ m.kind = KindOf(txn[w].op) /\ m.of = txn[w].of
              /\ m.location = txn[w].at /\ m.sku \in txn[w].holds /\ IsRow(m)
<1> DEFINE y == txn[w]
<1>1. /\ y.op \in {"sale", "dispatch", "close"} /\ Secured(w) = y.holds
      /\ y.op = "sale" => SaleIsSound(w)
      /\ y.op = "dispatch" => DispatchIsSound(w)
      /\ y.op = "close" => CloseIsSound(w)
      /\ y.moves \subseteq Moves
  BY WhatATxnIs, TxnStages DEF Secured
<1>2. /\ OnePerSku(y.moves)
      /\ \A m \in y.moves : /\ m.kind = KindOf(y.op) /\ m.of = y.of
                            /\ m.location = y.at /\ m.sku \in y.holds
  <2>1. CASE y.op = "sale"
    <3>1. PICK c \in Configurations : y.moves = SaleMoves(y.of, y.at, c.recipe)
      BY <1>1, <2>1 DEF SaleIsSound
    <3>2. y.of \in Sales /\ y.at \in Locations /\ c.recipe \in Quantities
          /\ \A m \in y.moves : m.sku \in y.holds
      BY <1>1, <2>1, InventoryAssumptions DEF SaleIsSound, Configurations, InventoryAssumptions
    <3>3. KindOf(y.op) = "sale"
      BY <2>1 DEF KindOf
    <3> HIDE DEF y
    <3> QED
      BY <3>1, <3>2, <3>3, SaleMovesAre
  <2>2. CASE y.op = "dispatch"
    <3>1. /\ y.of \in Transfers /\ y.moves = OutMoves(y.of) /\ y.at = transfer[y.of].source
          /\ transfer[y.of].source \in Locations
          /\ Lines(transfer[y.of].requested) \subseteq y.holds
      BY <1>1, <2>2 DEF DispatchIsSound, IInv, DocumentsAreSound, TransferIsSound
    <3>2. KindOf(y.op) = "out"
      BY <2>2 DEF KindOf
    <3> HIDE DEF y
    <3>3. OnePerSku(OutMoves(y.of))
          /\ \A m \in OutMoves(y.of) :
               /\ m.kind = "out" /\ m.of = y.of /\ m.location = transfer[y.of].source
               /\ m.sku \in Lines(transfer[y.of].requested)
      BY <3>1, OutMovesAre DEF IInv
    <3> QED
      BY <3>1, <3>2, <3>3
  <2>3. CASE y.op = "close"
    <3>1. /\ y.of \in Counts /\ y.moves = AdjustMoves(y.of) /\ y.at = count[y.of].location
          /\ count[y.of].location \in Locations /\ Skus \subseteq y.holds
      BY <1>1, <2>3 DEF CloseIsSound, IInv, DocumentsAreSound, CountIsSound
    <3>2. KindOf(y.op) = "count"
      BY <2>3 DEF KindOf
    <3>3. \A m \in y.moves : m.sku \in Skus
      BY <1>1 DEF Moves
    <3> HIDE DEF y
    <3>4. OnePerSku(AdjustMoves(y.of))
          /\ \A m \in AdjustMoves(y.of) :
               m.kind = "count" /\ m.of = y.of /\ m.location = count[y.of].location
      BY <3>1, AdjustMovesAre DEF IInv
    <3> QED
      BY <3>1, <3>2, <3>3, <3>4
  <2> QED
    BY <1>1, <2>1, <2>2, <2>3
<1>3. \A m \in y.moves : IsRow(m) /\ m.sku \in Skus
  BY <1>1 DEF Moves, IsRow
<1>4. IsFiniteSet(y.moves)
  BY <1>2, <1>3, OnePerSkuIsFinite
<1> QED
  BY <1>1, <1>2, <1>3, <1>4

\* What every commit does: its movements appear at once, its locks are free,
\* and no stock that another transaction holds has changed.
LEMMA CommitWrites ==
  ASSUME IInv, NEW w \in Workers, Commit(w), ~Refused(txn[w].moves)
  PROVE  /\ LedgerIsSound'
         /\ ledger' = ledger \cup txn[w].moves /\ txn' = [txn EXCEPT ![w] = Idle]
         /\ \A kind, x : kind # KindOf(txn[w].op) \/ x # txn[w].of
                           => RowsOf(kind, x)' = RowsOf(kind, x)
         /\ \A v \in Workers : v # w =>
              /\ txn'[v] = txn[v]
              /\ \A s \in txn[v].holds : OnHand(txn[v].at, s)' = OnHand(txn[v].at, s)
<1> DEFINE D == txn[w].moves
<1>1. /\ txn[w].stage = "decided" /\ txn[w].wants = <<>>
      /\ ledger' = ledger \cup D /\ receipts' = receipts /\ txn' = [txn EXCEPT ![w] = Idle]
  BY DEF Commit, End
<1>2. /\ txn[w].op \in {"sale", "dispatch", "close"} /\ IsFiniteSet(D) /\ OnePerSku(D)
      /\ \A m \in D : /\ m.kind = KindOf(txn[w].op) /\ m.of = txn[w].of
                      /\ m.location = txn[w].at /\ m.sku \in txn[w].holds /\ IsRow(m)
  BY <1>1, WhatCommits
<1>3. \A m \in D, n \in ledger : SameKey(m, n) => m = n
  BY DEF Refused
<1>4. LedgerIsSound'
  <2>1. \A m, n \in D : SameKey(m, n) => m = n
    BY <1>2 DEF SameKey, OnePerSku
  <2>2. \A m \in D : m.kind # "in"
    BY <1>2 DEF KindOf
  <2> HIDE DEF D
  <2> QED
    BY <1>1, <1>2, <1>3, <2>1, <2>2, LedgerGrows DEF IInv
<1>5. ASSUME NEW kind, NEW x, kind # KindOf(txn[w].op) \/ x # txn[w].of
      PROVE  RowsOf(kind, x)' = RowsOf(kind, x)
  <2>1. \A m \in D : m.kind # kind \/ m.of # x
    BY <1>2, <1>5
  <2> HIDE DEF D
  <2> QED
    BY <1>1, <2>1, RowsStay
<1>6. ASSUME NEW v \in Workers, v # w, NEW s \in txn[v].holds
      PROVE  txn'[v] = txn[v] /\ OnHand(txn[v].at, s)' = OnHand(txn[v].at, s)
  <2>1. txn'[v] = txn[v]
    BY <1>1, <1>6 DEF IInv, Types
  <2>2. s \in Skus
    BY WhatATxnIs
  <2>3. \A m \in D : m.location # txn[v].at \/ m.sku # s
    BY <1>2, <1>6, <2>2 DEF IInv, LocksAreExclusive
  <2>4. {m \in ledger' : m.location = txn[v].at /\ m.sku = s}
          = {m \in ledger : m.location = txn[v].at /\ m.sku = s}
    BY <1>1, <2>3
  <2> QED
    BY <2>1, <2>4 DEF OnHand
<1>7. \A v \in Workers : v # w => txn'[v] = txn[v]
  BY <1>1 DEF IInv, Types
<1> QED
  BY <1>1, <1>4, <1>5, <1>6, <1>7

\* The other transactions, when the document of this one has changed.
LEMMA OthersStay ==
  ASSUME IInv, NEW w \in Workers, Commit(w), ~Refused(txn[w].moves),
         txn[w].op # "dispatch" => transfer' = transfer,
         txn[w].op = "dispatch" =>
            \A t \in Transfers : t # txn[w].of => transfer'[t] = transfer[t],
         txn[w].op # "close" => count' = count,
         txn[w].op = "close" => \A n \in Counts : n # txn[w].of => count'[n] = count[n]
  PROVE  LocksAreExclusive' /\ \A v \in Workers : TxnIsSound(v)'
<1>1. /\ txn' = [txn EXCEPT ![w] = Idle] /\ txn'[w] = Idle /\ Idle.op = "idle" /\ Idle.holds = {}
      /\ \A v \in Workers : v # w =>
           /\ txn'[v] = txn[v]
           /\ \A s \in txn[v].holds : OnHand(txn[v].at, s)' = OnHand(txn[v].at, s)
  BY CommitWrites DEF IInv, Types, Idle
<1>2. LocksAreExclusive'
  BY <1>1 DEF IInv, LocksAreExclusive
<1>3. TxnIsSound(w)'
  BY <1>1 DEF TxnIsSound
<1>4. ASSUME NEW v \in Workers, v # w PROVE TxnIsSound(v)'
  <2>1. TxnIsSound(v) /\ txn[v].op \in {"idle", "sale", "dispatch", "close"}
    BY WhatATxnIs
  <2>2. txn[v].op = "dispatch" => transfer'[txn[v].of] = transfer[txn[v].of]
    <3>1. txn[v].op = "dispatch" => txn[v].of \in Transfers
      BY <2>1, TxnStages DEF DispatchIsSound
    <3>2. txn[v].op = "dispatch" /\ txn[w].op = "dispatch" => txn[v].of # txn[w].of
      BY <1>4 DEF IInv, LocksAreExclusive
    <3> QED
      BY <3>1, <3>2
  <2>3. txn[v].op = "close" => count'[txn[v].of] = count[txn[v].of]
    <3>1. txn[v].op = "close" => txn[v].of \in Counts
      BY <2>1, TxnStages DEF CloseIsSound
    <3>2. txn[v].op = "close" /\ txn[w].op = "close" => txn[v].of # txn[w].of
      BY <1>4 DEF IInv, LocksAreExclusive
    <3> QED
      BY <3>1, <3>2
  <2> QED
    BY <1>1, <1>4, <2>1, <2>2, <2>3, TxnStays DEF IInv
<1> QED
  BY <1>2, <1>3, <1>4

\* The commit of a sale.
LEMMA SaleCommits ==
  ASSUME IInv, NEW w \in Workers, Commit(w), ~Refused(txn[w].moves), txn[w].op = "sale"
  PROVE  IInv'
<1>1. /\ transfer' = transfer /\ count' = count /\ told' = told /\ config' = config
      /\ receipts' = receipts /\ inbox' = [inbox EXCEPT ![txn[w].of] = "APPLIED"]
      /\ KindOf(txn[w].op) = "sale"
  BY DEF Commit, KindOf
<1>2. /\ LedgerIsSound' /\ txn' = [txn EXCEPT ![w] = Idle]
      /\ \A kind, x : kind # "sale" => RowsOf(kind, x)' = RowsOf(kind, x)
  BY <1>1, CommitWrites
<1>3. Idle \in TxnType
  BY DEF Idle, TxnType, Places
<1>4. Types'
  BY <1>1, <1>2, <1>3 DEF IInv, Types
<1>5. DocumentsAreSound'
  BY <1>1, <1>2, TransferStays, CountStays DEF IInv, DocumentsAreSound
<1>6. LocksAreExclusive' /\ \A v \in Workers : TxnIsSound(v)'
  BY <1>1, OthersStay
<1> QED
  BY <1>2, <1>4, <1>5, <1>6 DEF IInv

\* The commit of a dispatch, with its transfer and what the Cloud is told.
LEMMA DispatchCommits ==
  ASSUME IInv, NEW w \in Workers, Commit(w), ~Refused(txn[w].moves), txn[w].op = "dispatch",
         NEW t, t = txn[w].of
  PROVE  IInv'
<1> DEFINE x == [transfer[t] EXCEPT !.state = "IN_TRANSIT"]
<1>1. /\ transfer' = [transfer EXCEPT ![t].state = "IN_TRANSIT"] /\ told' = QueueTransfer(t, transfer')
      /\ UNCHANGED <<inbox, count, config, receipts>> /\ KindOf(txn[w].op) = "out"
      /\ txn[w].stage = "decided"
  BY DEF Commit, KindOf
<1>2. /\ t \in Transfers /\ transfer[t].state = "PICKING" /\ txn[w].moves = OutMoves(t)
      /\ transfer[t] \in TransferType /\ TransferIsSound(t)
  BY <1>1, WhatATxnIs, TxnStages DEF DispatchIsSound, IInv, Types, DocumentsAreSound
<1>3. /\ x \in TransferType /\ x.state = "IN_TRANSIT" /\ x.requested = transfer[t].requested
      /\ x.received = transfer[t].received /\ x.source = transfer[t].source
      /\ x.destination = transfer[t].destination
  <2> DEFINE y == transfer[t]
  <2>1. y \in TransferType /\ x = [y EXCEPT !.state = "IN_TRANSIT"]
    BY <1>2
  <2> HIDE DEF x, y
  <2>2. /\ x \in TransferType /\ x.state = "IN_TRANSIT" /\ x.requested = y.requested
        /\ x.received = y.received /\ x.source = y.source /\ x.destination = y.destination
    BY <2>1 DEF TransferType
  <2> QED
    BY <2>2 DEF y
<1>4. transfer' = [transfer EXCEPT ![t] = x]
  BY <1>1, <1>2 DEF IInv, Types
<1> HIDE DEF x
<1>5. /\ transfer'[t] = x /\ told'[t] = x
      /\ \A u \in Transfers : u # t => transfer'[u] = transfer[u] /\ told'[u] = told[u]
      /\ \A n \in Counts : told'[n] = told[n]
      /\ told' = [z \in Transfers \cup Counts |-> told'[z]]
  <2>1. told = [z \in Transfers \cup Counts |-> told[z]] /\ transfer'[t] = x /\ t \notin Counts
    BY <1>2, <1>4, InventoryAssumptions DEF IInv, Types, InventoryAssumptions
  <2>2. told' = [told EXCEPT ![t] = x]
    BY <1>1, <2>1 DEF QueueTransfer
  <2> QED
    BY <1>2, <1>4, <2>1, <2>2 DEF IInv, Types
<1>6. /\ LedgerIsSound' /\ txn' = [txn EXCEPT ![w] = Idle]
      /\ ledger' = ledger \cup OutMoves(t)
      /\ \A kind, y : kind # "out" \/ y # t => RowsOf(kind, y)' = RowsOf(kind, y)
  BY <1>1, <1>2, CommitWrites
<1>7. Idle \in TxnType
  BY DEF Idle, TxnType, Places
<1>8. Types'
  <2> QED
    BY <1>1, <1>2, <1>3, <1>4, <1>5, <1>6, <1>7 DEF IInv, Types
<1>9. TransferIsSound(t)'
  <2>1. /\ RowsOf("out", t) = {} /\ RowsOf("in", t) = {} /\ transfer[t].received = Nothing
        /\ transfer[t].source \in Locations /\ transfer[t].destination \in Locations
        /\ Lines(transfer[t].requested) # {}
    BY <1>2 DEF TransferIsSound
  <2>2. \A m \in OutMoves(t) : m.kind = "out" /\ m.of = t
    BY DEF OutMoves, Movement
  <2>3. RowsOf("out", t)' = OutMoves(t)
    BY <1>6, <2>1, <2>2 DEF RowsOf
  <2>4. OutMoves(t)' = OutMoves(t)
    BY <1>3, <1>5 DEF OutMoves
  <2>5. RowsOf("in", t)' = {}
    BY <1>6, <2>1
  <2>6. \A s \in Skus : Arrived(t, s)' = 0
    <3>1. \A s \in Skus : {m \in RowsOf("in", t)' : m.sku = s} = {}
      BY <2>5
    <3> QED
      BY <3>1, SumOfNone DEF Arrived
  <2>7. \A s \in Skus : x.received[s] = 0 /\ x.requested[s] \in Int /\ x.requested[s] >= 0
    BY <1>3, <2>1 DEF Nothing, TransferType, Amounts, Quantities
  <2>8. x.received # x.requested
    BY <1>3, <2>1, <2>7 DEF Lines
  <2> QED
    BY <1>3, <1>5, <2>1, <2>3, <2>4, <2>6, <2>7, <2>8 DEF TransferIsSound
<1>10. DocumentsAreSound'
  <2>1. ASSUME NEW u \in Transfers, u # t PROVE TransferIsSound(u)'
    BY <1>5, <1>6, <2>1, TransferStays DEF IInv, DocumentsAreSound
  <2>2. ASSUME NEW n \in Counts PROVE CountIsSound(n)'
    <3>1. RowsOf("count", n)' = RowsOf("count", n)
      BY <1>6
    <3> QED
      BY <1>1, <1>5, <3>1, CountStays DEF IInv, DocumentsAreSound
  <2> QED
    BY <1>9, <2>1, <2>2 DEF DocumentsAreSound
<1>11. LocksAreExclusive' /\ \A v \in Workers : TxnIsSound(v)'
  BY <1>1, <1>5, OthersStay
<1> QED
  BY <1>6, <1>8, <1>10, <1>11 DEF IInv

\* The commit of a close, with its count and what the Cloud is told.
LEMMA CloseCommits ==
  ASSUME IInv, NEW w \in Workers, Commit(w), ~Refused(txn[w].moves), txn[w].op = "close",
         NEW n, n = txn[w].of
  PROVE  IInv'
<1> DEFINE x == [count[n] EXCEPT !.state = "CLOSED"]
<1>1. /\ count' = [count EXCEPT ![n].state = "CLOSED"] /\ told' = QueueCount(n, ledger')
      /\ UNCHANGED <<inbox, transfer, config, receipts>> /\ KindOf(txn[w].op) = "count"
      /\ txn[w].stage = "decided"
  BY DEF Commit, KindOf
<1>2. n \in Counts /\ count[n].state = "OPEN" /\ count[n] \in CountType /\ CountIsSound(n)
  BY <1>1, WhatATxnIs, TxnStages DEF CloseIsSound, IInv, Types, DocumentsAreSound
<1>3. /\ x \in CountType /\ x.state = "CLOSED" /\ x.location = count[n].location
      /\ x.counted = count[n].counted
  BY <1>2 DEF CountType
<1>4. count' = [count EXCEPT ![n] = x]
  BY <1>1, <1>2 DEF IInv, Types
<1> HIDE DEF x
<1>5. /\ count'[n] = x /\ \A k \in Counts : k # n => count'[k] = count[k] /\ told'[k] = told[k]
      /\ told'[n] = [counted |-> count[n].counted, adjusted |-> RowsOf("count", n)']
      /\ \A u \in Transfers : told'[u] = told[u]
      /\ told' = [z \in Transfers \cup Counts |-> told'[z]]
  <2>1. told = [z \in Transfers \cup Counts |-> told[z]] /\ count'[n] = x /\ n \notin Transfers
    BY <1>2, <1>4, InventoryAssumptions DEF IInv, Types, InventoryAssumptions
  <2> DEFINE rows == RowsOf("count", n)'
             news == [counted |-> count[n].counted, adjusted |-> rows]
  <2>2. told' = [told EXCEPT ![n] = news]
    BY <1>1 DEF QueueCount, RowsOf
  <2> HIDE DEF news
  <2>3. told'[n] = news /\ (\A u \in Transfers : told'[u] = told[u])
        /\ (\A k \in Counts : k # n => told'[k] = told[k])
        /\ told' = [z \in Transfers \cup Counts |-> told'[z]]
    BY <1>2, <2>1, <2>2
  <2>4. \A k \in Counts : k # n => count'[k] = count[k]
    BY <1>4 DEF IInv, Types
  <2> QED
    BY <2>1, <2>3, <2>4 DEF news
<1>6. /\ LedgerIsSound' /\ txn' = [txn EXCEPT ![w] = Idle]
      /\ \A kind, y : kind # "count" \/ y # n => RowsOf(kind, y)' = RowsOf(kind, y)
  BY <1>1, CommitWrites
<1>7. Idle \in TxnType
  BY DEF Idle, TxnType, Places
<1>8. Types'
  BY <1>1, <1>2, <1>3, <1>4, <1>5, <1>6, <1>7 DEF IInv, Types
<1>9. DocumentsAreSound'
  <2>1. ASSUME NEW u \in Transfers PROVE TransferIsSound(u)'
    BY <1>1, <1>5, <1>6, <2>1, TransferStays DEF IInv, DocumentsAreSound
  <2>2. ASSUME NEW k \in Counts, k # n PROVE CountIsSound(k)'
    BY <1>5, <1>6, <2>2, CountStays DEF IInv, DocumentsAreSound
  <2>3. CountIsSound(n)'
    BY <1>2, <1>3, <1>5 DEF CountIsSound
  <2> QED
    BY <2>1, <2>2, <2>3 DEF DocumentsAreSound
<1>10. LocksAreExclusive' /\ \A v \in Workers : TxnIsSound(v)'
  BY <1>1, <1>5, OthersStay
<1> QED
  BY <1>6, <1>8, <1>9, <1>10 DEF IInv

\* A commit, or a key that is in use with other content.
LEMMA TransactionCommits ==
  ASSUME IInv, NEW w \in Workers, Commit(w)
  PROVE  IInv'
<1>1. CASE Refused(txn[w].moves)
  BY <1>1, TxnEnds DEF Commit
<1>2. CASE ~Refused(txn[w].moves)
  <2>1. txn[w].op \in {"sale", "dispatch", "close"}
    BY WhatCommits DEF Commit
  <2>2. CASE txn[w].op = "sale"
    BY <1>2, <2>2, SaleCommits
  <2>3. CASE txn[w].op = "dispatch"
    BY <1>2, <2>3, DispatchCommits
  <2>4. CASE txn[w].op = "close"
    BY <1>2, <2>4, CloseCommits
  <2> QED
    BY <2>1, <2>2, <2>3, <2>4
<1> QED
  BY <1>1, <1>2

-----------------------------------------------------------------------------
(* The invariant, for every execution.                                      *)

\* Every action of the specification keeps the invariant.
LEMMA EveryStepKeepsIt == IInv /\ [Next]_vars => IInv'
<1> SUFFICES ASSUME IInv, [Next]_vars PROVE IInv'
  OBVIOUS
<1>1. CASE InstallConfiguration
  <2>1. inbox' \in [Sales -> {"none", "pending", "APPLIED", "EXCEPTION"}]
    BY <1>1 DEF InstallConfiguration, IInv, Types
  <2> QED
    BY <1>1, <2>1, ConfigurationOrInbox DEF InstallConfiguration
<1>2. CASE \E e \in Sales : StoreSale(e)
  <2>1. PICK e \in Sales : StoreSale(e)
    BY <1>2
  <2>2. inbox' \in [Sales -> {"none", "pending", "APPLIED", "EXCEPTION"}]
        /\ config' \in Configurations
    BY <2>1 DEF StoreSale, IInv, Types
  <2> QED
    BY <2>1, <2>2, ConfigurationOrInbox DEF StoreSale
<1>3. CASE \E e \in Sales : ReconcileSale(e)
  <2>1. Loop \in Workers
    BY InventoryAssumptions DEF InventoryAssumptions
  <2> QED
    BY <1>3, <2>1, SaleBegins DEF ReconcileSale
<1>4. CASE \E w \in Workers, e \in Sales : DeliverSale(w, e)
  BY <1>4, SaleBegins DEF DeliverSale
<1>5. CASE \E t \in Transfers : CreateTransfer(t) \/ SimpleTransition(t)
  BY <1>5, TransferIsCreated, TransferMovesOn
<1>6. CASE \E t \in Transfers, r \in Receipts : Receive(t, r)
  BY <1>6, ReceiptIsBooked
<1>7. CASE \E w \in Workers, t \in Transfers : BeginDispatch(w, t)
  BY <1>7, DispatchBegins
<1>8. CASE \E n \in Counts : OpenCount(n)
  BY <1>8, CountIsOpened
<1>9. CASE \E w \in Workers, n \in Counts : BeginClose(w, n)
  BY <1>9, CloseBegins
<1>10. CASE \E m \in Manuals : PostManual(m)
  BY <1>10, ManualIsPosted
<1>11. CASE \E m \in ledger : PostReversal(m)
  BY <1>11, ReversalIsPosted
<1>12. ASSUME NEW w \in Workers, Proceed(w) \/ TakeLock(w) \/ Fail(w) PROVE IInv'
  <2>1. CASE BreakDeadlock(w) \/ Fail(w)
    BY <2>1, TxnEnds DEF BreakDeadlock, Fail, tables
  <2>2. CASE ReadRecipe(w) \/ DecideDispatch(w) \/ DecideClose(w) \/ Commit(w) \/ TakeLock(w)
    BY <2>2, RecipeIsRead, DispatchIsDecided, CloseIsDecided, TransactionCommits, LockIsTaken
  <2> QED
    BY <1>12, <2>1, <2>2 DEF Proceed
<1>13. CASE UNCHANGED vars
  <2>1. inbox' \in [Sales -> {"none", "pending", "APPLIED", "EXCEPTION"}]
        /\ config' \in Configurations
    BY <1>13 DEF vars, IInv, Types
  <2> QED
    BY <1>13, <2>1, ConfigurationOrInbox DEF vars
<1> QED
  BY <1>1, <1>2, <1>3, <1>4, <1>5, <1>6, <1>7, <1>8, <1>9, <1>10, <1>11, <1>12, <1>13 DEF Next

\* The invariant holds of every event of the stock: sales, transfers, counts and
\* manual movements, however their transactions interleave, fail or deadlock.
THEOREM SpecIsSound == Spec => []IInv
BY Initially, EveryStepKeepsIt, PTL DEF Spec

\* Every table and transaction has its type, and no two movements share a key.
THEOREM InventoryTypes == Spec => []TypeOK
<1>1. IInv => TypeOK
  BY DEF IInv, Types, LedgerIsSound, IsRow, TypeOK, TransferType, CountType, TxnType
<1> QED
  BY <1>1, SpecIsSound, PTL

\* What has left the source of a transfer is what it asks for, once dispatched.
LEMMA OutIsRequested ==
  ASSUME IInv, NEW t \in Transfers, transfer[t].source \in Locations, NEW s \in Skus
  PROVE  SumOf({m \in OutMoves(t) : m.sku = s}) = -transfer[t].requested[s]
<1> DEFINE q == transfer[t].requested
           R == {m \in OutMoves(t) : m.sku = s}
<1>1. q[s] \in Int
  BY DEF IInv, Types, TransferType, Amounts, Quantities
<1>2. /\ OnePerSku(OutMoves(t))
      /\ \A m \in OutMoves(t) : m.sku \in Lines(q) /\ m.delta = -q[m.sku]
      /\ \A z \in Lines(q) : \E m \in OutMoves(t) : m.sku = z
  BY OutMovesAre DEF IInv
<1>3. CASE s \in Lines(q)
  <2>1. PICK d \in OutMoves(t) : d.sku = s
    BY <1>2, <1>3
  <2>2. R = {d}
    BY <1>2, <2>1 DEF OnePerSku
  <2>3. d.delta = -q[s] /\ d.delta \in Int
    BY <1>1, <1>2, <2>1
  <2> HIDE DEF R
  <2>4. SumOf({d}) = d.delta
    BY <2>3, SumOfOne
  <2> QED
    BY <2>2, <2>3, <2>4 DEF R
<1>4. CASE s \notin Lines(q)
  <2>1. R = {}
    BY <1>2, <1>4
  <2>2. q[s] = 0
    BY <1>4 DEF Lines
  <2> HIDE DEF R
  <2> QED
    BY <2>1, <2>2, SumOfNone DEF R
<1> QED
  BY <1>3, <1>4

\* The ledger, the transfers and what the Cloud is told say the same, whatever
\* the configuration becomes.
THEOREM CustodyIsAlwaysKept == Spec => [](CustodyIsKept /\ CloudIsTold)
<1>1. IInv => CustodyIsKept
  <2> SUFFICES ASSUME IInv, NEW t \in Transfers
        PROVE  IF transfer[t].state \in {"IN_TRANSIT", "RECEIVED"}
                 THEN /\ \A s \in Skus :
                           /\ SumOf({m \in RowsOf("out", t) : m.sku = s}) = -transfer[t].requested[s]
                           /\ SumOf({m \in RowsOf("in", t) : m.sku = s}) = transfer[t].received[s]
                           /\ transfer[t].received[s] <= transfer[t].requested[s]
                      /\ transfer[t].state = "RECEIVED"
                           <=> transfer[t].received = transfer[t].requested
                 ELSE RowsOf("out", t) \cup RowsOf("in", t) = {}
    BY DEF CustodyIsKept
  <2>2. TransferIsSound(t)
    BY DEF IInv, DocumentsAreSound
  <2>3. CASE transfer[t].state \in {"IN_TRANSIT", "RECEIVED"}
    <3>1. transfer[t].source \in Locations /\ RowsOf("out", t) = OutMoves(t)
      BY <2>2, <2>3 DEF TransferIsSound
    <3>2. \A s \in Skus : SumOf({m \in OutMoves(t) : m.sku = s}) = -transfer[t].requested[s]
      BY <3>1, OutIsRequested
    <3> QED
      BY <2>2, <2>3, <3>1, <3>2 DEF TransferIsSound, Arrived
  <2>4. CASE transfer[t].state \notin {"IN_TRANSIT", "RECEIVED"}
    BY <2>2, <2>4 DEF TransferIsSound
  <2> QED
    BY <2>3, <2>4
<1>2. IInv => CloudIsTold
  BY DEF IInv, DocumentsAreSound, TransferIsSound, CountIsSound, CloudIsTold
<1> QED
  BY <1>1, <1>2, SpecIsSound, PTL

-----------------------------------------------------------------------------
(* What is decided stays true until it is written.                          *)

\* Only a commit sends a transfer on its way, or closes a count.
LEMMA OnlyACommitDispatches ==
  ASSUME IInv, Next, NEW t \in Transfers,
         transfer[t].state = "PICKING", transfer'[t].state = "IN_TRANSIT"
  PROVE  \E w \in Workers : /\ Commit(w) /\ ~Refused(txn[w].moves)
                            /\ txn[w].op = "dispatch" /\ txn[w].of = t
<1>1. transfer' # transfer /\ transfer \in [Transfers -> TransferType]
  BY DEF IInv, Types
<1>2. ASSUME NEW u \in Transfers, CreateTransfer(u) PROVE FALSE
  BY <1>1, <1>2 DEF CreateTransfer
<1>3. ASSUME NEW u \in Transfers, SimpleTransition(u) PROVE FALSE
  <2>1. PICK to \in {"ASSIGNED", "PICKING", "CANCELLED"} :
           transfer' = [transfer EXCEPT ![u].state = to]
    BY <1>3 DEF SimpleTransition
  <2> QED
    BY <1>1, <2>1 DEF TransferType
<1>4. ASSUME NEW u \in Transfers, NEW r \in Receipts, Receive(u, r) PROVE FALSE
  <2>1. transfer[u].state = "IN_TRANSIT" /\ u # t
    BY <1>4 DEF Receive
  <2>2. transfer'[t] = transfer[t]
    BY <1>1, <1>4, <2>1 DEF Receive
  <2> QED
    BY <2>2
<1>5. PICK w \in Workers : Commit(w)
  BY <1>1, <1>2, <1>3, <1>4 DEF Next, InstallConfiguration, StoreSale, ReconcileSale, DeliverSale,
     ReadMapping, BeginDispatch, OpenCount, BeginClose, PostManual, PostReversal, Proceed,
     ReadRecipe, DecideDispatch, DecideClose, BreakDeadlock, TakeLock, Fail, tables
<1>6. /\ ~Refused(txn[w].moves) /\ txn[w].op = "dispatch"
      /\ transfer' = [transfer EXCEPT ![txn[w].of].state = "IN_TRANSIT"]
  BY <1>1, <1>5 DEF Commit
<1>7. txn[w].of = t
  BY <1>1, <1>6
<1> QED
  BY <1>5, <1>6, <1>7

\* A count closes by the commit of its own transaction only.
LEMMA OnlyACommitCloses ==
  ASSUME IInv, Next, NEW n \in Counts, count[n].state = "OPEN", count'[n].state = "CLOSED"
  PROVE  \E w \in Workers : /\ Commit(w) /\ ~Refused(txn[w].moves)
                            /\ txn[w].op = "close" /\ txn[w].of = n
<1>1. count' # count /\ count \in [Counts -> CountType]
  BY DEF IInv, Types
<1>2. ASSUME NEW k \in Counts, OpenCount(k) PROVE FALSE
  <2>1. count[k].state = "NONE" /\ k # n
    BY <1>2 DEF OpenCount
  <2>2. count'[n] = count[n]
    BY <1>1, <1>2, <2>1 DEF OpenCount
  <2> QED
    BY <2>2
<1>3. PICK w \in Workers : Commit(w)
  BY <1>1, <1>2 DEF Next, InstallConfiguration, StoreSale, ReconcileSale, DeliverSale,
     ReadMapping, CreateTransfer, SimpleTransition, Receive, BeginDispatch, BeginClose, PostManual,
     PostReversal, Proceed, ReadRecipe, DecideDispatch, DecideClose, BreakDeadlock, TakeLock, Fail,
     tables
<1>4. /\ ~Refused(txn[w].moves) /\ txn[w].op = "close"
      /\ count' = [count EXCEPT ![txn[w].of].state = "CLOSED"]
  BY <1>1, <1>3 DEF Commit
<1>5. txn[w].of = n
  BY <1>1, <1>4
<1> QED
  BY <1>3, <1>4, <1>5

\* A dispatch commits on the balance it decided on.
LEMMA DispatchesAreCovered ==
  ASSUME IInv, Next
  PROVE  DispatchIsCovered
<1> SUFFICES ASSUME NEW t \in Transfers, transfer[t].state = "PICKING",
                    transfer'[t].state = "IN_TRANSIT", NEW s \in Lines(transfer[t].requested)
             PROVE  OnHand(transfer[t].source, s)' >= 0
  BY DEF DispatchIsCovered
<1> DEFINE q == transfer[t].requested[s]
           D == OutMoves(t)
<1>1. PICK w \in Workers : /\ Commit(w) /\ ~Refused(txn[w].moves)
                           /\ txn[w].op = "dispatch" /\ txn[w].of = t
  BY OnlyACommitDispatches
<1>2. /\ DispatchIsSound(w) /\ txn[w].stage = "decided"
      /\ transfer' = [transfer EXCEPT ![t].state = "IN_TRANSIT"]
      /\ transfer[t] \in TransferType /\ TransferIsSound(t) /\ transfer'[t].source = transfer[t].source
  <2>1. txn[w].stage = "decided" /\ transfer' = [transfer EXCEPT ![t].state = "IN_TRANSIT"]
    BY <1>1 DEF Commit
  <2>2. DispatchIsSound(w)
    BY <1>1, WhatATxnIs, TxnStages
  <2>3. transfer \in [Transfers -> TransferType] /\ TransferIsSound(t)
    BY DEF IInv, Types, DocumentsAreSound
  <2> QED
    BY <2>1, <2>2, <2>3
<1>3. /\ transfer[t].source \in Locations /\ RowsOf("out", t) = {}
      /\ txn[w].moves = D /\ ledger' = ledger \cup D
      /\ OnHand(transfer[t].source, s) >= q
  BY <1>1, <1>2, CommitWrites DEF DispatchIsSound, TransferIsSound
<1>4. q \in Int /\ s \in Skus
  BY <1>2 DEF TransferType, Amounts, Quantities, Lines
<1>5. /\ OnePerSku(D)
      /\ \A m \in D : /\ m.kind = "out" /\ m.of = t /\ m.location = transfer[t].source
                      /\ m.delta = -transfer[t].requested[m.sku]
      /\ \E m \in D : m.sku = s
  BY <1>3, OutMovesAre DEF IInv
<1>6. PICK d \in D : d.sku = s
  BY <1>5
<1> HIDE DEF D
<1>7. d.delta = -q /\ d.delta \in Int /\ d \notin ledger
  BY <1>3, <1>4, <1>5, <1>6 DEF RowsOf
<1> DEFINE l == transfer[t].source
<1>8. Stock(ledger \cup D, l, s) = Stock(ledger, l, s) + d.delta
  <2>1. IsBook(ledger) /\ AllAt(D, l)
    BY <1>5 DEF IInv, LedgerIsSound, IsRow, IsBook, AllAt
  <2>2. OnePerSku(D) /\ d \in D /\ d.delta \in Int /\ d \notin ledger
    BY <1>5, <1>6, <1>7
  <2> HIDE DEF l, q
  <2>3. AddsUp(ledger, D, l, d)
    BY <2>1, <2>2, StockAfter
  <2> QED
    BY <1>6, <2>3 DEF AddsUp
<1>9. /\ OnHand(transfer[t].source, s)' = Stock(ledger \cup D, l, s)
      /\ OnHand(transfer[t].source, s) = Stock(ledger, l, s)
  BY <1>2, <1>3 DEF OnHand, Stock
<1>10. OnHand(transfer[t].source, s) \in Int
  BY OnHandType DEF IInv
<1> QED
  BY <1>3, <1>4, <1>7, <1>8, <1>9, <1>10

\* A count closes on the balance it decided on.
LEMMA CountsSettle ==
  ASSUME IInv, Next
  PROVE  CountSettles
<1> SUFFICES ASSUME NEW n \in Counts, count[n].state = "OPEN", count'[n].state = "CLOSED",
                    NEW s \in Skus
             PROVE  OnHand(count[n].location, s)' = count[n].counted[s]
  BY DEF CountSettles
<1> DEFINE D == AdjustMoves(n)
           l == count[n].location
<1>1. PICK w \in Workers : /\ Commit(w) /\ ~Refused(txn[w].moves)
                           /\ txn[w].op = "close" /\ txn[w].of = n
  BY OnlyACommitCloses
<1>2. /\ CloseIsSound(w) /\ txn[w].stage = "decided"
      /\ count[n] \in CountType /\ CountIsSound(n) /\ count'[n].location = count[n].location
  <2>1. txn[w].stage = "decided" /\ count' = [count EXCEPT ![n].state = "CLOSED"]
    BY <1>1 DEF Commit
  <2>2. CloseIsSound(w)
    BY <1>1, WhatATxnIs, TxnStages
  <2>3. count \in [Counts -> CountType] /\ CountIsSound(n)
    BY DEF IInv, Types, DocumentsAreSound
  <2> QED
    BY <2>1, <2>2, <2>3
<1>3. /\ l \in Locations /\ RowsOf("count", n) = {} /\ txn[w].moves = D /\ ledger' = ledger \cup D
  BY <1>1, <1>2, CommitWrites DEF CloseIsSound, CountIsSound
<1>4. /\ OnePerSku(D) /\ D \subseteq Moves
      /\ \A m \in D : /\ m.kind = "count" /\ m.of = n /\ m.location = l
                      /\ m.delta = Missing(n, m.sku)
      /\ Missing(n, s) # 0 => \E m \in D : m.sku = s
      /\ Missing(n, s) \in Int
  BY <1>3, AdjustMovesAre DEF IInv
<1>5. count[n].counted[s] \in Int /\ OnHand(l, s) \in Int /\ Missing(n, s) = count[n].counted[s] - OnHand(l, s)
  BY <1>2, OnHandType DEF IInv, CountType, Amounts, Quantities, Missing
<1> HIDE DEF D
<1>6. /\ OnHand(count[n].location, s)' = Stock(ledger \cup D, l, s)
      /\ OnHand(l, s) = Stock(ledger, l, s)
  BY <1>2, <1>3 DEF OnHand, Stock
<1>7. CASE Missing(n, s) = 0
  <2>1. \A m \in D : m.sku # s
    BY <1>4, <1>7 DEF Moves
  <2> DEFINE A == {m \in ledger \cup D : m.location = l /\ m.sku = s}
             B == {m \in ledger : m.location = l /\ m.sku = s}
  <2>2. A = B
    BY <2>1
  <2>3. OnHand(count[n].location, s)' = SumOf(A) /\ OnHand(l, s) = SumOf(B)
    BY <1>6 DEF Stock
  <2> HIDE DEF A, B
  <2> QED
    BY <1>5, <1>7, <2>2, <2>3
<1>8. CASE Missing(n, s) # 0
  <2>1. PICK d \in D : d.sku = s
    BY <1>4, <1>8
  <2>2. d.delta = Missing(n, s) /\ d.delta \in Int /\ d \notin ledger
    BY <1>3, <1>4, <2>1 DEF RowsOf
  <2>3. IsBook(ledger) /\ AllAt(D, l)
    BY <1>4 DEF IInv, LedgerIsSound, IsRow, IsBook, AllAt
  <2> HIDE DEF l
  <2>4. AddsUp(ledger, D, l, d)
    BY <1>4, <2>2, <2>3, StockAfter
  <2> QED
    BY <1>5, <1>6, <2>1, <2>2, <2>4 DEF AddsUp
<1> QED
  BY <1>4, <1>7, <1>8

\* A dispatch leaves no stock below zero and a closed count leaves on hand what
\* was counted, whatever else is sold, moved or counted meanwhile.
THEOREM DecisionsHold == Spec => DecidedOnTrueBalances
<1>1. IInv /\ [Next]_vars => [DispatchIsCovered /\ CountSettles]_vars
  BY DispatchesAreCovered, CountsSettle
<1> QED
  BY <1>1, SpecIsSound, PTL DEF Spec, DecidedOnTrueBalances

-----------------------------------------------------------------------------
(* A sale is booked once, while the recipe of the product stays the same.   *)

OneRecipe == \A c, d \in Configurations : c.recipe = d.recipe

SaleIsBooked(e) ==
  LET rows == RowsOf("sale", e) IN
  /\ rows # {} => \E l \in Locations : rows = SaleMoves(e, l, config.recipe)
  /\ inbox[e] = "APPLIED" => rows # {}
  /\ inbox[e] \in {"none", "pending"} => rows = {}
SalesAreBooked == \A e \in Sales : SaleIsBooked(e)

\* Wherever a sale takes its stock, its movements have the same keys.
LEMMA SameSaleKeys ==
  ASSUME NEW e, NEW l, NEW k, NEW r, NEW m \in SaleMoves(e, l, r)
  PROVE  \E n \in SaleMoves(e, k, r) : SameKey(m, n)
<1>1. CASE Lines(r) = {}
  BY <1>1 DEF SaleMoves, Movement, SameKey
<1>2. CASE Lines(r) # {}
  <2>1. PICK s \in Lines(r) : m = Movement("sale", e, "RECIPE_CONSUMPTION", l, s, -r[s])
    BY <1>2 DEF SaleMoves
  <2> DEFINE n == Movement("sale", e, "RECIPE_CONSUMPTION", k, s, -r[s])
  <2>2. n \in SaleMoves(e, k, r)
    BY <1>2 DEF SaleMoves
  <2>3. SameKey(m, n)
    BY <2>1 DEF Movement, SameKey
  <2> HIDE DEF n
  <2> QED
    BY <2>2, <2>3
<1> QED
  BY <1>1, <1>2

CommitsSale(w, e) == Commit(w) /\ ~Refused(txn[w].moves) /\ txn[w].op = "sale" /\ txn[w].of = e

\* The first commit of a sale writes its movements; a later one writes none, or
\* is refused because the sale took its stock elsewhere.
LEMMA SaleIsWrittenOnce ==
  ASSUME OneRecipe, IInv, NEW e \in Sales, SaleIsBooked(e), NEW w \in Workers, CommitsSale(w, e),
         config' = config
  PROVE  SaleIsBooked(e)'
<1> DEFINE rows == RowsOf("sale", e)
           D == txn[w].moves
           l == txn[w].at
<1>1. /\ txn[w].op = "sale" /\ txn[w].stage = "decided" /\ ~Refused(D) /\ txn[w].of = e
      /\ ledger' = ledger \cup D /\ inbox' = [inbox EXCEPT ![e] = "APPLIED"]
  BY DEF CommitsSale, Commit
<1>2. SaleIsSound(w)
  BY <1>1, WhatATxnIs, TxnStages
<1>3. l \in Locations /\ \E c \in Configurations : D = SaleMoves(e, l, c.recipe)
  BY <1>1, <1>2 DEF SaleIsSound
<1>4. config \in Configurations /\ config.recipe \in Quantities
  BY InventoryAssumptions DEF IInv, Types, Configurations, InventoryAssumptions
<1>5. D = SaleMoves(e, l, config.recipe)
  BY <1>3, <1>4 DEF OneRecipe
<1>6. /\ D # {} /\ \A m \in D : m.kind = "sale" /\ m.of = e
  <2> HIDE DEF l, D
  <2> QED
    BY <1>3, <1>4, <1>5, SaleMovesAre
<1>7. \A m \in D, n \in ledger : SameKey(m, n) => m = n
  BY <1>1 DEF Refused
<1> HIDE DEF D, l
<1>8. RowsOf("sale", e)' = rows \cup D
  BY <1>1, <1>6 DEF RowsOf
<1>9. \E k \in Locations : rows \cup D = SaleMoves(e, k, config.recipe)
  <2>1. CASE rows = {}
    BY <1>3, <1>5, <2>1
  <2>2. CASE rows # {}
    <3>1. PICK k \in Locations : rows = SaleMoves(e, k, config.recipe)
      BY <2>2 DEF SaleIsBooked
    <3>2. rows \subseteq ledger
      BY DEF RowsOf
    <3>3. ASSUME NEW m \in D PROVE m \in rows
      <4>1. PICK n \in rows : SameKey(m, n)
        BY <1>5, <3>1, <3>3, SameSaleKeys
      <4> QED
        BY <1>7, <3>2, <3>3, <4>1
    <3>4. rows \cup D = rows
      BY <3>3
    <3> QED
      BY <3>1, <3>4
  <2> QED
    BY <2>1, <2>2
<1>10. inbox'[e] = "APPLIED"
  BY <1>1 DEF IInv, Types
<1> HIDE DEF rows
<1> QED
  BY <1>6, <1>8, <1>9, <1>10 DEF SaleIsBooked

\* Nothing else writes the movements of a sale, or calls it applied.
LEMMA OnlyACommitBooks ==
  ASSUME IInv, Next, NEW e \in Sales, \A w \in Workers : ~CommitsSale(w, e)
  PROVE  /\ RowsOf("sale", e)' = RowsOf("sale", e)
         /\ \/ inbox'[e] = inbox[e]
            \/ inbox[e] = "none" /\ inbox'[e] = "pending"
            \/ inbox'[e] = "EXCEPTION"
<1>1. inbox \in [Sales -> {"none", "pending", "APPLIED", "EXCEPTION"}]
  BY DEF IInv, Types
<1>2. ASSUME NEW t \in Transfers, NEW r \in Receipts, Receive(t, r)
      PROVE  RowsOf("sale", e)' = RowsOf("sale", e) /\ inbox' = inbox
  <2>1. PICK q : ledger' = ledger \cup InMoves(t, r, q)
    BY <1>2 DEF Receive
  <2>2. \A m \in InMoves(t, r, q) : m.kind # "sale"
    BY DEF InMoves, Movement
  <2> QED
    BY <1>2, <2>1, <2>2 DEF Receive, RowsOf
<1>3. ASSUME NEW d, ledger' = ledger \cup {d}, d.kind # "sale"
      PROVE  RowsOf("sale", e)' = RowsOf("sale", e)
  BY <1>3 DEF RowsOf
<1>4. ASSUME NEW n \in Manuals, PostManual(n)
      PROVE  RowsOf("sale", e)' = RowsOf("sale", e) /\ inbox' = inbox
  <2>1. PICK p \in Postings :
           ledger' = ledger \cup {Movement("manual", n, NoLocation, p.location, p.sku, p.delta)}
    BY <1>4 DEF PostManual
  <2>2. Movement("manual", n, NoLocation, p.location, p.sku, p.delta).kind # "sale"
    BY DEF Movement
  <2> QED
    BY <1>3, <1>4, <2>1, <2>2 DEF PostManual
<1>5. ASSUME NEW n \in ledger, PostReversal(n)
      PROVE  RowsOf("sale", e)' = RowsOf("sale", e) /\ inbox' = inbox
  <2>1. Movement("reversal", n, NoLocation, n.location, n.sku, -n.delta).kind # "sale"
    BY DEF Movement
  <2> QED
    BY <1>3, <1>5, <2>1 DEF PostReversal
<1>6. ASSUME NEW w \in Workers, Commit(w)
      PROVE  RowsOf("sale", e)' = RowsOf("sale", e) /\ inbox'[e] = inbox[e]
  <2>1. CASE Refused(txn[w].moves)
    BY <1>6, <2>1 DEF Commit, RowsOf
  <2>2. CASE ~Refused(txn[w].moves)
    <3>1. txn[w].op \in {"sale", "dispatch", "close"}
      BY <1>6, WhatCommits DEF Commit
    <3>2. txn[w].op # "sale" \/ txn[w].of # e
      BY <1>6, <2>2 DEF CommitsSale
    <3>3. "sale" # KindOf(txn[w].op) \/ e # txn[w].of
      BY <3>1, <3>2 DEF KindOf
    <3>4. RowsOf("sale", e)' = RowsOf("sale", e)
      BY <1>6, <2>2, <3>3, CommitWrites
    <3>5. inbox'[e] = inbox[e]
      BY <1>1, <1>6, <2>2, <3>2 DEF Commit
    <3> QED
      BY <3>4, <3>5
  <2> QED
    BY <2>1, <2>2
<1>7. ASSUME NEW d \in Sales, StoreSale(d) \/ \E w \in Workers : ReadMapping(w, d)
      PROVE  /\ RowsOf("sale", e)' = RowsOf("sale", e)
             /\ \/ inbox'[e] = inbox[e]
                \/ inbox[e] = "none" /\ inbox'[e] = "pending"
                \/ inbox'[e] = "EXCEPTION"
  BY <1>1, <1>7 DEF StoreSale, ReadMapping, RowsOf
<1>8. Loop \in Workers
  BY InventoryAssumptions DEF InventoryAssumptions
<1>9. CASE UNCHANGED <<inbox, ledger>>
  BY <1>9 DEF RowsOf
<1> QED
  BY <1>2, <1>4, <1>5, <1>6, <1>7, <1>8, <1>9 DEF Next, InstallConfiguration, ReconcileSale,
     DeliverSale, CreateTransfer, SimpleTransition, BeginDispatch, OpenCount, BeginClose, Proceed,
     ReadRecipe, DecideDispatch, DecideClose, BreakDeadlock, TakeLock, Fail, tables

\* While the recipe stays the same, every step keeps the sales booked.
LEMMA SalesStayBooked ==
  ASSUME OneRecipe, IInv, SalesAreBooked, [Next]_vars
  PROVE  SalesAreBooked'
<1> SUFFICES ASSUME NEW e \in Sales PROVE SaleIsBooked(e)'
  BY DEF SalesAreBooked
<1>1. SaleIsBooked(e)
  BY DEF SalesAreBooked
<1>2. config \in Configurations /\ config' \in Configurations
  BY EveryStepKeepsIt DEF IInv, Types
<1>3. config'.recipe = config.recipe
  BY <1>2 DEF OneRecipe
<1>4. CASE \E w \in Workers : CommitsSale(w, e)
  BY <1>1, <1>4, SaleIsWrittenOnce DEF CommitsSale, Commit
<1>5. CASE Next /\ \A w \in Workers : ~CommitsSale(w, e)
  BY <1>1, <1>3, <1>5, OnlyACommitBooks DEF SaleIsBooked
<1>6. CASE UNCHANGED vars
  BY <1>1, <1>6 DEF vars, SaleIsBooked, RowsOf
<1> QED
  BY <1>4, <1>5, <1>6

\* However often a sale is delivered, and wherever sales are mapped by then, it
\* takes its stock once and whole; with the transfers and the counts, the books
\* tell what happened.
THEOREM BookedOnce ==
  ASSUME OneRecipe
  PROVE  Spec => []BookedOnceAndWhole
<1>1. Init => SalesAreBooked
  <2>1. Init => \A e \in Sales : RowsOf("sale", e) = {} /\ inbox[e] = "none"
    BY DEF Init, RowsOf, Movement
  <2> QED
    BY <2>1 DEF SalesAreBooked, SaleIsBooked
<1>2. IInv /\ SalesAreBooked /\ [Next]_vars => SalesAreBooked'
  BY SalesStayBooked
<1>3. IInv /\ SalesAreBooked => SaleDepletesOnce
  BY DEF IInv, Types, Configurations, SalesAreBooked, SaleIsBooked, SaleDepletesOnce
<1>4. Spec => []SaleDepletesOnce
  BY <1>1, <1>2, <1>3, SpecIsSound, PTL DEF Spec
<1> QED
  BY <1>4, CustodyIsAlwaysKept, PTL DEF BookedOnceAndWhole

=============================================================================
