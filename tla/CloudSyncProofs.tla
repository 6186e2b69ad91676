--------------------------- MODULE CloudSyncProofs ---------------------------
(***************************************************************************)
(* Proofs about CloudSync, for any number of registers, events, requests   *)
(* that arrive late and any batch size.                                    *)
(***************************************************************************)
EXTENDS CloudSync, InductionLemmas

-----------------------------------------------------------------------------
(* The inductive invariant.                                                *)

(* The orders of a register follow one another: the event that closes one  *)
(* is its last.                                                            *)
LogIsOrderly ==
  \A d \in Devices : \A i, j \in DOMAIN log[d] :
    /\ log[d][i].order <= i
    /\ i < j => /\ log[d][i].order <= log[d][j].order
                /\ Closed(log[d][i]) => log[d][i].order < log[d][j].order

(* What is under way belongs to the batch the forwarder waits for, and an  *)
(* answer comes after the Cloud has recorded it.                           *)
AnswersAreForTheBatch ==
  /\ IsFiniteSet(late)
  /\ request # {} => /\ forwarder.pc = "sending" /\ reply = {}
                     /\ \E q \in request : request = {q} /\ q.rows = Batch
  /\ reply # {}   => /\ forwarder.pc = "sending"
                     /\ \E conflicts \in reply : reply = {conflicts}
                     /\ ToSet(Batch) \subseteq processed

(* No batch has an event twice.                                            *)
BatchesAreDistinct ==
  IsInjective(Batch) /\ \A q \in request \cup late : IsInjective(q.rows)

IInv ==
  /\ TypeOK
  /\ LogIsOrderly
  /\ AnswersAreForTheBatch
  /\ BatchesAreDistinct
  /\ ProjectionIsSound

\* The bounds of the module.
LEMMA BoundsAreNumbers ==
  MaxSeq \in Nat /\ MaxLate \in Nat /\ MaxAssignments \in Nat /\ BatchSize \in Nat \ {0}
BY CloudSyncAssumption DEF CloudSyncAssumption

USE BoundsAreNumbers

-----------------------------------------------------------------------------
(* Sets of events are finite, so that they can be counted.                 *)

\* A register has at most MaxSeq events.
LEMMA RowsAreFinite ==
  /\ IsFiniteSet(Rows)
  /\ \A d \in Devices : IsFiniteSet({d} \X (1..MaxSeq))
                        /\ Cardinality({d} \X (1..MaxSeq)) = MaxSeq
<1>1. IsFiniteSet(1..MaxSeq) /\ Cardinality(1..MaxSeq) = MaxSeq
  BY FS_Interval
<1>2. \A d \in Devices : IsFiniteSet({d}) /\ Cardinality({d}) = 1
  BY FS_Singleton
<1>3. ASSUME NEW d \in Devices
      PROVE  /\ IsFiniteSet({d} \X (1..MaxSeq))
             /\ Cardinality({d} \X (1..MaxSeq)) = MaxSeq
  <2>1. /\ IsFiniteSet({d} \X (1..MaxSeq))
        /\ Cardinality({d} \X (1..MaxSeq)) = Cardinality({d}) * Cardinality(1..MaxSeq)
    BY <1>1, <1>2, FS_Product
  <2>2. Cardinality({d}) = 1
    BY <1>2, Zenon
  <2>3. 1 * MaxSeq = MaxSeq
    OBVIOUS
  <2>4. Cardinality({d}) * Cardinality(1..MaxSeq) = MaxSeq
    BY <1>1, <2>2, <2>3, Zenon
  <2> QED
    BY <2>1, <2>4
<1>4. IsFiniteSet(Rows)
  BY <1>1, FS_Product, CloudSyncAssumption DEF Rows, CloudSyncAssumption
<1> QED
  BY <1>3, <1>4

(* A register's backlog is at most its log.                                *)
LEMMA BacklogIsBounded ==
  ASSUME NEW d \in Devices
  PROVE  BacklogOf(d) \in 0..MaxSeq
<1> DEFINE all == {d} \X (1..MaxSeq)
           own == {r \in Queued : r[1] = d}
<1>1. own \in SUBSET all
  BY DEF Queued, Stored, Rows
<1>2. IsFiniteSet(all) /\ Cardinality(all) = MaxSeq
  BY RowsAreFinite
<1> HIDE DEF all, own
<1>3. IsFiniteSet(own) /\ Cardinality(own) <= MaxSeq
  BY <1>1, <1>2, FS_Subset
<1>4. Cardinality(own) \in Nat
  BY <1>3, FS_CardinalityType
<1> QED
  BY <1>3, <1>4 DEF BacklogOf, own

\* What a batch delivers of a register is counted.
LEMMA DeliveredIsANumber ==
  ASSUME NEW b \in Seq(Rows), NEW d
  PROVE  DeliveredOf(b, d) \in Nat
<1> DEFINE own == {r \in ToSet(b) : r[1] = d}
<1>1. own \in SUBSET Rows
  BY DEF ToSet
<1> HIDE DEF own
<1>2. IsFiniteSet(own)
  BY <1>1, RowsAreFinite, FS_Subset
<1> QED
  BY <1>2, FS_CardinalityType DEF DeliveredOf, own

-----------------------------------------------------------------------------
(* The fold over a batch.                                                  *)

FoldStep(b, fold, i) ==
  IF i = 0 THEN [orders |-> orders, conflicts |-> {}]
  ELSE IF b[i] \in processed THEN fold[i - 1]
  ELSE Applied(fold[i - 1], b[i])

(* The recursive definition is a function: by induction on the prefixes.   *)
LEMMA FoldIsDefined ==
  ASSUME NEW b, Len(b) \in Nat
  PROVE  FoldOf(b) = [i \in 0..Len(b) |-> FoldStep(b, FoldOf(b), i)]
<1> DEFINE n == Len(b)
           S == {m \in 0..n : \E g : g = [i \in 0..m |-> FoldStep(b, g, i)]}
<1>1. 0 \in S
  <2> DEFINE g == [i \in 0..0 |-> [orders |-> orders, conflicts |-> {}]]
  <2>1. g = [i \in 0..0 |-> FoldStep(b, g, i)]
    BY DEF FoldStep
  <2>2. \E f : f = [i \in 0..0 |-> FoldStep(b, f, i)]
    BY <2>1
  <2> QED
    BY <2>2
<1>2. ASSUME NEW m \in 0..n, m # n, m \in S
      PROVE  m + 1 \in S
  <2>1. PICK g : g = [i \in 0..m |-> FoldStep(b, g, i)]
    BY <1>2
  <2> DEFINE h == [i \in 0..m + 1 |-> IF i = m + 1 THEN FoldStep(b, g, i) ELSE g[i]]
  <2>2. ASSUME NEW i \in 0..m + 1 PROVE h[i] = FoldStep(b, h, i)
    <3>1. CASE i = 0
      <4>1. h[i] = g[i] /\ g[i] = FoldStep(b, g, i)
        BY <2>1, <3>1
      <4> QED
        BY <3>1, <4>1 DEF FoldStep
    <3>2. CASE i # 0
      <4>1. i - 1 \in 0..m /\ h[i - 1] = g[i - 1]
        BY <3>2
      <4>2. FoldStep(b, h, i) = FoldStep(b, g, i)
        BY <3>2, <4>1 DEF FoldStep
      <4>3. h[i] = FoldStep(b, g, i)
        BY <2>1, <3>2
      <4> QED
        BY <4>2, <4>3
    <3> QED
      BY <3>1, <3>2
  <2>3. h = [i \in 0..m + 1 |-> FoldStep(b, h, i)]
    BY <2>2
  <2> HIDE DEF h
  <2> QED
    BY <1>2, <2>3
<1> HIDE DEF S
<1>3. 0..n \subseteq S
  BY <1>1, <1>2, UpTo
<1> USE DEF S
<1>4. \E g : g = [i \in 0..n |-> FoldStep(b, g, i)]
  BY <1>3
<1> QED
  BY <1>4 DEF FoldOf, FoldStep

(* The properties of the projection, of the orders and conflicts in the    *)
(* middle of a batch, when the events P have been recorded.                *)
Taken(P, X, o) == {r \in P \ X : r[1] = o[1] /\ EventOf(r).order = o[2]}

IsLatest(order, o, taken) ==
  IF taken = {} THEN order = NoOrder
  ELSE /\ <<o[1], order.last>> \in taken
       /\ \A r \in taken : r[2] <= order.last
       /\ order.type = EventOf(<<o[1], order.last>>).type
       /\ order.location = EventOf(<<o[1], order.last>>).location

IsMoved(r, P) ==
  \E s \in P : /\ s[1] = r[1] /\ EventOf(s).order = EventOf(r).order
              /\ EventOf(s).location # EventOf(r).location

OrderRows == [last : 0..MaxSeq, type : Types, location : Locations \cup {"none"}]

FoldIsSound(acc, P) ==
  LET X == exceptions \cup acc.conflicts IN
  /\ acc \in [orders : [Orders -> OrderRows], conflicts : SUBSET P]
  /\ \A o \in Orders :
       /\ IsLatest(acc.orders[o], o, Taken(P, X, o))
       /\ acc.orders[o].last >= orders[o].last
       /\ Closed(orders[o]) => acc.orders[o].type = orders[o].type
  /\ \A r \in X : IsMoved(r, P)

\* A stored event has its order and its type.
LEMMA EventType ==
  ASSUME TypeOK, NEW r \in Stored
  PROVE  /\ r \in Rows /\ r[1] \in Devices /\ r[2] \in 1..MaxSeq /\ r = <<r[1], r[2]>>
         /\ r[2] \in DOMAIN log[r[1]]
         /\ EventOf(r) \in Event /\ <<r[1], EventOf(r).order>> \in Orders
<1>1. r \in Rows /\ r[2] <= Len(log[r[1]])
  BY DEF Stored
<1>2. r[1] \in Devices /\ r[2] \in 1..MaxSeq /\ r = <<r[1], r[2]>>
  BY <1>1 DEF Rows
<1>3. log[r[1]] \in Seq(Event)
  BY <1>2 DEF TypeOK
<1>4. r[2] \in DOMAIN log[r[1]] /\ EventOf(r) \in Event
  BY <1>1, <1>2, <1>3 DEF EventOf
<1> QED
  BY <1>1, <1>2, <1>4 DEF Event, Orders

(* One event keeps the projection sound: an older one is left out, and one *)
(* that disagrees without naming another location would be an event of an  *)
(* order after the one that closed it.                                     *)
LEMMA AppliedIsSound ==
  ASSUME TypeOK, LogIsOrderly, NEW P, P \subseteq Stored, exceptions \subseteq P,
         NEW r \in Stored, r \notin P, NEW acc, FoldIsSound(acc, P)
  PROVE  FoldIsSound(Applied(acc, r), P \cup {r})
<1> DEFINE event   == EventOf(r)
           o       == <<r[1], event.order>>
           current == acc.orders[o]
           X       == exceptions \cup acc.conflicts
           next    == Applied(acc, r)
<1>1. r[2] \in 1..MaxSeq /\ r = <<r[1], r[2]>> /\ event \in Event /\ o \in Orders
      /\ r[1] \in Devices /\ r[2] \in DOMAIN log[r[1]]
  BY EventType
<1>2. /\ acc \in [orders : [Orders -> OrderRows], conflicts : SUBSET P]
      /\ \A p \in Orders : IsLatest(acc.orders[p], p, Taken(P, X, p))
      /\ \A s \in X : IsMoved(s, P)
      /\ \A p \in Orders :
           /\ acc.orders[p].last >= orders[p].last
           /\ Closed(orders[p]) => acc.orders[p].type = orders[p].type
  BY DEF FoldIsSound
<1>3. current \in OrderRows /\ r \notin X /\ o[1] = r[1] /\ o[2] = event.order
  BY <1>1, <1>2
<1>4. /\ IsLatest(current, o, Taken(P, X, o))
      /\ current.last >= orders[o].last
      /\ Closed(orders[o]) => current.type = orders[o].type
  BY <1>1, <1>2
<1>5. \A p \in Orders : p # o => Taken(P \cup {r}, X, p) = Taken(P, X, p)
  BY <1>1 DEF Taken, Orders
<1>6. Taken(P \cup {r}, X, o) = Taken(P, X, o) \cup {r}
  BY <1>1, <1>3 DEF Taken
<1>7. \A s \in X : IsMoved(s, P \cup {r})
  BY <1>2 DEF IsMoved
<1>8. orders[o] \in OrderRows /\ current.last \in 0..MaxSeq
  BY <1>1, <1>3 DEF TypeOK, OrderRows
<1>9. CASE IgnoresLate(current, r)
  <2>1. next = acc
    BY <1>9 DEF Applied
  <2> HIDE DEF next, event, current, o
  <2>2. current.last >= r[2] /\ current.last >= 1
    BY <1>1, <1>8, <1>9 DEF IgnoresLate
  <2>3. Taken(P, X, o) # {}
    <3>1. NoOrder.last = 0
      BY DEF NoOrder
    <3>2. current # NoOrder
      BY <1>8, <2>2, <3>1
    <3> QED
      BY <1>4, <3>2 DEF IsLatest
  <2>4. IsLatest(current, o, Taken(P \cup {r}, X, o))
    BY <1>4, <1>6, <2>2, <2>3 DEF IsLatest
  <2>5. \A p \in Orders : IsLatest(acc.orders[p], p, Taken(P \cup {r}, X, p))
    BY <1>2, <1>5, <2>4 DEF current
  <2>6. FoldIsSound(acc, P \cup {r})
    BY <1>2, <1>7, <2>5 DEF FoldIsSound
  <2> QED
    BY <2>1, <2>6 DEF next
<1>10. CASE ~IgnoresLate(current, r) /\ Disagrees(current, event)
  <2>1. next = [acc EXCEPT !.conflicts = @ \cup {r}]
    BY <1>10 DEF Applied
  <2> HIDE DEF next, event, current, o
  <2>2. /\ next.orders = acc.orders /\ next.conflicts = acc.conflicts \cup {r}
        /\ next \in [orders : [Orders -> OrderRows], conflicts : SUBSET (P \cup {r})]
    BY <1>2, <2>1
  <2>3. \A p \in Orders : Taken(P \cup {r}, X \cup {r}, p) = Taken(P, X, p)
    BY <1>3 DEF Taken
  <2>4. Taken(P, X, o) # {}
    BY <1>4, <1>10 DEF IsLatest, Disagrees
  <2> DEFINE s == <<o[1], current.last>>
  <2>5. s \in Taken(P, X, o) /\ EventOf(s).type = current.type
        /\ EventOf(s).location = current.location
    BY <1>4, <2>4 DEF IsLatest
  <2>6. s \in P /\ s \in Stored /\ EventOf(s).order = event.order
    BY <1>3, <2>5 DEF Taken
  <2>7. current.last \in DOMAIN log[r[1]] /\ current.last < r[2]
    <3>1. s[1] = r[1] /\ s[2] = current.last
      BY <1>3
    <3> HIDE DEF s
    <3>2. s[2] \in DOMAIN log[s[1]]
      BY <2>6, EventType
    <3> QED
      BY <1>1, <1>8, <1>10, <3>1, <3>2 DEF IgnoresLate
  <2>8. EventOf(s) = log[r[1]][current.last] /\ event = log[r[1]][r[2]]
    BY <1>3 DEF EventOf, event
  <2>9. Closed(EventOf(s)) => EventOf(s).order < event.order
    BY <1>1, <2>7, <2>8 DEF LogIsOrderly
  <2>10. ~Closed(EventOf(s))
    <3>1. event.order \in Int
      BY <1>1 DEF Event
    <3> QED
      BY <2>6, <2>9, <3>1
  <2>11. EventOf(s).location # event.location
    BY <1>10, <2>5, <2>10 DEF Disagrees, Closed
  <2>12. IsMoved(r, P \cup {r})
    BY <1>3, <2>6, <2>11 DEF IsMoved, event
  <2>13. exceptions \cup next.conflicts = X \cup {r}
    BY <2>2
  <2> HIDE DEF X
  <2>14. FoldIsSound(next, P \cup {r})
    BY <1>2, <1>7, <2>2, <2>3, <2>12, <2>13 DEF FoldIsSound
  <2> QED
    BY <2>14 DEF next
<1>11. CASE ~IgnoresLate(current, r) /\ ~Disagrees(current, event)
  <2> DEFINE new == [last |-> r[2], type |-> event.type, location |-> event.location]
  <2>1. next = [acc EXCEPT !.orders[o] = new]
    BY <1>11 DEF Applied
  <2>2. new \in OrderRows
    BY <1>1 DEF OrderRows, Event
  <2>3. new.last = r[2] /\ new.type = event.type /\ new.location = event.location
    OBVIOUS
  <2>4. o[1] = r[1]
    BY <1>3
  <2> HIDE DEF next, event, current, o, new
  <2>5. /\ next \in [orders : [Orders -> OrderRows], conflicts : SUBSET (P \cup {r})]
        /\ next.conflicts = acc.conflicts /\ next.orders[o] = new
        /\ \A p \in Orders : p # o => next.orders[p] = acc.orders[p]
    BY <1>1, <1>2, <2>1, <2>2
  <2>6. current.last < r[2]
    BY <1>1, <1>8, <1>11 DEF IgnoresLate
  <2>7. \A q \in Taken(P, X, o) : q[2] <= r[2]
    <3> SUFFICES ASSUME NEW q \in Taken(P, X, o) PROVE q[2] <= r[2]
      OBVIOUS
    <3>1. q[2] <= current.last
      BY <1>4 DEF IsLatest
    <3>2. q \in Stored
      BY DEF Taken
    <3>3. q[2] \in 1..MaxSeq
      BY <3>2, EventType
    <3> QED
      BY <1>1, <1>8, <2>6, <3>1, <3>3
  <2>8. <<o[1], r[2]>> = r /\ r[2] <= r[2]
    BY <1>1, <2>4
  <2>9. IsLatest(new, o, Taken(P \cup {r}, X, o))
    BY <1>6, <2>3, <2>7, <2>8 DEF IsLatest, event
  <2>10. new.last >= orders[o].last
    <3>1. orders[o].last \in 0..MaxSeq
      BY <1>8 DEF OrderRows
    <3> QED
      BY <1>1, <1>4, <1>8, <2>3, <2>6, <3>1
  <2>11. ASSUME Closed(orders[o]) PROVE new.type = orders[o].type
    <3>1. current.type = orders[o].type
      BY <1>4, <2>11
    <3>2. current # NoOrder /\ Closed(current)
      BY <2>11, <3>1 DEF Closed, NoOrder
    <3> QED
      BY <1>11, <2>3, <3>1, <3>2 DEF Disagrees
  <2>12. exceptions \cup next.conflicts = X
    BY <2>5
  <2> HIDE DEF X
  <2>13. \A p \in Orders :
          /\ IsLatest(next.orders[p], p, Taken(P \cup {r}, X, p))
          /\ next.orders[p].last >= orders[p].last
          /\ Closed(orders[p]) => next.orders[p].type = orders[p].type
    <3> TAKE p \in Orders
    <3>1. CASE p = o
      BY <2>5, <2>9, <2>10, <2>11, <3>1
    <3>2. CASE p # o
      BY <1>2, <1>5, <2>5, <3>2, Zenon
    <3> QED
      BY <3>1, <3>2
  <2>14. FoldIsSound(next, P \cup {r})
    BY <1>7, <2>5, <2>12, <2>13 DEF FoldIsSound
  <2> QED
    BY <2>14 DEF next
<1> QED
  BY <1>9, <1>10, <1>11

(* The fold over a whole batch, by induction on its events.                *)
LEMMA BatchIsSound ==
  ASSUME TypeOK, LogIsOrderly, ProjectionIsSound,
         NEW b \in Seq(Stored), IsInjective(b)
  PROVE  FoldIsSound(Folded(b), processed \cup ToSet(b))
<1> DEFINE Recorded(i) == processed \cup {b[j] : j \in 1..i}
           T == {i \in 0..Len(b) : FoldIsSound(FoldOf(b)[i], Recorded(i))}
<1>0. Len(b) \in Nat /\ DOMAIN b = 1..Len(b) /\ processed \subseteq Stored
      /\ exceptions \subseteq processed
  BY DEF TypeOK
<1>1. \A i \in 0..Len(b) : FoldOf(b)[i] = FoldStep(b, FoldOf(b), i)
  BY <1>0, FoldIsDefined
<1>2. FoldIsSound(FoldOf(b)[0], Recorded(0))
  <2> DEFINE first == [orders |-> orders, conflicts |-> {}]
  <2>0. Recorded(0) = processed
    OBVIOUS
  <2>1. FoldOf(b)[0] = first
    <3>1. 0 \in 0..Len(b)
      BY <1>0
    <3> QED
      BY <1>1, <3>1 DEF FoldStep
  <2>2. exceptions \cup first.conflicts = exceptions /\ first.orders = orders
        /\ first \in [orders : [Orders -> OrderRows], conflicts : SUBSET processed]
    BY DEF TypeOK, OrderRows
  <2>3. \A o \in Orders : IsLatest(orders[o], o, Taken(processed, exceptions, o))
    BY DEF ProjectionIsSound, ProjectionIsLatest, EventsOf, IsLatest, Taken
  <2>4. \A r \in exceptions : IsMoved(r, processed)
    BY DEF ProjectionIsSound, ConflictsComeFromMoves, IsMoved
  <2>5. \A o \in Orders : orders[o].last >= orders[o].last
    BY DEF TypeOK
  <2> HIDE DEF first
  <2>6. FoldIsSound(first, processed)
    BY <2>2, <2>3, <2>4, <2>5 DEF FoldIsSound
  <2> QED
    BY <2>0, <2>1, <2>6
<1>3. ASSUME NEW i \in 0..Len(b), i # Len(b), FoldIsSound(FoldOf(b)[i], Recorded(i))
      PROVE  FoldIsSound(FoldOf(b)[i + 1], Recorded(i + 1))
  <2> DEFINE r == b[i + 1]
             acc == FoldOf(b)[i]
  <2>0. i + 1 \in DOMAIN b /\ i + 1 \in 0..Len(b) /\ i + 1 # 0 /\ (i + 1) - 1 = i
    <3> HIDE DEF r, acc
    <3>1. /\ i + 1 \in 1..Len(b) /\ i + 1 \in 0..Len(b)
          /\ i + 1 # 0 /\ (i + 1) - 1 = i
      BY <1>0, <1>3, NextNumber, Zenon
    <3> QED
      BY <1>0, <3>1, Zenon
  <2>1. r \in Stored
    BY <2>0
  <2>2. Recorded(i + 1) = Recorded(i) \cup {r}
    BY <1>0
  <2>3. FoldOf(b)[i + 1] = IF r \in processed THEN acc ELSE Applied(acc, r)
    BY <1>1, <2>0 DEF FoldStep
  <2>4. CASE r \in processed
    <3>1. Recorded(i + 1) = Recorded(i)
      BY <2>2, <2>4
    <3> QED
      BY <1>3, <2>3, <2>4, <3>1
  <2>5. CASE r \notin processed
    <3>1. Recorded(i) \subseteq Stored /\ exceptions \subseteq Recorded(i)
      BY <1>0
    <3>2. r \notin Recorded(i)
      <4>1. ASSUME NEW j \in 1..i PROVE b[j] # r
        BY <1>0, <2>0, <4>1 DEF IsInjective
      <4> QED
        BY <2>5, <4>1
    <3> HIDE DEF Recorded, r, acc
    <3>3. FoldIsSound(acc, Recorded(i))
      BY <1>3 DEF acc
    <3>4. FoldIsSound(Applied(acc, r), Recorded(i) \cup {r})
      BY <2>1, <3>1, <3>2, <3>3, AppliedIsSound
    <3> QED
      BY <2>2, <2>3, <2>5, <3>4
  <2> QED
    BY <2>4, <2>5
<1> HIDE DEF Recorded
<1>4. 0 \in T
  <2>1. 0 \in 0..Len(b)
    BY <1>0
  <2> QED
    BY <1>2, <2>1
<1>5. ASSUME NEW i \in 0..Len(b), i # Len(b), i \in T PROVE i + 1 \in T
  <2>1. i + 1 \in 0..Len(b)
    BY <1>0, <1>5, NextNumber, Zenon
  <2> QED
    BY <1>3, <1>5, <2>1
<1> HIDE DEF T
<1>6. 0..Len(b) \subseteq T
  BY <1>0, <1>4, <1>5, UpTo
<1>7. Len(b) \in T
  BY <1>0, <1>6
<1>8. FoldIsSound(Folded(b), Recorded(Len(b)))
  BY <1>7 DEF T, Folded
<1>9. Recorded(Len(b)) = processed \cup ToSet(b)
  BY <1>0 DEF Recorded, ToSet
<1> QED
  BY <1>8, <1>9

-----------------------------------------------------------------------------
(* Every step keeps the invariant.                                         *)

\* The invariant holds at first.
LEMMA InitIsSound == Init => IInv
<1> SUFFICES ASSUME Init PROVE IInv
  OBVIOUS
<1>1. Stored = {}
  BY DEF Stored, Rows, Init
<1>2. IsFiniteSet({}) /\ Cardinality({}) = 0
  BY FS_EmptySet
<1>3. LogIsOrderly /\ AnswersAreForTheBatch /\ BatchesAreDistinct
  BY <1>2 DEF Init, Resting, Batch, LogIsOrderly, AnswersAreForTheBatch, BatchesAreDistinct,
     IsInjective
<1>4. ProjectionIsSound
  BY DEF Init, ProjectionIsSound, DeliveredIsProcessed, ProjectionIsLatest, EventsOf,
     ConflictsComeFromMoves
<1>5. Cardinality(request) + Cardinality(reply) <= 1 /\ Cardinality(late) <= MaxLate
  BY <1>2 DEF Init
<1>6. orders \in [Orders -> [last : 0..MaxSeq, type : Types, location : Locations \cup {"none"}]]
  BY DEF Init, NoOrder, Types
<1>7. /\ log \in [Devices -> Seq(Event)] /\ \A d \in Devices : Len(log[d]) <= MaxSeq
      /\ assigned \in Roster /\ roster \in Roster /\ status \in [Devices -> Counts]
      /\ known \subseteq Devices \X (0..MaxAssignments)
  BY DEF Init, Roster, Counts
<1> QED
  BY <1>1, <1>3, <1>4, <1>5, <1>6, <1>7 DEF Init, IInv, TypeOK, Resting

(* What Edge has stored stays as it is while its log grows.                *)
LEMMA LogGrows ==
  ASSUME IInv, NEW d \in Devices, StoreEvent(d)
  PROVE  /\ log' \in [Devices -> Seq(Event)] /\ \A e \in Devices : Len(log'[e]) <= MaxSeq
         /\ LogIsOrderly'
         /\ Stored \subseteq Stored'
         /\ \A r \in Stored : EventOf(r)' = EventOf(r)
<1> DEFINE n == Len(log[d])
<1>1. PICK t \in Types, l \in Locations :
        /\ StartsOrder(d) => t = "CHANGED"
        /\ ~StartsOrder(d) /\ ~MovesOrders => l = Last(log[d]).location
        /\ log' = [log EXCEPT ![d] =
                     Append(@, [order |-> OrderOf(d), type |-> t, location |-> l])]
  BY DEF StoreEvent
<1> DEFINE event == [order |-> OrderOf(d), type |-> t, location |-> l]
<1>2. /\ log \in [Devices -> Seq(Event)] /\ n \in 0..(MaxSeq - 1)
      /\ log[d] \in Seq(Event) /\ DOMAIN log[d] = 1..n
  BY DEF IInv, TypeOK, StoreEvent
<1>3. ASSUME n # 0
      PROVE /\ n \in DOMAIN log[d] /\ log[d][n] \in Event /\ log[d] # <<>>
            /\ OrderOf(d) = log[d][n].order + (IF Closed(log[d][n]) THEN 1 ELSE 0)
            /\ log[d][n].order <= n
  BY <1>2, <1>3 DEF OrderOf, StartsOrder, Last, Closed, IInv, LogIsOrderly
<1>4. OrderOf(d) \in 1..(n + 1)
  <2>1. CASE n = 0
    BY <1>2, <2>1 DEF OrderOf
  <2>2. CASE n # 0
    <3>1. log[d][n].order \in 1..MaxSeq
      BY <1>3, <2>2 DEF Event
    <3> QED
      BY <1>2, <1>3, <2>2, <3>1
  <2> QED
    BY <2>1, <2>2
<1>5. event \in Event
  BY <1>2, <1>4 DEF Event
<1> HIDE DEF event
<1>6. /\ log'[d] = Append(log[d], event) /\ log' \in [Devices -> Seq(Event)]
      /\ \A e \in Devices : e # d => log'[e] = log[e]
  BY <1>1, <1>2, <1>5 DEF event
<1>7. /\ Len(log'[d]) = n + 1 /\ DOMAIN log'[d] = 1..(n + 1) /\ log'[d][n + 1] = event
      /\ \A i \in 1..n : log'[d][i] = log[d][i]
  BY <1>2, <1>5, <1>6
<1>8. \A e \in Devices : Len(log'[e]) <= MaxSeq /\ Len(log[e]) <= Len(log'[e])
  <2> TAKE e \in Devices
  <2>1. CASE e = d
    BY <1>2, <1>7, <2>1
  <2>2. CASE e # d
    <3>1. log'[e] = log[e] /\ Len(log[e]) \in Nat
      BY <1>2, <1>6, <2>2
    <3> QED
      BY <3>1 DEF IInv, TypeOK
  <2> QED
    BY <2>1, <2>2
<1>9. Stored \subseteq Stored'
  <2> SUFFICES ASSUME NEW r \in Stored PROVE r \in Stored'
    OBVIOUS
  <2>1. r \in Rows /\ r[1] \in Devices /\ r[2] \in 1..MaxSeq /\ r[2] <= Len(log[r[1]])
    BY DEF Stored, Rows
  <2>2. Len(log[r[1]]) \in Nat /\ Len(log'[r[1]]) \in Nat
        /\ Len(log[r[1]]) <= Len(log'[r[1]])
    BY <1>2, <1>6, <1>8, <2>1
  <2>3. r[2] <= Len(log'[r[1]])
    <3> DEFINE m == Len(log[r[1]])
               l2 == Len(log'[r[1]])
    <3> HIDE DEF m, l2
    <3>1. m \in Nat /\ l2 \in Nat /\ m <= l2 /\ r[2] <= m /\ r[2] \in 1..MaxSeq
      BY <2>1, <2>2 DEF m, l2
    <3>2. r[2] <= l2
      BY <3>1
    <3> QED
      BY <3>2 DEF l2
  <2> QED
    BY <2>1, <2>3 DEF Stored, Rows
<1>10. ASSUME NEW r \in Stored PROVE EventOf(r)' = EventOf(r)
  <2>1. r[1] \in Devices /\ r[2] \in DOMAIN log[r[1]]
    BY EventType DEF IInv
  <2>2. CASE r[1] = d
    <3>1. r[2] \in 1..n
      BY <1>2, <2>1, <2>2
    <3>2. log'[d][r[2]] = log[d][r[2]]
      BY <1>7, <3>1
    <3> QED
      BY <2>2, <3>2 DEF EventOf
  <2>3. CASE r[1] # d
    BY <1>6, <2>1, <2>3 DEF EventOf
  <2> QED
    BY <2>2, <2>3
<1>11. ASSUME NEW i \in 1..n
       PROVE  /\ log[d][i].order <= OrderOf(d)
              /\ Closed(log[d][i]) => log[d][i].order < OrderOf(d)
  <2>1. n # 0 /\ i \in DOMAIN log[d]
    BY <1>2, <1>11
  <2>2. log[d][i].order \in 1..MaxSeq /\ log[d][n].order \in 1..MaxSeq
    <3>1. log[d][i] \in Event /\ log[d][n] \in Event
      BY <1>2, <1>3, <2>1
    <3> QED
      BY <3>1 DEF Event
  <2>3. i < n => /\ log[d][i].order <= log[d][n].order
                 /\ Closed(log[d][i]) => log[d][i].order < log[d][n].order
    BY <1>3, <2>1 DEF IInv, LogIsOrderly
  <2> QED
    BY <1>3, <2>1, <2>2, <2>3
<1>12. event.order = OrderOf(d)
  BY DEF event
<1>13. \A i, j \in DOMAIN log'[d] :
         /\ log'[d][i].order <= i
         /\ i < j => /\ log'[d][i].order <= log'[d][j].order
                     /\ Closed(log'[d][i]) => log'[d][i].order < log'[d][j].order
  <2> SUFFICES ASSUME NEW i \in 1..(n + 1), NEW j \in 1..(n + 1)
               PROVE  /\ log'[d][i].order <= i
                      /\ i < j => /\ log'[d][i].order <= log'[d][j].order
                                  /\ Closed(log'[d][i]) => log'[d][i].order < log'[d][j].order
    BY <1>7
  <2>1. CASE i = n + 1
    BY <1>2, <1>4, <1>7, <1>12, <2>1
  <2>2. CASE i # n + 1 /\ j = n + 1
    <3>1. i \in 1..n /\ log'[d][i] = log[d][i] /\ log'[d][j] = event
      BY <1>2, <1>7, <2>2
    <3>2. log[d][i].order <= i
      BY <1>2, <3>1 DEF IInv, LogIsOrderly
    <3> QED
      BY <1>11, <1>12, <3>1, <3>2
  <2>3. CASE i # n + 1 /\ j # n + 1
    <3>0. i \in 1..n /\ j \in 1..n
      BY <1>2, <2>3
    <3>1. i \in 1..n /\ j \in 1..n /\ log'[d][i] = log[d][i] /\ log'[d][j] = log[d][j]
      BY <1>7, <3>0
    <3> QED
      BY <1>2, <3>1 DEF IInv, LogIsOrderly
  <2> QED
    BY <2>1, <2>2, <2>3
<1>14. LogIsOrderly'
  <2> SUFFICES ASSUME NEW e \in Devices
               PROVE  (\A i, j \in DOMAIN log[e] :
                         /\ log[e][i].order <= i
                         /\ i < j => /\ log[e][i].order <= log[e][j].order
                                     /\ Closed(log[e][i]) => log[e][i].order < log[e][j].order)'
    BY DEF LogIsOrderly
  <2>1. CASE e = d
    BY <1>13, <2>1 DEF Closed
  <2>2. CASE e # d
    <3>1. log'[e] = log[e]
      BY <1>6, <2>2
    <3> QED
      BY <3>1 DEF IInv, LogIsOrderly, Closed
  <2> QED
    BY <2>1, <2>2
<1> QED
  BY <1>6, <1>8, <1>9, <1>10, <1>14

\* A new event of a register is in no batch and in no projection.
LEMMA StoreEventIsSound ==
  ASSUME IInv, NEW d \in Devices, StoreEvent(d)
  PROVE  IInv'
<1>1. UNCHANGED <<outboxVars, assigned, forwarder, networkVars, cloudVars>>
  BY DEF StoreEvent
<1>2. /\ log' \in [Devices -> Seq(Event)] /\ \A e \in Devices : Len(log'[e]) <= MaxSeq
      /\ LogIsOrderly'
      /\ Stored \subseteq Stored'
      /\ \A r \in Stored : EventOf(r)' = EventOf(r)
  BY LogGrows
<1>3. \A b \in Seq(Stored) : b \in Seq(Stored')
  BY <1>2
<1>4. \A q : RequestOK(q) => RequestOK(q)'
  BY <1>3 DEF RequestOK
<1>5. TypeOK'
  <2>1. (\A q \in request \cup late : RequestOK(q))'
    BY <1>1, <1>4 DEF IInv, TypeOK, networkVars
  <2>2. forwarder' \in [pc : {"idle", "selected", "sending"}, rows : Seq(Stored')]
    BY <1>1, <1>3 DEF IInv, TypeOK
  <2>3. (\A conflicts \in reply : conflicts \subseteq Stored)'
    BY <1>1, <1>2 DEF IInv, TypeOK, networkVars
  <2> QED
    BY <1>1, <1>2, <2>1, <2>2, <2>3
       DEF IInv, TypeOK, outboxVars, networkVars, cloudVars, eventVars
<1>6. AnswersAreForTheBatch' /\ BatchesAreDistinct'
  BY <1>1 DEF IInv, AnswersAreForTheBatch, BatchesAreDistinct, Batch, networkVars, cloudVars,
     eventVars
<1>7. processed' = processed /\ exceptions' = exceptions /\ orders' = orders
      /\ delivered' = delivered /\ processed \subseteq Stored /\ exceptions \subseteq processed
  BY <1>1 DEF cloudVars, eventVars, outboxVars, IInv, TypeOK
<1>8. \A r \in processed : EventOf(r)' = EventOf(r)
  BY <1>2, <1>7
<1>9. \A o \in Orders : EventsOf(o)' = EventsOf(o)
  BY <1>7, <1>8 DEF EventsOf
<1>10. ProjectionIsLatest'
  <2> SUFFICES ASSUME NEW o \in Orders
               PROVE  IsLatest(orders[o], o, EventsOf(o))'
    BY DEF ProjectionIsLatest, IsLatest
  <2>1. IsLatest(orders[o], o, EventsOf(o))
    BY DEF IInv, ProjectionIsSound, ProjectionIsLatest, IsLatest
  <2>2. \A r \in EventsOf(o) : EventOf(r)' = EventOf(r)
    BY <1>8 DEF EventsOf
  <2>3. EventsOf(o)' = EventsOf(o) /\ orders' = orders
    BY <1>7, <1>9
  <2> HIDE DEF EventsOf, EventOf
  <2> QED
    BY <2>1, <2>2, <2>3 DEF IsLatest
<1>11. ConflictsComeFromMoves'
  BY <1>7, <1>8 DEF IInv, ProjectionIsSound, ConflictsComeFromMoves
<1>12. DeliveredIsProcessed'
  BY <1>7 DEF IInv, ProjectionIsSound, DeliveredIsProcessed
<1> QED
  BY <1>2, <1>5, <1>6, <1>10, <1>11, <1>12 DEF IInv, ProjectionIsSound

(* Steps that leave the log alone leave the events alone, and those that   *)
(* leave the Cloud's tables alone leave the projection sound.              *)
LEMMA LogStays ==
  ASSUME log' = log
  PROVE  /\ Stored' = Stored
         /\ \A r : EventOf(r)' = EventOf(r)
         /\ \A q : RequestOK(q)' <=> RequestOK(q)
         /\ LogIsOrderly' <=> LogIsOrderly
  BY DEF Stored, EventOf, RequestOK, LogIsOrderly

\* The projection does not depend on rows, requests and assignments.
LEMMA ProjectionStays ==
  ASSUME IInv, UNCHANGED <<log, eventVars>>, delivered' \subseteq processed
  PROVE  ProjectionIsSound'
<1>1. processed' = processed /\ exceptions' = exceptions /\ orders' = orders
  BY DEF eventVars
<1>2. \A r : EventOf(r)' = EventOf(r)
  BY LogStays
<1>3. \A o : EventsOf(o)' = EventsOf(o)
  BY <1>1, <1>2 DEF EventsOf
<1>4. ProjectionIsLatest'
  <2> SUFFICES ASSUME NEW o \in Orders
               PROVE  IsLatest(orders[o], o, EventsOf(o))'
    BY DEF ProjectionIsLatest, IsLatest
  <2>1. IsLatest(orders[o], o, EventsOf(o))
    BY DEF IInv, ProjectionIsSound, ProjectionIsLatest, IsLatest
  <2> QED
    BY <1>1, <1>2, <1>3, <2>1 DEF IsLatest
<1>5. ConflictsComeFromMoves'
  BY <1>1, <1>2 DEF IInv, ProjectionIsSound, ConflictsComeFromMoves
<1> QED
  BY <1>1, <1>4, <1>5 DEF ProjectionIsSound, DeliveredIsProcessed

\* Operators change assignments and locations, not events.
LEMMA AdministrationIsSound ==
  ASSUME IInv, NEW d \in Devices, ChangeAssignment(d) \/ ConfigureLocation(d)
  PROVE  IInv'
<1>1. UNCHANGED <<log, outboxVars, forwarder, networkVars, eventVars, roster>>
  BY DEF ChangeAssignment, ConfigureLocation, cloudVars
<1>2. /\ Stored' = Stored /\ LogIsOrderly'
      /\ \A q : RequestOK(q)' <=> RequestOK(q)
  BY <1>1, LogStays DEF IInv
<1>3. assigned' \in Roster /\ known' \subseteq Devices \X (0..MaxAssignments)
  <2>1. assigned \in Roster /\ known \subseteq Devices \X (0..MaxAssignments)
    BY DEF IInv, TypeOK
  <2>2. CASE ChangeAssignment(d)
    BY <2>1, <2>2 DEF ChangeAssignment, cloudVars, Roster
  <2>3. CASE ConfigureLocation(d)
    <3>1. PICK k \in 1..MaxAssignments : known' = known \cup {<<d, k>>}
      BY <2>3 DEF ConfigureLocation
    <3>2. assigned' = assigned
      BY <2>3 DEF ConfigureLocation
    <3> QED
      BY <2>1, <3>1, <3>2
  <2> QED
    BY <2>2, <2>3
<1>4. ProjectionIsSound'
  BY <1>1, ProjectionStays DEF outboxVars, IInv, ProjectionIsSound, DeliveredIsProcessed
<1>5. AnswersAreForTheBatch' /\ BatchesAreDistinct'
  BY <1>1 DEF IInv, AnswersAreForTheBatch, BatchesAreDistinct, Batch, networkVars, eventVars
<1>6. TypeOK'
  BY <1>1, <1>2, <1>3 DEF IInv, TypeOK, outboxVars, networkVars, eventVars
<1> QED
  BY <1>2, <1>4, <1>5, <1>6 DEF IInv

\* drainOnce selects rows that are stored and not delivered.
LEMMA SelectRowsIsSound ==
  ASSUME IInv, SelectRows
  PROVE  IInv'
<1>1. UNCHANGED <<log, outboxVars, assigned, networkVars, cloudVars>> /\ forwarder.pc = "idle"
  BY DEF SelectRows
<1>2. PICK b \in BoundedSeq(Queued, BatchSize) :
        DueBatch(b) /\ forwarder' = [pc |-> "selected", rows |-> b]
  BY DEF SelectRows
<1>3. b \in Seq(Stored)
  <2>1. PICK m \in 0..BatchSize : b \in [1..m -> Queued]
    BY <1>2 DEF BoundedSeq, SeqOf
  <2> QED
    BY <2>1 DEF Queued
<1>4. /\ Stored' = Stored /\ LogIsOrderly'
      /\ \A q : RequestOK(q)' <=> RequestOK(q)
  BY <1>1, LogStays DEF IInv
<1>5. ProjectionIsSound'
  BY <1>1, ProjectionStays DEF outboxVars, cloudVars, IInv, ProjectionIsSound, DeliveredIsProcessed
<1>6. request = {} /\ reply = {}
  BY <1>1 DEF IInv, AnswersAreForTheBatch
<1>7. AnswersAreForTheBatch' /\ BatchesAreDistinct'
  BY <1>1, <1>2, <1>6
     DEF IInv, AnswersAreForTheBatch, BatchesAreDistinct, Batch, DueBatch, networkVars
<1>8. TypeOK'
  <2>1. forwarder' \in [pc : {"idle", "selected", "sending"}, rows : Seq(Stored')]
    BY <1>2, <1>3, <1>4
  <2> QED
    BY <1>1, <1>4, <2>1 DEF IInv, TypeOK, outboxVars, networkVars, cloudVars, eventVars
<1> QED
  BY <1>4, <1>5, <1>7, <1>8 DEF IInv

\* A request carries the batch, or the roster alone.
LEMMA SendIsSound ==
  ASSUME IInv, SendBatch \/ SendRoster
  PROVE  IInv'
<1>1. UNCHANGED <<log, outboxVars, assigned, late, reply, cloudVars>>
  BY DEF SendBatch, SendRoster
<1>2. forwarder'.pc = "sending" /\ forwarder.pc # "sending" /\ forwarder'.rows \in Seq(Stored)
      /\ forwarder' \in [pc : {"idle", "selected", "sending"}, rows : Seq(Stored)]
      /\ IsInjective(forwarder'.rows)
  <2>1. forwarder \in [pc : {"idle", "selected", "sending"}, rows : Seq(Stored)]
        /\ IsInjective(forwarder.rows)
    BY DEF IInv, TypeOK, BatchesAreDistinct, Batch
  <2>2. CASE SendBatch
    <3>1. forwarder' = [forwarder EXCEPT !.pc = "sending"] /\ forwarder.pc = "selected"
      BY <2>2 DEF SendBatch
    <3>2. forwarder'.pc = "sending" /\ forwarder'.rows = forwarder.rows
      BY <2>1, <3>1
    <3> QED
      BY <2>1, <3>1, <3>2
  <2>3. CASE SendRoster
    <3>1. forwarder' = [pc |-> "sending", rows |-> <<>>] /\ forwarder.pc = "idle"
      BY <2>3 DEF SendRoster
    <3>2. <<>> \in Seq(Stored) /\ IsInjective(<<>>)
      BY DEF IsInjective
    <3> QED
      BY <3>1, <3>2
  <2> QED
    BY <2>2, <2>3
<1>3. PICK q \in request' :
        request' = {q} /\ RequestOK(q) /\ q.rows = forwarder'.rows
  <2>1. CASE SendBatch
    <3> DEFINE q == [rows     |-> Batch,
                     statuses |-> [d \in DevicesOf(Batch) |-> StatusOf(d)],
                     roster   |-> assigned]
    <3>1. ASSUME NEW d \in DevicesOf(Batch) PROVE StatusOf(d) \in Counts
      <4>1. PICK r \in Stored : d = r[1]
        BY DEF DevicesOf, ToSet, Batch, IInv, TypeOK
      <4>2. d \in Devices
        BY <4>1, EventType DEF IInv
      <4>3. Len(log[d]) \in 0..MaxSeq
        BY <4>2 DEF IInv, TypeOK
      <4> QED
        BY <4>2, <4>3, BacklogIsBounded DEF StatusOf, Counts
    <3>2. RequestOK(q)
      BY <3>1 DEF RequestOK, IInv, TypeOK, Batch
    <3>3. q.rows = forwarder'.rows /\ request' = {q}
      BY <2>1 DEF SendBatch, Batch, IInv, TypeOK
    <3> QED
      BY <3>2, <3>3
  <2>2. CASE SendRoster
    <3> DEFINE q == [rows |-> <<>>, statuses |-> <<>>, roster |-> assigned]
    <3>1. q.statuses \in [DevicesOf(q.rows) -> Counts]
      <4>1. DevicesOf(<<>>) = {}
        BY DEF DevicesOf, ToSet
      <4>2. <<>> \in [{} -> Counts]
        OBVIOUS
      <4> QED
        BY <4>1, <4>2
    <3>2. RequestOK(q)
      BY <3>1 DEF RequestOK, IInv, TypeOK
    <3>3. q.rows = forwarder'.rows /\ request' = {q}
      BY <2>2 DEF SendRoster
    <3> QED
      BY <3>2, <3>3
  <2> QED
    BY <2>1, <2>2
<1>4. /\ Stored' = Stored /\ LogIsOrderly'
      /\ \A p : RequestOK(p)' <=> RequestOK(p)
  BY <1>1, LogStays DEF IInv
<1>5. ProjectionIsSound'
  BY <1>1, ProjectionStays DEF outboxVars, cloudVars, IInv, ProjectionIsSound, DeliveredIsProcessed
<1>6. reply = {}
  BY <1>2 DEF IInv, AnswersAreForTheBatch
<1>7. AnswersAreForTheBatch' /\ BatchesAreDistinct'
  <2>1. AnswersAreForTheBatch'
    BY <1>1, <1>2, <1>3, <1>6 DEF IInv, AnswersAreForTheBatch, Batch
  <2>2. BatchesAreDistinct'
    BY <1>1, <1>2, <1>3 DEF IInv, BatchesAreDistinct, Batch
  <2> QED
    BY <2>1, <2>2
<1>8. TypeOK'
  <2>1. (\A p \in request \cup late : RequestOK(p))'
    BY <1>1, <1>3, <1>4 DEF IInv, TypeOK
  <2>2. Cardinality(request') + Cardinality(reply') <= 1
    <3>1. Cardinality(request') = 1
      BY <1>3, FS_Singleton
    <3>2. Cardinality(reply') = 0
      BY <1>1, <1>6, FS_EmptySet
    <3> QED
      BY <3>1, <3>2
  <2> QED
    BY <1>1, <1>2, <1>4, <1>6, <2>1, <2>2 DEF IInv, TypeOK, outboxVars, cloudVars, eventVars
<1> QED
  BY <1>4, <1>5, <1>7, <1>8 DEF IInv

(* An answer is handled after the Cloud has recorded the batch.            *)
LEMMA HandleReplyIsSound ==
  ASSUME IInv, HandleReply
  PROVE  IInv'
<1>1. UNCHANGED <<log, assigned, request, late, cloudVars>> /\ forwarder' = Resting
      /\ delivered' = delivered \cup ToSet(Batch) /\ failed' = failed \ ToSet(Batch) /\ reply' = {}
  BY DEF HandleReply
<1>2. PICK conflicts \in reply : noted' = noted \cup conflicts
  BY DEF HandleReply
<1>3. ToSet(Batch) \subseteq processed /\ request = {} /\ ToSet(Batch) \subseteq Stored
  BY <1>2 DEF IInv, AnswersAreForTheBatch, TypeOK
<1>4. /\ Stored' = Stored /\ LogIsOrderly'
      /\ \A q : RequestOK(q)' <=> RequestOK(q)
  BY <1>1, LogStays DEF IInv
<1>5. ProjectionIsSound'
  BY <1>1, <1>3, ProjectionStays DEF cloudVars, IInv, ProjectionIsSound, DeliveredIsProcessed
<1>6. AnswersAreForTheBatch' /\ BatchesAreDistinct'
  BY <1>1, <1>3
     DEF IInv, AnswersAreForTheBatch, BatchesAreDistinct, Batch, Resting, IsInjective
<1>7. TypeOK'
  <2>1. Cardinality(request') + Cardinality(reply') <= 1
    BY <1>1, <1>3, FS_EmptySet
  <2>2. forwarder' \in [pc : {"idle", "selected", "sending"}, rows : Seq(Stored')]
    BY <1>1 DEF Resting
  <2> QED
    BY <1>1, <1>2, <1>3, <1>4, <2>1, <2>2 DEF IInv, TypeOK, cloudVars, eventVars
<1> QED
  BY <1>4, <1>5, <1>6, <1>7 DEF IInv

(* A request that is given up is the one of the batch, or there is none.   *)
LEMMA AbandonedRequests ==
  ASSUME IInv, AbandonRequest
  PROVE  /\ request' = {} /\ reply' = {} /\ late' \subseteq late \cup request
         /\ IsFiniteSet(late') /\ Cardinality(late') <= MaxLate
<1>1. CASE late' = late
  BY <1>1 DEF AbandonRequest, IInv, TypeOK, AnswersAreForTheBatch
<1>2. CASE late' = late \cup request /\ Cardinality(late') <= MaxLate
  <2>1. CASE request = {}
    BY <1>2, <2>1 DEF AbandonRequest, IInv, AnswersAreForTheBatch
  <2>2. CASE request # {}
    <3>1. PICK q \in request : request = {q}
      BY <2>2 DEF IInv, AnswersAreForTheBatch
    <3>2. IsFiniteSet(late \cup {q})
      BY FS_AddElement DEF IInv, AnswersAreForTheBatch
    <3> QED
      BY <1>2, <3>1, <3>2 DEF AbandonRequest
  <2> QED
    BY <2>1, <2>2
<1> QED
  BY <1>1, <1>2 DEF AbandonRequest

\* A request that was given up may still arrive.
LEMMA GivingUpIsSound ==
  ASSUME IInv, SendFails \/ RestartEdge
  PROVE  IInv'
<1>1. UNCHANGED <<log, assigned, delivered, noted, cloudVars>> /\ forwarder' = Resting
      /\ AbandonRequest /\ failed' \subseteq failed \cup ToSet(Batch)
  BY DEF SendFails, RestartEdge, outboxVars, KeptAfterFailure
<1>2. /\ request' = {} /\ reply' = {} /\ late' \subseteq late \cup request
      /\ IsFiniteSet(late') /\ Cardinality(late') <= MaxLate
  BY <1>1, AbandonedRequests
<1>3. ToSet(Batch) \subseteq Stored
  BY DEF IInv, TypeOK, Batch, ToSet
<1>4. /\ Stored' = Stored /\ LogIsOrderly'
      /\ \A q : RequestOK(q)' <=> RequestOK(q)
  BY <1>1, LogStays DEF IInv
<1>5. ProjectionIsSound'
  BY <1>1, ProjectionStays DEF cloudVars, IInv, ProjectionIsSound, DeliveredIsProcessed
<1>6. AnswersAreForTheBatch' /\ BatchesAreDistinct'
  BY <1>1, <1>2
     DEF IInv, AnswersAreForTheBatch, BatchesAreDistinct, Batch, Resting, IsInjective
<1>7. TypeOK'
  <2>1. Cardinality(request') + Cardinality(reply') <= 1
    BY <1>2, FS_EmptySet
  <2>2. forwarder' \in [pc : {"idle", "selected", "sending"}, rows : Seq(Stored')]
    BY <1>1 DEF Resting
  <2>3. (\A q \in request \cup late : RequestOK(q))'
    BY <1>2, <1>4 DEF IInv, TypeOK
  <2> QED
    BY <1>1, <1>2, <1>3, <1>4, <2>1, <2>2, <2>3 DEF IInv, TypeOK, cloudVars, eventVars
<1> QED
  BY <1>4, <1>5, <1>6, <1>7 DEF IInv

\* A refusal changes nothing at the Cloud.
LEMMA CloudRefusesIsSound ==
  ASSUME IInv, CloudRefuses
  PROVE  IInv'
<1>1. UNCHANGED <<log, outboxVars, assigned, forwarder, reply, cloudVars>>
  BY DEF CloudRefuses
<1>2. PICK q \in request \cup late : request' = request \ {q} /\ late' = late \ {q}
  BY DEF CloudRefuses
<1>3. IsFiniteSet(late') /\ Cardinality(late') <= MaxLate /\ late' \subseteq late
  <2>1. /\ IsFiniteSet(late \ {q})
        /\ Cardinality(late \ {q}) = IF q \in late THEN Cardinality(late) - 1 ELSE Cardinality(late)
    BY FS_RemoveElement DEF IInv, AnswersAreForTheBatch
  <2>2. Cardinality(late) \in Nat
    BY FS_CardinalityType DEF IInv, AnswersAreForTheBatch
  <2> QED
    BY <1>2, <2>1, <2>2 DEF IInv, TypeOK
<1>4. request' = request \/ request' = {}
  BY <1>2 DEF IInv, AnswersAreForTheBatch
<1>5. /\ Stored' = Stored /\ LogIsOrderly'
      /\ \A p : RequestOK(p)' <=> RequestOK(p)
  BY <1>1, LogStays DEF IInv
<1>6. ProjectionIsSound'
  BY <1>1, ProjectionStays DEF outboxVars, cloudVars, IInv, ProjectionIsSound, DeliveredIsProcessed
<1>7. AnswersAreForTheBatch'
  BY <1>1, <1>3, <1>4 DEF IInv, AnswersAreForTheBatch, Batch, cloudVars, eventVars
<1>8. BatchesAreDistinct'
  BY <1>1, <1>3, <1>4 DEF IInv, BatchesAreDistinct, Batch
<1>9. TypeOK'
  <2>1. Cardinality(request') + Cardinality(reply') <= 1
    <3>1. CASE request' = request
      BY <1>1, <3>1 DEF IInv, TypeOK
    <3>2. CASE request = {}
      BY <1>1, <1>4, <3>2 DEF IInv, TypeOK
    <3>3. CASE request' = {} /\ request # {}
      BY <1>1, <3>3, FS_EmptySet DEF IInv, AnswersAreForTheBatch
    <3> QED
      BY <1>4, <3>1, <3>2, <3>3
  <2>2. (\A p \in request \cup late : RequestOK(p))'
    BY <1>3, <1>4, <1>5 DEF IInv, TypeOK
  <2> QED
    BY <1>1, <1>3, <1>5, <2>1, <2>2 DEF IInv, TypeOK, outboxVars, cloudVars, eventVars
<1> QED
  BY <1>5, <1>6, <1>7, <1>8, <1>9 DEF IInv

(* Recording a request, in time or late.                                   *)
LEMMA IngestedIsSound ==
  ASSUME IInv, NEW q \in request \cup late, IngestEvents(q), UNCHANGED <<log, delivered>>
  PROVE  /\ processed \subseteq processed' /\ processed' = processed \cup ToSet(q.rows)
         /\ processed' \subseteq Stored /\ exceptions' \subseteq processed'
         /\ Folded(q.rows).conflicts \subseteq Stored
         /\ orders' \in [Orders -> OrderRows] /\ status' \in [Devices -> Counts]
         /\ ProjectionIsSound'
         /\ \A o \in Orders : /\ orders'[o].last >= orders[o].last
                              /\ Closed(orders[o]) => orders'[o].type = orders[o].type
         /\ \A d \in Devices : status'[d].seen >= status[d].seen
<1> DEFINE fold == Folded(q.rows)
           P    == processed \cup ToSet(q.rows)
<1>1. RequestOK(q) /\ IsInjective(q.rows) /\ q.rows \in Seq(Stored)
  BY DEF IInv, TypeOK, BatchesAreDistinct, RequestOK
<1>2. FoldIsSound(fold, P)
  BY <1>1, BatchIsSound DEF IInv
<1>3. P \subseteq Stored /\ exceptions \subseteq P
  BY <1>1 DEF ToSet, IInv, TypeOK
<1>4. /\ processed' = P /\ orders' = fold.orders /\ exceptions' = exceptions \cup fold.conflicts
      /\ status' = MergedStatus(q)
  BY DEF IngestEvents
<1>5. \A r : EventOf(r)' = EventOf(r)
  BY LogStays
<1> HIDE DEF fold, P
<1>6. /\ fold \in [orders : [Orders -> OrderRows], conflicts : SUBSET P]
      /\ \A o \in Orders :
           /\ IsLatest(orders'[o], o, Taken(P, exceptions', o))
           /\ orders'[o].last >= orders[o].last
           /\ Closed(orders[o]) => orders'[o].type = orders[o].type
      /\ \A r \in exceptions' : IsMoved(r, P)
  BY <1>2, <1>4 DEF FoldIsSound
<1>7. ProjectionIsLatest'
  <2> SUFFICES ASSUME NEW o \in Orders
               PROVE  IsLatest(orders[o], o, EventsOf(o))'
    BY DEF ProjectionIsLatest, IsLatest
  <2>1. EventsOf(o)' = Taken(P, exceptions', o)
    BY <1>4, <1>5 DEF EventsOf, Taken
  <2>2. IsLatest(orders'[o], o, EventsOf(o)')
    BY <1>6, <2>1
  <2> HIDE DEF EventsOf, EventOf
  <2> QED
    BY <1>5, <2>2 DEF IsLatest
<1>8. ConflictsComeFromMoves'
  BY <1>4, <1>5, <1>6 DEF ConflictsComeFromMoves, IsMoved
<1>9. DeliveredIsProcessed'
  BY <1>4 DEF P, IInv, ProjectionIsSound, DeliveredIsProcessed
<1>10. ASSUME NEW d \in Devices
       PROVE  MergedStatus(q)[d] \in Counts /\ MergedStatus(q)[d].seen >= status[d].seen
  <2>1. status[d] \in Counts
    BY DEF IInv, TypeOK
  <2>2. CASE d \notin DOMAIN q.statuses
    BY <2>1, <2>2 DEF MergedStatus, Counts
  <2>3. CASE d \in DOMAIN q.statuses
    <3>1. q.statuses[d] \in Counts
      BY <1>1, <2>3 DEF RequestOK
    <3>2. DeliveredOf(q.rows, d) \in Nat
      <4>1. q.rows \in Seq(Rows)
        BY <1>1 DEF Stored
      <4> QED
        BY <4>1, DeliveredIsANumber
    <3>3. BacklogAfter(q.rows, d, q.statuses[d].backlog) \in 0..MaxSeq
      BY <3>1, <3>2 DEF BacklogAfter, Larger, Counts
    <3>4. Larger(status[d].seen, q.statuses[d].seen) \in 0..MaxSeq
          /\ Larger(status[d].seen, q.statuses[d].seen) >= status[d].seen
      BY <2>1, <3>1 DEF Larger, Counts
    <3> QED
      BY <2>3, <3>3, <3>4 DEF MergedStatus, Counts
  <2> QED
    BY <2>2, <2>3
<1>11. MergedStatus(q) \in [Devices -> Counts]
  BY <1>10 DEF MergedStatus
<1> QED
  BY <1>3, <1>4, <1>6, <1>7, <1>8, <1>9, <1>10, <1>11 DEF ProjectionIsSound, fold, P

\* The merge by source time takes no assignment back.
LEMMA MergedRosterIsSound ==
  ASSUME IInv, NEW q \in request \cup late
  PROVE  /\ MergedRoster(q) \in Roster
         /\ \A d \in Devices : MergedRoster(q)[d] >= roster[d]
<1>1. q.roster \in Roster /\ roster \in Roster
  BY DEF IInv, TypeOK, RequestOK
<1>2. \A d \in Devices : roster[d] \in 0..MaxAssignments /\ q.roster[d] \in 0..MaxAssignments
  BY <1>1 DEF Roster
<1> QED
  BY <1>2 DEF MergedRoster, Larger, Roster

\* ingest, in time or late, in whole or up to the roster.
LEMMA IngestIsSound ==
  ASSUME IInv, CloudIngest \/ CloudIngestLate \/ CloudIngestFails
  PROVE  IInv'
<1>1. UNCHANGED <<log, outboxVars, assigned, forwarder, known>>
  BY DEF CloudIngest, CloudIngestLate, CloudIngestFails
<1>2. /\ Stored' = Stored /\ LogIsOrderly'
      /\ \A p : RequestOK(p)' <=> RequestOK(p)
  BY <1>1, LogStays DEF IInv
<1>3. delivered' = delivered
  BY <1>1 DEF outboxVars
<1>4. CASE CloudIngest
  <2>1. PICK q \in request :
          /\ roster' = MergedRoster(q) /\ IngestEvents(q)
          /\ reply' = {Folded(q.rows).conflicts}
    BY <1>4 DEF CloudIngest
  <2>2. request' = {} /\ late' = late
    BY <1>4 DEF CloudIngest
  <2>3. /\ processed' = processed \cup ToSet(q.rows)
        /\ processed' \subseteq Stored /\ exceptions' \subseteq processed'
        /\ Folded(q.rows).conflicts \subseteq Stored
        /\ orders' \in [Orders -> OrderRows] /\ status' \in [Devices -> Counts]
        /\ ProjectionIsSound'
    BY <1>1, <1>3, <2>1, IngestedIsSound
  <2>4. roster' \in Roster
    BY <2>1, MergedRosterIsSound
  <2>5. q.rows = Batch /\ forwarder.pc = "sending"
    BY <2>1 DEF IInv, AnswersAreForTheBatch
  <2>6. AnswersAreForTheBatch'
    BY <1>1, <2>1, <2>2, <2>3, <2>5 DEF IInv, AnswersAreForTheBatch, Batch
  <2>7. BatchesAreDistinct'
    BY <1>1, <2>2 DEF IInv, BatchesAreDistinct, Batch
  <2>8. Cardinality(request') + Cardinality(reply') <= 1
    <3>1. Cardinality(reply') = 1
      BY <2>1, FS_Singleton
    <3>2. Cardinality(request') = 0
      BY <2>2, FS_EmptySet
    <3> QED
      BY <3>1, <3>2
  <2>9. TypeOK'
    BY <1>1, <1>2, <2>1, <2>2, <2>3, <2>4, <2>8 DEF IInv, TypeOK, outboxVars, OrderRows
  <2> QED
    BY <1>2, <2>3, <2>6, <2>7, <2>9 DEF IInv
<1>5. CASE CloudIngestLate
  <2>1. PICK q \in late : roster' = MergedRoster(q) /\ IngestEvents(q) /\ late' = late \ {q}
    BY <1>5 DEF CloudIngestLate
  <2>2. request' = request /\ reply' = reply
    BY <1>5 DEF CloudIngestLate
  <2>3. /\ processed \subseteq processed'
        /\ processed' \subseteq Stored /\ exceptions' \subseteq processed'
        /\ orders' \in [Orders -> OrderRows] /\ status' \in [Devices -> Counts]
        /\ ProjectionIsSound'
    BY <1>1, <1>3, <2>1, IngestedIsSound
  <2>4. roster' \in Roster
    BY <2>1, MergedRosterIsSound
  <2>5. IsFiniteSet(late') /\ Cardinality(late') <= MaxLate
    <3>1. IsFiniteSet(late) /\ late' \in SUBSET late
      BY <2>1 DEF IInv, AnswersAreForTheBatch
    <3>2. IsFiniteSet(late') /\ Cardinality(late') <= Cardinality(late)
      BY <3>1, FS_Subset
    <3>3. Cardinality(late) \in Nat /\ Cardinality(late') \in Nat
      BY <3>1, <3>2, FS_CardinalityType
    <3> QED
      BY <3>2, <3>3 DEF IInv, TypeOK
  <2>6. AnswersAreForTheBatch'
    BY <1>1, <2>2, <2>3, <2>5 DEF IInv, AnswersAreForTheBatch, Batch
  <2>7. BatchesAreDistinct'
    BY <1>1, <2>1, <2>2 DEF IInv, BatchesAreDistinct, Batch
  <2>8. TypeOK'
    <3>1. (\A p \in request \cup late : RequestOK(p))'
      BY <1>2, <2>1, <2>2 DEF IInv, TypeOK
    <3> QED
      BY <1>1, <1>2, <2>2, <2>3, <2>4, <2>5, <3>1 DEF IInv, TypeOK, outboxVars, OrderRows
  <2> QED
    BY <1>2, <2>3, <2>6, <2>7, <2>8 DEF IInv
<1>6. CASE CloudIngestFails
  <2>1. PICK q \in request : roster' = MergedRoster(q)
    BY <1>6 DEF CloudIngestFails
  <2>2. request' = {} /\ UNCHANGED <<late, reply, eventVars>>
    BY <1>6 DEF CloudIngestFails
  <2>3. roster' \in Roster
    BY <2>1, MergedRosterIsSound
  <2>4. ProjectionIsSound'
    BY <1>1, <1>3, <2>2, ProjectionStays DEF IInv, ProjectionIsSound, DeliveredIsProcessed
  <2>5. reply = {}
    BY <2>1 DEF IInv, AnswersAreForTheBatch
  <2>6. AnswersAreForTheBatch' /\ BatchesAreDistinct'
    BY <1>1, <2>2, <2>5 DEF IInv, AnswersAreForTheBatch, BatchesAreDistinct, Batch
  <2>7. Cardinality(request') + Cardinality(reply') <= 1
    BY <2>2, <2>5, FS_EmptySet
  <2>8. TypeOK'
    <3>1. (\A p \in request \cup late : RequestOK(p))'
      BY <1>2, <2>2 DEF IInv, TypeOK
    <3> QED
      BY <1>1, <1>2, <2>2, <2>3, <2>5, <2>7, <3>1 DEF IInv, TypeOK, outboxVars, eventVars
  <2> QED
    BY <1>2, <2>4, <2>6, <2>8 DEF IInv
<1> QED
  BY <1>4, <1>5, <1>6

\* And when nothing happens.
LEMMA StutterIsSound ==
  ASSUME IInv, UNCHANGED vars
  PROVE  IInv'
<1>1. UNCHANGED <<log, delivered, failed, noted, assigned, forwarder, request, late, reply,
                  processed, exceptions, orders, status, roster, known>>
  BY DEF vars, outboxVars, networkVars, cloudVars, eventVars
<1>2. /\ Stored' = Stored /\ LogIsOrderly'
      /\ \A p : RequestOK(p)' <=> RequestOK(p)
  BY <1>1, LogStays DEF IInv
<1>3. ProjectionIsSound'
  BY <1>1, ProjectionStays DEF eventVars, IInv, ProjectionIsSound, DeliveredIsProcessed
<1>4. AnswersAreForTheBatch' /\ BatchesAreDistinct'
  BY <1>1 DEF IInv, AnswersAreForTheBatch, BatchesAreDistinct, Batch
<1>5. TypeOK'
  BY <1>1, <1>2 DEF IInv, TypeOK
<1> QED
  BY <1>2, <1>3, <1>4, <1>5 DEF IInv

\* Every action of the specification keeps the invariant.
LEMMA StepIsSound ==
  ASSUME IInv, [Next]_vars
  PROVE  IInv'
BY StoreEventIsSound, AdministrationIsSound, SelectRowsIsSound, SendIsSound, HandleReplyIsSound,
   GivingUpIsSound, CloudRefusesIsSound, IngestIsSound, StutterIsSound DEF Next

-----------------------------------------------------------------------------
(* The theorems.                                                           *)

(* The invariant holds of Edge and the Cloud, whatever becomes of the      *)
(* requests between them and in whatever order they are ingested.          *)
THEOREM SpecIsSound == Spec => []IInv
BY InitIsSound, StepIsSound, PTL DEF Spec

(* Types; whatever is in the outbox, on the wire or at the Cloud is an     *)
(* event that Edge stored.                                                 *)
THEOREM CloudSyncTypes == Spec => []TypeOK
BY SpecIsSound, PTL DEF IInv

(* Whatever is lost, delayed, refused, repeated, reordered or restarted:   *)
(* Edge marks as delivered (drainOnce) only what the Cloud has recorded,   *)
(* the Cloud's row of an order (applyOrder) is the latest of its events it *)
(* has taken, and it records a conflict only for an order that names two   *)
(* locations.                                                              *)
THEOREM CloudProjectionIsSound == Spec => []ProjectionIsSound
BY SpecIsSound, PTL DEF IInv

(* No request, however old, takes back an order's row, reopens a closed    *)
(* order or closes it another way, or lowers a register's sequence or      *)
(* assignment (ingest and its upserts).                                    *)
THEOREM CloudOnlyMovesForward == Spec => CloudNeverGoesBack
<1> DEFINE Forward ==
      /\ \A o \in Orders : /\ orders'[o].last >= orders[o].last
                           /\ Closed(orders[o]) => orders'[o].type = orders[o].type
      /\ \A d \in Devices : status'[d].seen >= status[d].seen /\ roster'[d] >= roster[d]
<1>1. ASSUME IInv, [Next]_vars PROVE Forward
  <2>1. /\ \A o \in Orders : orders[o].last \in Int
        /\ \A d \in Devices : status[d].seen \in Int /\ roster[d] \in Int
    BY <1>1 DEF IInv, TypeOK, Counts, Roster
  <2>2. ASSUME NEW q \in request \cup late, IngestEvents(q), roster' = MergedRoster(q),
               UNCHANGED <<log, delivered>>
        PROVE  Forward
    BY <1>1, <2>2, IngestedIsSound, MergedRosterIsSound
  <2>3. ASSUME NEW q \in request, roster' = MergedRoster(q), UNCHANGED eventVars
        PROVE  Forward
    <3>1. UNCHANGED <<orders, status>>
      BY <2>3 DEF eventVars
    <3> QED
      BY <1>1, <2>1, <2>3, <3>1, MergedRosterIsSound
  <2>4. CASE UNCHANGED <<eventVars, roster>>
    BY <2>1, <2>4 DEF eventVars
  <2> HIDE DEF Forward
  <2>5. CASE CloudIngest \/ CloudIngestLate \/ CloudIngestFails
    BY <2>2, <2>3, <2>5 DEF CloudIngest, CloudIngestLate, CloudIngestFails, outboxVars
  <2>6. CASE \/ \E d \in Devices : StoreEvent(d) \/ ChangeAssignment(d) \/ ConfigureLocation(d)
             \/ SelectRows \/ SendBatch \/ SendRoster \/ HandleReply \/ SendFails \/ RestartEdge
             \/ CloudRefuses \/ UNCHANGED vars
    <3>1. UNCHANGED <<eventVars, roster>>
      BY <2>6 DEF StoreEvent, ChangeAssignment, ConfigureLocation, SelectRows, SendBatch,
         SendRoster, HandleReply, SendFails, RestartEdge, CloudRefuses, vars, cloudVars
    <3> QED
      BY <2>4, <3>1
  <2> QED
    BY <1>1, <2>5, <2>6 DEF Next
<1>2. IInv /\ [Next]_vars => [Forward]_vars
  BY <1>1
<1> QED
  BY <1>2, SpecIsSound, PTL DEF Spec, CloudNeverGoesBack

-----------------------------------------------------------------------------
(* The backlog that the Cloud shows.                                       *)

OwnQueued(d) == {r \in Queued : r[1] = d}

\* What stays queued of a register once the answer under way is handled.
Waiting(d) == OwnQueued(d) \ (IF reply = {} THEN {} ELSE ToSet(Batch))

(* As long as no request is late, the Cloud shows no more than what waits, *)
(* and will show no more when it takes the request under way.              *)
BacklogIsCovered ==
  /\ ToSet(Batch) \subseteq Queued
  /\ \A d \in Devices : status[d].backlog <= Cardinality(Waiting(d))
  /\ \A q \in request : \A d \in DevicesOf(q.rows) :
       BacklogAfter(q.rows, d, q.statuses[d].backlog) <= Cardinality(OwnQueued(d) \ ToSet(Batch))

\* Of events, a part is not more than the whole.
LEMMA CountGrows ==
  ASSUME NEW B \in SUBSET Rows, NEW A \in SUBSET B
  PROVE  /\ IsFiniteSet(A) /\ IsFiniteSet(B)
         /\ Cardinality(A) \in Nat /\ Cardinality(B) \in Nat
         /\ Cardinality(A) <= Cardinality(B)
<1>1. IsFiniteSet(B)
  BY RowsAreFinite, FS_Subset
<1>2. IsFiniteSet(A) /\ Cardinality(A) <= Cardinality(B)
  BY <1>1, FS_Subset
<1> QED
  BY <1>1, <1>2, FS_CardinalityType

\* What the Cloud shows is covered while it hears nothing and no event is given up.
LEMMA CoveredByMore ==
  ASSUME IInv, BacklogIsCovered, UNCHANGED status,
         \A d \in Devices : Waiting(d) \subseteq Waiting(d)'
  PROVE  \A d \in Devices : status'[d].backlog <= Cardinality(Waiting(d)')
<1> SUFFICES ASSUME NEW d \in Devices
             PROVE  status'[d].backlog <= Cardinality(Waiting(d)')
  OBVIOUS
<1>1. Waiting(d)' \in SUBSET Rows /\ Waiting(d) \in SUBSET Waiting(d)'
  BY DEF Waiting, OwnQueued, Queued, Stored, Rows
<1>2. /\ Cardinality(Waiting(d)) \in Nat /\ Cardinality(Waiting(d)') \in Nat
      /\ Cardinality(Waiting(d)) <= Cardinality(Waiting(d)')
  BY <1>1, CountGrows
<1>3. status[d].backlog \in Int /\ status[d].backlog <= Cardinality(Waiting(d))
  BY DEF BacklogIsCovered, IInv, TypeOK, Counts
<1> QED
  BY <1>2, <1>3

\* A status is taken with the batch and without what the batch delivers.
LEMMA SentIsCovered ==
  ASSUME IInv, BacklogIsCovered, NEW d \in Devices
  PROVE  BacklogAfter(Batch, d, BacklogOf(d)) <= Cardinality(OwnQueued(d) \ ToSet(Batch))
<1> DEFINE all  == OwnQueued(d)
           sent == {r \in ToSet(Batch) : r[1] = d}
<1>1. all \in SUBSET Rows /\ sent \in SUBSET all /\ all \ ToSet(Batch) = all \ sent
  BY DEF OwnQueued, Queued, Stored, Rows, BacklogIsCovered
<1>2. BacklogOf(d) = Cardinality(all) /\ DeliveredOf(Batch, d) = Cardinality(sent)
  BY DEF BacklogOf, OwnQueued, DeliveredOf
<1> HIDE DEF all, sent
<1>3. IsFiniteSet(all) /\ IsFiniteSet(sent) /\ Cardinality(all) \in Nat
      /\ Cardinality(sent) \in Nat
  BY <1>1, CountGrows
<1>4. Cardinality(all \ sent) = Cardinality(all) - Cardinality(all \cap sent)
      /\ IsFiniteSet(all \ sent)
  BY <1>3, FS_Difference
<1>5. all \cap sent = sent /\ Cardinality(all \ sent) \in Nat
  BY <1>1, <1>4, FS_CardinalityType
<1>6. BacklogAfter(Batch, d, BacklogOf(d)) = Larger(0, Cardinality(all) - Cardinality(sent))
  BY <1>2 DEF BacklogAfter
<1>7. Cardinality(OwnQueued(d) \ ToSet(Batch)) = Cardinality(all) - Cardinality(sent)
  BY <1>1, <1>4, <1>5 DEF all
<1>8. Cardinality(all) - Cardinality(sent) \in Nat
  BY <1>1, <1>4, <1>5
<1> HIDE DEF BacklogAfter
<1> QED
  BY <1>3, <1>6, <1>7, <1>8 DEF Larger

\* What the Cloud will show is a number.
LEMMA BacklogIsANumber ==
  ASSUME IInv, NEW q \in request, NEW d \in DevicesOf(q.rows)
  PROVE  BacklogAfter(q.rows, d, q.statuses[d].backlog) \in Int
<1>1. RequestOK(q)
  BY DEF IInv, TypeOK
<1>2. q.statuses[d].backlog \in Int /\ q.rows \in Seq(Rows)
  BY <1>1 DEF RequestOK, Counts, Stored
<1>3. DeliveredOf(q.rows, d) \in Nat
  BY <1>2, DeliveredIsANumber
<1> QED
  BY <1>2, <1>3 DEF BacklogAfter, Larger

\* At the start.
LEMMA InitIsCovered == Init => BacklogIsCovered
<1> SUFFICES ASSUME Init PROVE BacklogIsCovered
  OBVIOUS
<1>1. IInv
  BY InitIsSound
<1>2. request = {} /\ ToSet(Batch) = {} /\ \A d \in Devices : status[d].backlog = 0
  BY DEF Init, Resting, Batch, ToSet
<1>3. ASSUME NEW d \in Devices PROVE Cardinality(Waiting(d)) \in Nat
  <2>1. Waiting(d) \in SUBSET Rows
    BY DEF Waiting, OwnQueued, Queued, Stored
  <2> QED
    BY <2>1, CountGrows
<1> QED
  BY <1>2, <1>3 DEF BacklogIsCovered

\* Edge: what it stores, selects, sends and hears.
LEMMA EdgeStepsAreCovered ==
  ASSUME IInv, BacklogIsCovered,
         \/ \E d \in Devices : StoreEvent(d) \/ ChangeAssignment(d) \/ ConfigureLocation(d)
         \/ SelectRows \/ SendBatch \/ SendRoster \/ HandleReply \/ UNCHANGED vars
  PROVE  BacklogIsCovered'
<1>1. CASE \/ \E d \in Devices : StoreEvent(d) \/ ChangeAssignment(d) \/ ConfigureLocation(d)
           \/ UNCHANGED vars
  <2>1. UNCHANGED <<delivered, forwarder, request, reply, status>>
    BY <1>1 DEF StoreEvent, ChangeAssignment, ConfigureLocation, vars, outboxVars, networkVars,
       cloudVars, eventVars
  <2>2. Stored \subseteq Stored'
    <3>1. CASE \E d \in Devices : StoreEvent(d)
      BY <3>1, LogGrows
    <3>2. CASE UNCHANGED log
      BY <3>2 DEF Stored
    <3> QED
      BY <1>1, <3>1, <3>2 DEF ChangeAssignment, ConfigureLocation, vars
  <2>3. Queued \subseteq Queued' /\ Batch' = Batch
    BY <2>1, <2>2 DEF Queued, Batch
  <2>4. \A d : Waiting(d) \subseteq Waiting(d)' /\ OwnQueued(d) \subseteq OwnQueued(d)'
    BY <2>1, <2>3 DEF Waiting, OwnQueued
  <2>5. \A d \in Devices : status'[d].backlog <= Cardinality(Waiting(d)')
    BY <2>1, <2>4, CoveredByMore
  <2>6. ASSUME NEW q \in request, NEW d \in DevicesOf(q.rows)
        PROVE  BacklogAfter(q.rows, d, q.statuses[d].backlog)
                 <= Cardinality(OwnQueued(d)' \ ToSet(Batch))
    <3>1. OwnQueued(d)' \ ToSet(Batch) \in SUBSET Rows
          /\ OwnQueued(d) \ ToSet(Batch) \in SUBSET (OwnQueued(d)' \ ToSet(Batch))
      BY <2>4 DEF OwnQueued, Queued, Stored, Rows
    <3>2. /\ Cardinality(OwnQueued(d) \ ToSet(Batch)) \in Nat
          /\ Cardinality(OwnQueued(d)' \ ToSet(Batch)) \in Nat
          /\ Cardinality(OwnQueued(d) \ ToSet(Batch))
               <= Cardinality(OwnQueued(d)' \ ToSet(Batch))
      BY <3>1, CountGrows
    <3>3. BacklogAfter(q.rows, d, q.statuses[d].backlog)
            <= Cardinality(OwnQueued(d) \ ToSet(Batch))
      BY DEF BacklogIsCovered
    <3>4. BacklogAfter(q.rows, d, q.statuses[d].backlog) \in Int
      BY BacklogIsANumber
    <3> QED
      BY <3>2, <3>3, <3>4
  <2> QED
    BY <2>1, <2>3, <2>5, <2>6 DEF BacklogIsCovered
<1>2. CASE SelectRows \/ SendBatch \/ SendRoster
  <2>1. UNCHANGED <<log, delivered, reply, status>> /\ reply = {} /\ request = {}
    BY <1>2 DEF SelectRows, SendBatch, SendRoster, outboxVars, networkVars, cloudVars, eventVars,
       IInv, AnswersAreForTheBatch
  <2>2. \A d : Waiting(d)' = Waiting(d) /\ OwnQueued(d)' = OwnQueued(d) /\ Queued' = Queued
    BY <2>1 DEF Waiting, OwnQueued, Queued, Stored
  <2>3. \A d \in Devices : status'[d].backlog <= Cardinality(Waiting(d)')
    BY <2>1, <2>2 DEF BacklogIsCovered
  <2>4. CASE SelectRows
    <3>1. request' = {}
      BY <2>1, <2>4 DEF SelectRows, networkVars
    <3>2. PICK b \in BoundedSeq(Queued, BatchSize) : forwarder' = [pc |-> "selected", rows |-> b]
      BY <2>4 DEF SelectRows
    <3>3. b \in Seq(Queued) /\ Batch' = b
      <4>1. PICK m \in 0..BatchSize : b \in [1..m -> Queued]
        BY <3>2 DEF BoundedSeq, SeqOf
      <4> QED
        BY <3>2, <4>1 DEF Batch
    <3>4. ToSet(Batch') \subseteq Queued
      BY <3>3 DEF ToSet
    <3> QED
      BY <2>2, <2>3, <3>1, <3>4 DEF BacklogIsCovered
  <2>5. CASE SendBatch
    <3> DEFINE q == [rows     |-> Batch,
                     statuses |-> [d \in DevicesOf(Batch) |-> StatusOf(d)],
                     roster   |-> assigned]
    <3>1. Batch' = Batch /\ request' = {q}
      BY <2>5 DEF SendBatch, Batch, IInv, TypeOK
    <3>2. ASSUME NEW d \in DevicesOf(Batch)
          PROVE  BacklogAfter(q.rows, d, q.statuses[d].backlog)
                   <= Cardinality(OwnQueued(d) \ ToSet(Batch))
      <4>1. d \in Devices
        <5>1. PICK r \in ToSet(Batch) : d = r[1]
          BY DEF DevicesOf
        <5>2. r \in Rows
          BY <5>1 DEF BacklogIsCovered, Queued, Stored
        <5> QED
          BY <5>1, <5>2 DEF Rows
      <4>2. q.rows = Batch /\ q.statuses[d].backlog = BacklogOf(d)
        BY DEF StatusOf
      <4> QED
        BY <4>1, <4>2, SentIsCovered
    <3>3. \A d \in DevicesOf(q.rows) :
            BacklogAfter(q.rows, d, q.statuses[d].backlog)
              <= Cardinality(OwnQueued(d) \ ToSet(Batch))
      BY <3>2
    <3> HIDE DEF q
    <3> QED
      BY <2>2, <2>3, <3>1, <3>3 DEF BacklogIsCovered
  <2>6. CASE SendRoster
    <3>1. ToSet(Batch') = {} /\ \A q \in request' : DevicesOf(q.rows) = {}
      BY <2>6 DEF SendRoster, Batch, ToSet, DevicesOf
    <3> QED
      BY <2>2, <2>3, <3>1 DEF BacklogIsCovered
  <2> QED
    BY <1>2, <2>4, <2>5, <2>6
<1>3. CASE HandleReply
  <2>1. /\ delivered' = delivered \cup ToSet(Batch) /\ forwarder' = Resting /\ reply' = {}
        /\ UNCHANGED <<log, request, status>> /\ reply # {}
    BY <1>3 DEF HandleReply, cloudVars, eventVars
  <2>2. request = {} /\ ToSet(Batch') = {} /\ Queued' = Queued \ ToSet(Batch)
    BY <2>1 DEF IInv, AnswersAreForTheBatch, Batch, Resting, ToSet, Queued, Stored
  <2>3. \A d : Waiting(d)' = Waiting(d)
    BY <2>1, <2>2 DEF Waiting, OwnQueued
  <2> QED
    BY <2>1, <2>2, <2>3 DEF BacklogIsCovered
<1> QED
  BY <1>1, <1>2, <1>3

\* Requests that fail, and the Cloud.
LEMMA CloudStepsAreCovered ==
  ASSUME IInv, BacklogIsCovered, late = {},
         \/ SendFails \/ RestartEdge
         \/ CloudIngest \/ CloudIngestLate \/ CloudIngestFails \/ CloudRefuses
  PROVE  BacklogIsCovered'
<1>1. UNCHANGED <<log, delivered>>
  BY DEF SendFails, RestartEdge, CloudIngest, CloudIngestLate, CloudIngestFails, CloudRefuses,
     outboxVars, KeptAfterFailure
<1>2. Queued' = Queued /\ \A d : OwnQueued(d)' = OwnQueued(d)
  BY <1>1 DEF OwnQueued, Queued, Stored
<1>3. CASE SendFails \/ RestartEdge
  <2>1. /\ forwarder' = Resting /\ request' = {} /\ reply' = {} /\ UNCHANGED status
    BY <1>3 DEF SendFails, RestartEdge, AbandonRequest, cloudVars, eventVars
  <2>2. ToSet(Batch') = {}
    BY <2>1 DEF Batch, Resting, ToSet
  <2>3. \A d \in Devices : Waiting(d) \subseteq Waiting(d)'
    BY <1>2, <2>1 DEF Waiting
  <2>4. \A d \in Devices : status'[d].backlog <= Cardinality(Waiting(d)')
    BY <2>1, <2>3, CoveredByMore
  <2> QED
    BY <2>1, <2>2, <2>4 DEF BacklogIsCovered
<1>4. CASE CloudIngestFails \/ CloudRefuses
  <2>1. /\ UNCHANGED <<forwarder, reply, status>> /\ request' \subseteq request
    BY <1>4 DEF CloudIngestFails, CloudRefuses, cloudVars, eventVars
  <2>2. Batch' = Batch /\ \A d : Waiting(d)' = Waiting(d)
    BY <1>2, <2>1 DEF Batch, Waiting
  <2> QED
    BY <1>2, <2>1, <2>2 DEF BacklogIsCovered
<1>5. CASE CloudIngest
  <2>1. PICK q \in request : IngestEvents(q) /\ reply' = {Folded(q.rows).conflicts}
    BY <1>5 DEF CloudIngest
  <2>2. request' = {} /\ forwarder' = forwarder /\ Batch' = Batch
    BY <1>5 DEF CloudIngest, Batch
  <2>3. q.rows = Batch /\ reply = {} /\ reply' # {}
    BY <2>1 DEF IInv, AnswersAreForTheBatch
  <2>4. ASSUME NEW d \in Devices
        PROVE  status'[d].backlog <= Cardinality(Waiting(d)')
    <3>1. Waiting(d)' = OwnQueued(d) \ ToSet(Batch)
      BY <1>2, <2>2, <2>3 DEF Waiting
    <3>2. DOMAIN q.statuses = DevicesOf(q.rows)
      BY DEF IInv, TypeOK, RequestOK
    <3>3. status'[d] = MergedStatus(q)[d]
      BY <2>1 DEF IngestEvents
    <3>4. CASE d \in DevicesOf(q.rows)
      <4>1. status'[d].backlog = BacklogAfter(q.rows, d, q.statuses[d].backlog)
        BY <3>2, <3>3, <3>4 DEF MergedStatus
      <4> QED
        BY <3>1, <3>4, <4>1 DEF BacklogIsCovered
    <3>5. CASE d \notin DevicesOf(q.rows)
      <4>1. status'[d] = status[d]
        BY <3>2, <3>3, <3>5 DEF MergedStatus
      <4>2. OwnQueued(d) \ ToSet(Batch) = OwnQueued(d)
        BY <2>3, <3>5 DEF DevicesOf, OwnQueued
      <4>3. Waiting(d) = OwnQueued(d)
        BY <2>3 DEF Waiting
      <4> QED
        BY <3>1, <4>1, <4>2, <4>3 DEF BacklogIsCovered
    <3> QED
      BY <3>4, <3>5
  <2>5. ToSet(Batch') \subseteq Queued'
    BY <1>2, <2>2 DEF BacklogIsCovered
  <2> QED
    BY <2>2, <2>4, <2>5 DEF BacklogIsCovered
<1>6. CASE CloudIngestLate
  BY <1>6 DEF CloudIngestLate
<1> QED
  BY <1>3, <1>4, <1>5, <1>6

(* docs/EDGE_FIELD_DIAGNOSTICS.md: unless a request that was given up      *)
(* arrives late, the Cloud shows no backlog once everything that Edge      *)
(* holds is delivered (withPostDeliveryStatus, edge_backlog_count).        *)
THEOREM BacklogsDrain == Spec => BacklogDrains
<1> DEFINE NoneIsLate == late = {}
           Drained    == AtRest /\ Queued = {} => \A d \in Devices : status[d].backlog = 0
<1>1. Init => BacklogIsCovered
  BY InitIsCovered
<1>2. IInv /\ BacklogIsCovered /\ NoneIsLate /\ [Next]_vars => BacklogIsCovered'
  BY EdgeStepsAreCovered, CloudStepsAreCovered DEF Next
<1>3. IInv /\ BacklogIsCovered => Drained
  <2> SUFFICES ASSUME IInv, BacklogIsCovered, AtRest, Queued = {}, NEW d \in Devices
               PROVE  status[d].backlog = 0
    OBVIOUS
  <2>1. Waiting(d) = {}
    BY DEF Waiting, OwnQueued
  <2>2. Cardinality(Waiting(d)) = 0
    BY <2>1, FS_EmptySet
  <2>3. status[d].backlog <= 0
    BY <2>2 DEF BacklogIsCovered
  <2>4. status[d] \in Counts
    BY DEF IInv, TypeOK
  <2> QED
    BY <2>3, <2>4 DEF Counts
<1> HIDE DEF NoneIsLate, Drained
<1>4. Spec => ([]NoneIsLate => []Drained)
  BY <1>1, <1>2, <1>3, SpecIsSound, PTL DEF Spec
<1> QED
  BY <1>4 DEF BacklogDrains, NoneIsLate, Drained

\* What the Cloud shows of the venue goes forward only, and no backlog stays in it.
THEOREM CloudFollows == Spec => CloudFollowsTheVenue
BY CloudOnlyMovesForward, BacklogsDrain DEF CloudFollowsTheVenue
=============================================================================
