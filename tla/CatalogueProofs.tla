--------------------------- MODULE CatalogueProofs ---------------------------
(***************************************************************************)
(* Proofs about Catalogue: what is published can be sold, what has a       *)
(* receipt is at the venue, and menus only go forward, for any number of   *)
(* locations, menus, operators, pulls and registers.                       *)
(***************************************************************************)
EXTENDS Catalogue, InductionLemmas

-----------------------------------------------------------------------------
(* The inductive invariant.                                                 *)

Lines == [item : Items, sku : Skus, price : Prices]
InstalledMenus ==
  [location : Locations, menu : Menus \cup {"local"}, batch : Nat, version : Nat \ {0},
   items : (SUBSET Lines) \ {{}}]
Stamps == Locations \X Nat

DbType ==
  [event : Lifecycles, life : [Rows -> {"NONE", "ACTIVE", "ARCHIVED"}],
   assigned : SUBSET (Menus \X Locations),
   price : [Items \X (Locations \cup {Everywhere}) -> Prices \cup {Unset}],
   publications : SUBSET Snapshots, receipts : SUBSET Stamps]

Patches == [op : {"patch"}, row : Rows, life : {"ACTIVE", "ARCHIVED"}]
EventChanges == [op : {"activate", "event"}, life : Lifecycles, found : SUBSET Stamps]
PublicationsUnderWay ==
  {t \in [op : {"publish"}, todo : Seq(Locations), menu : SUBSET Menus,
          done : SUBSET Snapshots] : t.menu # {} => t.todo # <<>>}
TxnType == {Idle} \cup Patches \cup EventChanges \cup PublicationsUnderWay

PullType ==
  [step : {"NEW", "FAILED", "DONE"}]
    \cup [step : {"FETCHED", "INSTALLED"}, snapshots : SUBSET Snapshots]
RegisterType ==
  [provisioned : BOOLEAN, menu : InstalledMenus \cup {NoMenu},
   fetched : InstalledMenus \cup {NoMenu}]

Types ==
  /\ db \in DbType
  /\ txn \in [Clients -> TxnType]
  /\ changes \in 0..MaxChanges
  /\ edge \in [mapped : SUBSET Locations, menus : [Locations -> InstalledMenus \cup {NoMenu}]]
  /\ pull \in [Pulls -> PullType]
  /\ register \in [Registers -> RegisterType]
  /\ installs \subseteq InstalledMenus
  /\ opening \subseteq Stamps

\* What a publication under way has collected.
Done(c) == IF txn[c].op = "publish" THEN txn[c].done ELSE {}

\* There are finitely many publications, and so a newest one of each location.
Bounded(S) == IsFiniteSet(S) /\ \E n \in Nat : \A s \in S : s.version <= n

PublicationsAreBounded == Bounded(db.publications) /\ \A c \in Clients : Bounded(Done(c))

\* The lock of a publication keeps its event a draft.
DraftWhilePublishing == \A c \in Clients : txn[c].op = "publish" => db.event = "DRAFT"

Sellable(s) ==
  /\ s.items # {}
  /\ \A i \in s.items : i.price # Unset
  /\ Cardinality({i.price.currency : i \in s.items}) = 1

CollectedIsSellable == \A c \in Clients : \A s \in Done(c) : Sellable(s)

\* A menu is where it belongs, and no older than any menu that was there.
MenusAreInPlace ==
  /\ \A l \in Locations : edge.menus[l] # NoMenu => edge.menus[l].location = l
  /\ \A s \in installs : s.version <= edge.menus[s.location].version

\* A pull has one snapshot of a location, and what it installed has been there.
PullIsSound(p) ==
  pull[p].step \in {"FETCHED", "INSTALLED"} =>
    /\ \A s, t \in pull[p].snapshots : s.location = t.location => s = t
    /\ pull[p].step = "INSTALLED" => pull[p].snapshots \subseteq installs

PullsAreSound == \A p \in Pulls : PullIsSound(p)

\* What the check for opening the event found, and still finds.
Arrived(found) == \A relied \in found : edge.menus[relied[1]].version >= relied[2]

ChecksHold ==
  /\ Arrived(opening)
  /\ \A c \in Clients : txn[c].op \in {"activate", "event"} => Arrived(txn[c].found)

IInv ==
  /\ Types
  /\ PublicationsAreBounded
  /\ DraftWhilePublishing
  /\ CollectedIsSellable
  /\ MenusAreInPlace
  /\ PullsAreSound
  /\ ChecksHold
  /\ ReceiptsAreTrue
  /\ PublicationsAreSellable

-----------------------------------------------------------------------------
USE CatalogueAssumptions DEF CatalogueAssumptions

(* Numbers and sequences.                                                   *)

\* The locations to publish come in some order.
LEMMA SetToSeqType ==
  ASSUME NEW S, IsFiniteSet(S)
  PROVE  SetToSeq(S) \in Seq(S)
<1>1. Cardinality(S) \in Nat /\ ExistsBijection(1..Cardinality(S), S)
  BY FS_CardinalityType
<1>2. \E f \in [1..Cardinality(S) -> S] : IsInjective(f)
  BY <1>1 DEF ExistsBijection, Bijection, Injection, IsInjective
<1>3. SetToSeq(S) \in [1..Cardinality(S) -> S]
  BY <1>2 DEF SetToSeq
<1> QED
  BY <1>1, <1>3

\* Two sets of bounded versions together are bounded.
LEMMA BoundedUnion ==
  ASSUME NEW S, NEW T, Bounded(S), Bounded(T),
         \A s \in S \cup T : s.version \in Nat
  PROVE  Bounded(S \cup T)
<1>1. IsFiniteSet(S \cup T)
  BY FS_Union DEF Bounded
<1>2. PICK m \in Nat : \A s \in S : s.version <= m
  BY DEF Bounded
<1>3. PICK n \in Nat : \A s \in T : s.version <= n
  BY DEF Bounded
<1>4. \A s \in S \cup T : s.version <= m + n
  BY <1>2, <1>3
<1> QED
  BY <1>1, <1>4 DEF Bounded

\* One version, or none, is bounded.
LEMMA BoundedSingleton ==
  ASSUME NEW s, s.version \in Nat
  PROVE  Bounded({s}) /\ Bounded({})
<1>1. IsFiniteSet({s}) /\ IsFiniteSet({})
  BY FS_Singleton, FS_EmptySet
<1>2. /\ \E n \in Nat : \A t \in {s} : t.version <= n
      /\ \E n \in Nat : \A t \in {} : t.version <= n
  OBVIOUS
<1> QED
  BY <1>1, <1>2 DEF Bounded

\* A newest publication is one of them.
LEMMA NewestIsThere ==
  ASSUME NEW S, Bounded(S), \A s \in S : s.version \in Nat, S # {}
  PROVE  Newest(S) \in S
<1> DEFINE T == {s.version : s \in S}
<1>1. PICK n \in Nat : \A s \in S : s.version <= n
  BY DEF Bounded
<1>2. T \subseteq Nat /\ T # {} /\ \A x \in T : x <= n
  BY <1>1
<1> HIDE DEF T
<1>3. PICK x \in T : \A y \in T : x >= y
  BY <1>2, GreatestNatural
<1> USE DEF T
<1>4. PICK s \in S : x = s.version
  BY <1>3
<1>5. \A t \in S : t.version <= s.version
  BY <1>3, <1>4
<1> QED
  BY <1>5 DEF Newest

\* The next version is a number above them.
LEMMA NextVersion ==
  ASSUME NEW S, Bounded(S), \A s \in S : s.version \in Nat
  PROVE  Max({0} \cup {s.version : s \in S}) + 1 \in Nat \ {0}
<1> DEFINE T == {0} \cup {s.version : s \in S}
<1>1. PICK n \in Nat : \A s \in S : s.version <= n
  BY DEF Bounded
<1>2. T \subseteq Nat /\ T # {} /\ \A x \in T : x <= n
  BY <1>1
<1> HIDE DEF T
<1>3. \E x \in T : \A y \in T : x >= y
  BY <1>2, GreatestNatural
<1>4. Max(T) \in T
  BY <1>3 DEF Max
<1>5. Max(T) + 1 \in Nat \ {0}
  <2>1. Max(T) \in Nat
    BY <1>2, <1>4
  <2>2. \A m \in Nat : m + 1 \in Nat \ {0}
    OBVIOUS
  <2> QED
    BY <2>1, <2>2
<1> QED
  BY <1>5 DEF T

\* The number of batches is a number.
LEMMA BatchesAreCounted ==
  ASSUME NEW S, IsFiniteSet(S)
  PROVE  Cardinality({s.batch : s \in S}) \in Nat
<1> DEFINE T == {s.batch : s \in S}
           f == [s \in S |-> s.batch]
<1>1. f \in Surjection(S, T)
  BY DEF Surjection
<1>2. IsFiniteSet(T)
  BY <1>1, FS_Surjection DEF ExistsSurjection
<1> QED
  BY <1>2, FS_CardinalityType

-----------------------------------------------------------------------------
(* What the steps are, as far as the invariant looks at them.               *)

\* A transaction that collects nothing new.
Quiet(c) ==
  \/ txn'[c] = txn[c]
  \/ txn'[c] \in {Idle} \cup Patches
  \/ txn'[c] \in EventChanges /\ txn'[c].found = {}
  \/ /\ txn'[c] \in PublicationsUnderWay /\ txn'[c].done = Done(c)
     /\ db.event = "DRAFT"

\* A step of the Cloud that neither publishes nor opens.
Prepares ==
  /\ db'.event = db.event /\ db'.publications = db.publications /\ db'.receipts = db.receipts
  /\ UNCHANGED <<edge, pull, register, installs, opening>>
  /\ \A c \in Clients : Quiet(c)

\* Rows of a column are rows.
LEMMA DbUpdates ==
  ASSUME db \in DbType
  PROVE  /\ \A x \in Rows, v \in {"ACTIVE", "ARCHIVED"} : [db EXCEPT !.life[x] = v] \in DbType
         /\ \A m \in Menus, l \in Locations :
              [db EXCEPT !.assigned = @ \cup {<<m, l>>}] \in DbType
         /\ \A i \in Items, l \in Locations \cup {Everywhere}, p \in Prices :
              [db EXCEPT !.price[<<i, l>>] = p] \in DbType
         /\ \A v \in Lifecycles : [db EXCEPT !.event = v] \in DbType
         /\ \A S \in SUBSET Snapshots : [db EXCEPT !.publications = @ \cup S] \in DbType
         /\ \A S \in SUBSET Stamps : [db EXCEPT !.receipts = @ \cup S] \in DbType
<1>1. ASSUME NEW x \in Rows, NEW v \in {"ACTIVE", "ARCHIVED"}
      PROVE  [db EXCEPT !.life[x] = v] \in DbType
  BY <1>1 DEF DbType
<1>2. ASSUME NEW m \in Menus, NEW l \in Locations
      PROVE  [db EXCEPT !.assigned = @ \cup {<<m, l>>}] \in DbType
  BY <1>2 DEF DbType
<1>3. ASSUME NEW i \in Items, NEW l \in Locations \cup {Everywhere}, NEW p \in Prices
      PROVE  [db EXCEPT !.price[<<i, l>>] = p] \in DbType
  BY <1>3 DEF DbType
<1>4. ASSUME NEW v \in Lifecycles
      PROVE  [db EXCEPT !.event = v] \in DbType
  BY <1>4 DEF DbType
<1>5. ASSUME NEW S \in SUBSET Snapshots
      PROVE  [db EXCEPT !.publications = @ \cup S] \in DbType
  BY <1>5 DEF DbType
<1>6. ASSUME NEW S \in SUBSET Stamps
      PROVE  [db EXCEPT !.receipts = @ \cup S] \in DbType
  BY <1>6 DEF DbType
<1> QED
  BY <1>1, <1>2, <1>3, <1>4, <1>5, <1>6

\* A change counts towards the bound.
LEMMA CountedChange ==
  ASSUME changes \in 0..MaxChanges, Changing
  PROVE  changes' \in 0..MaxChanges
BY DEF Changing

\* The lines of a row being created, assigned or priced.
LEMMA ConfigureStep ==
  ASSUME IInv, Configure
  PROVE  Types' /\ Prepares
<1> USE DEF IInv
<1>1. ASSUME NEW x \in Rows, Create(x)
      PROVE  Types' /\ Prepares
  <2>1. db' = [db EXCEPT !.life[x] = "ACTIVE"] /\ db' \in DbType
    BY <1>1, DbUpdates DEF Create, Types
  <2>2. /\ db'.event = db.event /\ db'.publications = db.publications
        /\ db'.receipts = db.receipts
    BY <2>1 DEF Types, DbType
  <2>3. UNCHANGED <<txn, edge, pull, register, installs, opening>> /\ Changing
    BY <1>1 DEF Create, venueVars
  <2> QED
    BY <2>1, <2>2, <2>3, CountedChange DEF Types, Prepares, Quiet
<1>2. ASSUME NEW m \in Menus, NEW l \in Locations, AssignMenu(m, l)
      PROVE  Types' /\ Prepares
  <2>1. db' = [db EXCEPT !.assigned = @ \cup {<<m, l>>}] /\ db' \in DbType
    BY <1>2, DbUpdates DEF AssignMenu, Types
  <2>2. /\ db'.event = db.event /\ db'.publications = db.publications
        /\ db'.receipts = db.receipts
    BY <2>1 DEF Types, DbType
  <2>3. UNCHANGED <<txn, edge, pull, register, installs, opening>> /\ Changing
    BY <1>2 DEF AssignMenu, venueVars
  <2> QED
    BY <2>1, <2>2, <2>3, CountedChange DEF Types, Prepares, Quiet
<1>3. ASSUME NEW i \in Items, NEW l \in Locations \cup {Everywhere}, NEW p \in Prices,
             SetMenuItemPrice(i, l, p)
      PROVE  Types' /\ Prepares
  <2>1. db' = [db EXCEPT !.price[<<i, l>>] = p] /\ db' \in DbType
    BY <1>3, DbUpdates DEF SetMenuItemPrice, Types
  <2>2. /\ db'.event = db.event /\ db'.publications = db.publications
        /\ db'.receipts = db.receipts
    BY <2>1 DEF Types, DbType
  <2>3. UNCHANGED <<txn, edge, pull, register, installs, opening>> /\ Changing
    BY <1>3 DEF SetMenuItemPrice, venueVars
  <2> QED
    BY <2>1, <2>2, <2>3, CountedChange DEF Types, Prepares, Quiet
<1>4. \/ \E x \in Rows : Create(x)
      \/ \E m \in Menus, l \in Locations : AssignMenu(m, l)
      \/ \E i \in Items, l \in Locations \cup {Everywhere}, p \in Prices : SetMenuItemPrice(i, l, p)
  BY DEF Configure, CreateSalesLocation, CreateInventoryLocation, CreateProduct, CreateSku,
     CreateMenu, CreateMenuItem, Rows
<1> QED
  BY <1>1, <1>2, <1>3, <1>4

\* What a transaction of a client becomes.
LEMMA TxnUpdates ==
  ASSUME txn \in [Clients -> TxnType], NEW c \in Clients, NEW t \in TxnType,
         txn' = [txn EXCEPT ![c] = t]
  PROVE  /\ txn' \in [Clients -> TxnType] /\ txn'[c] = t
         /\ \A d \in Clients : d # c => txn'[d] = txn[d]
OBVIOUS

\* Requests that read or write rows, and publications until they have a menu.
LEMMA PreparingRequest ==
  ASSUME IInv, NEW c \in Clients,
         \/ \E x \in Rows : ReadRow(c, x)
         \/ WriteRow(c) \/ UpdateEvent(c) \/ Publish(c) \/ ChooseMenu(c)
  PROVE  Types' /\ Prepares
<1> USE DEF IInv
<1>0. Idle \in TxnType /\ db \in DbType /\ txn \in [Clients -> TxnType]
  BY DEF Types, TxnType
<1>1. ASSUME NEW x \in Rows, ReadRow(c, x)
      PROVE  Types' /\ Prepares
  <2>1. PICK to \in {"KEEP", "ACTIVE", "ARCHIVED"} :
          txn' = [txn EXCEPT ![c] = [op |-> "patch", row |-> x,
                                     life |-> IF to = "KEEP" THEN db.life[x] ELSE to]]
    BY <1>1 DEF ReadRow
  <2> DEFINE t == [op |-> "patch", row |-> x, life |-> IF to = "KEEP" THEN db.life[x] ELSE to]
  <2>2. db.life[x] \in {"ACTIVE", "ARCHIVED"}
    BY <1>0, <1>1 DEF ReadRow, Exists, DbType
  <2>3. t \in Patches
    BY <2>2 DEF Patches
  <2> HIDE DEF t
  <2>4. UNCHANGED <<db, edge, pull, register, installs, opening>> /\ Changing
    BY <1>1 DEF ReadRow, venueVars
  <2>5. txn' \in [Clients -> TxnType] /\ \A d \in Clients : Quiet(d)
    BY <1>0, <2>1, <2>3, TxnUpdates DEF TxnType, Quiet, t
  <2> QED
    BY <2>4, <2>5, CountedChange DEF Types, Prepares
<1>2. CASE WriteRow(c)
  <2>1. txn[c] \in Patches
    BY <1>0, <1>2 DEF WriteRow, TxnType, Idle, EventChanges, PublicationsUnderWay
  <2>2. txn[c].row \in Rows /\ txn[c].life \in {"ACTIVE", "ARCHIVED"}
    BY <2>1 DEF Patches
  <2>3. db' = [db EXCEPT !.life[txn[c].row] = txn[c].life] /\ db' \in DbType
    BY <1>0, <1>2, <2>2, DbUpdates DEF WriteRow
  <2>4. /\ db'.event = db.event /\ db'.publications = db.publications
        /\ db'.receipts = db.receipts
    BY <1>0, <2>3 DEF DbType
  <2>5. UNCHANGED <<changes, edge, pull, register, installs, opening>>
    BY <1>2 DEF WriteRow, venueVars
  <2>6. txn' \in [Clients -> TxnType] /\ \A d \in Clients : Quiet(d)
    BY <1>0, <1>2, TxnUpdates DEF WriteRow, End, Quiet
  <2> QED
    BY <2>3, <2>4, <2>5, <2>6 DEF Types, Prepares
<1>3. CASE UpdateEvent(c)
  <2>1. PICK to \in {"KEEP"} \cup EventTargets :
          txn' = [txn EXCEPT ![c] = [op |-> IF to = "ACTIVE" THEN "activate" ELSE "event",
                                     life |-> IF to = "KEEP" THEN db.event ELSE to,
                                     found |-> {}]]
    BY <1>3 DEF UpdateEvent
  <2> DEFINE t == [op |-> IF to = "ACTIVE" THEN "activate" ELSE "event",
                   life |-> IF to = "KEEP" THEN db.event ELSE to, found |-> {}]
  <2>2. db.event \in Lifecycles
    BY <1>0 DEF DbType
  <2>3. t \in EventChanges /\ t.found = {}
    BY <2>2 DEF EventChanges
  <2> HIDE DEF t
  <2>4. UNCHANGED <<db, changes, edge, pull, register, installs, opening>>
    BY <1>3 DEF UpdateEvent, venueVars
  <2>5. txn' = [txn EXCEPT ![c] = t]
    BY <2>1 DEF t
  <2>6. txn' \in [Clients -> TxnType] /\ \A d \in Clients : Quiet(d)
    BY <1>0, <2>3, <2>5, TxnUpdates DEF TxnType, Quiet
  <2> QED
    BY <2>4, <2>6 DEF Types, Prepares
<1>4. CASE Publish(c)
  <2> DEFINE active == {l \in Locations : db.life[l] = "ACTIVE"}
             t == [op |-> "publish", todo |-> SetToSeq(active), menu |-> {}, done |-> {}]
  <2>1. SetToSeq(active) \in Seq(Locations)
    <3>1. IsFiniteSet(active)
      BY FS_Subset
    <3>2. SetToSeq(active) \in Seq(active)
      BY <3>1, SetToSeqType
    <3> QED
      BY <3>2
  <2>2. t \in PublicationsUnderWay /\ t.done = {}
    BY <2>1 DEF PublicationsUnderWay
  <2>3. txn' = [txn EXCEPT ![c] = t] /\ db.event = "DRAFT" /\ txn[c] = Idle
        /\ UNCHANGED <<db, changes, edge, pull, register, installs, opening>>
    BY <1>4 DEF Publish, LockDraftEvent, venueVars
  <2> HIDE DEF t
  <2>4. Done(c) = {}
    BY <2>3 DEF Done, Idle
  <2>5. txn' \in [Clients -> TxnType] /\ \A d \in Clients : Quiet(d)
    BY <1>0, <2>2, <2>3, <2>4, TxnUpdates DEF TxnType, Quiet
  <2> QED
    BY <2>3, <2>5 DEF Types, Prepares
<1>5. CASE ChooseMenu(c)
  <2> DEFINE menus == AssignedMenus(Head(txn[c].todo))
             t == [txn[c] EXCEPT !.menu = menus]
  <2>1. /\ txn[c] \in PublicationsUnderWay /\ db.event = "DRAFT" /\ Done(c) = txn[c].done
        /\ txn[c].todo # <<>>
    BY <1>0, <1>5
       DEF ChooseMenu, TxnType, Idle, EventChanges, Patches, DraftWhilePublishing, Done
  <2>2. t \in PublicationsUnderWay /\ t.done = txn[c].done
    BY <2>1 DEF PublicationsUnderWay, AssignedMenus
  <2>3. (txn' = [txn EXCEPT ![c] = t] \/ txn' = [txn EXCEPT ![c] = Idle])
        /\ UNCHANGED <<db, changes, edge, pull, register, installs, opening>>
    BY <1>5 DEF ChooseMenu, End, venueVars
  <2> HIDE DEF t
  <2>4. txn' \in [Clients -> TxnType] /\ \A d \in Clients : Quiet(d)
    BY <1>0, <2>1, <2>2, <2>3, TxnUpdates DEF TxnType, Quiet
  <2> QED
    BY <2>3, <2>4 DEF Types, Prepares
<1> QED
  BY <1>1, <1>2, <1>3, <1>4, <1>5

\* A step that neither publishes nor opens keeps the invariant.
LEMMA PreparingIsSound ==
  ASSUME IInv, Types', Prepares
  PROVE  IInv'
<1> USE DEF IInv
<1>1. /\ db'.event = db.event /\ db'.publications = db.publications
      /\ db'.receipts = db.receipts
      /\ UNCHANGED <<edge, pull, register, installs, opening>>
  BY DEF Prepares
<1>2. ASSUME NEW c \in Clients
      PROVE  /\ Done(c)' \in {Done(c), {}}
             /\ txn'[c].op = "publish" => db.event = "DRAFT"
             /\ txn'[c].op \in {"activate", "event"} => txn'[c] = txn[c] \/ txn'[c].found = {}
  BY DEF Prepares, Quiet, Idle, Patches, EventChanges, PublicationsUnderWay, Done,
     DraftWhilePublishing
<1>3. Bounded({})
  BY FS_EmptySet DEF Bounded
<1>4. PublicationsAreBounded'
  BY <1>1, <1>2, <1>3 DEF PublicationsAreBounded, Bounded
<1>5. DraftWhilePublishing' /\ CollectedIsSellable'
  BY <1>1, <1>2 DEF DraftWhilePublishing, CollectedIsSellable, Sellable
<1>6. MenusAreInPlace' /\ PullsAreSound'
  BY <1>1 DEF MenusAreInPlace, PullsAreSound, PullIsSound
<1>7. ChecksHold'
  BY <1>1, <1>2 DEF ChecksHold, Arrived
<1>8. ReceiptsAreTrue' /\ PublicationsAreSellable'
  BY <1>1 DEF ReceiptsAreTrue, Versions, Checksum, PublicationsAreSellable
<1> QED
  BY <1>4, <1>5, <1>6, <1>7, <1>8

\* The menus that a check relies on are at the venue: their receipts are true.
LEMMA ReceiptsHaveArrived == IInv => Arrived(db.receipts)
<1> SUFFICES ASSUME IInv, NEW receipt \in db.receipts
             PROVE  edge.menus[receipt[1]].version >= receipt[2]
  BY DEF Arrived
<1> USE DEF IInv
<1>1. PICK s \in installs : receipt = <<s.location, s.version>>
  BY DEF ReceiptsAreTrue
<1>2. receipt[1] = s.location /\ receipt[2] = s.version
  BY <1>1
<1>3. s.location \in Locations /\ s.version \in Nat
  BY DEF Types, InstalledMenus
<1>4. edge.menus[s.location].version \in Nat
  BY <1>3 DEF Types, InstalledMenus, NoMenu
<1>5. s.version <= edge.menus[s.location].version
  BY DEF MenusAreInPlace
<1> QED
  BY <1>2, <1>3, <1>4, <1>5

\* The request that opens the event: its check, and its write.
LEMMA OpeningIsSound ==
  ASSUME IInv, NEW c \in Clients, AssertPosMenuActivationReady(c) \/ WriteEvent(c)
  PROVE  IInv'
<1> USE DEF IInv
<1>0. Idle \in TxnType /\ db \in DbType /\ txn \in [Clients -> TxnType]
      /\ db.receipts \subseteq Stamps
  BY DEF Types, TxnType, DbType
<1>1. txn[c] \in EventChanges
  BY <1>0 DEF AssertPosMenuActivationReady, WriteEvent, TxnType, Idle, Patches,
     PublicationsUnderWay
<1>2. UNCHANGED <<changes, edge, pull, register, installs>>
  BY DEF AssertPosMenuActivationReady, WriteEvent, venueVars
<1>3. /\ db'.publications = db.publications /\ db'.receipts = db.receipts
      /\ db' \in DbType
      /\ db'.event = db.event \/ \A d \in Clients : txn[d].op # "publish"
  <2>1. CASE AssertPosMenuActivationReady(c)
    BY <1>0, <2>1 DEF AssertPosMenuActivationReady
  <2>2. CASE WriteEvent(c)
    <3>1. txn[c].life \in Lifecycles
      BY <1>1 DEF EventChanges
    <3>2. db' = [db EXCEPT !.event = txn[c].life] /\ \A d \in Clients : txn[d].op # "publish"
      BY <2>2 DEF WriteEvent, EventLocked
    <3> QED
      BY <1>0, <3>1, <3>2, DbUpdates DEF DbType
  <2> QED
    BY <2>1, <2>2
<1>4. /\ txn' \in [Clients -> TxnType]
      /\ \A d \in Clients : d # c => txn'[d] = txn[d]
      /\ txn'[c] = Idle \/ (txn'[c] \in EventChanges /\ Arrived(txn'[c].found))
  <2>1. CASE txn' = [txn EXCEPT ![c] = Idle]
    BY <1>0, <2>1, TxnUpdates
  <2>2. CASE txn' # [txn EXCEPT ![c] = Idle]
    <3> DEFINE found == {<<l, Newest(Versions(l)).version>> :
                            l \in {x \in Locations : db.life[x] = "ACTIVE"}}
               t == [txn[c] EXCEPT !.op = "event", !.found = found]
    <3>1. PosMenuActivationReady /\ txn' = [txn EXCEPT ![c] = t]
      BY <1>1, <2>2 DEF AssertPosMenuActivationReady, WriteEvent, End, EventChanges
    <3>2. found \subseteq db.receipts
      BY <3>1 DEF PosMenuActivationReady
    <3> HIDE DEF found
    <3>3. t \in EventChanges /\ t.found = found
      BY <1>0, <1>1, <3>2 DEF EventChanges
    <3>4. Arrived(found)
      BY <3>2, ReceiptsHaveArrived DEF Arrived
    <3> HIDE DEF t
    <3> QED
      BY <1>0, <3>1, <3>3, <3>4, TxnUpdates DEF TxnType
  <2> QED
    BY <2>1, <2>2
<1>5. opening' \subseteq Stamps /\ Arrived(opening')
  <2>1. opening' = opening \/ opening' = txn[c].found
    BY DEF AssertPosMenuActivationReady, WriteEvent
  <2> QED
    BY <1>1, <2>1 DEF Types, ChecksHold, EventChanges
<1>6. Types'
  BY <1>2, <1>3, <1>4, <1>5 DEF Types
<1>7. \A d \in Clients : Done(d)' = Done(d) /\ (txn'[d].op = "publish" => txn'[d] = txn[d])
  BY <1>1, <1>4 DEF Done, Idle, EventChanges
<1>8. PublicationsAreBounded' /\ CollectedIsSellable'
  BY <1>3, <1>7 DEF PublicationsAreBounded, Bounded, CollectedIsSellable, Sellable
<1>9. DraftWhilePublishing'
  BY <1>3, <1>7 DEF DraftWhilePublishing
<1>10. MenusAreInPlace' /\ PullsAreSound'
  BY <1>2 DEF MenusAreInPlace, PullsAreSound, PullIsSound
<1>11. ChecksHold'
  BY <1>2, <1>4, <1>5 DEF ChecksHold, Arrived, Idle
<1>12. ReceiptsAreTrue' /\ PublicationsAreSellable'
  BY <1>2, <1>3 DEF ReceiptsAreTrue, Versions, Checksum, PublicationsAreSellable
<1> QED
  BY <1>6, <1>8, <1>9, <1>10, <1>11, <1>12

\* What a location is offered is a snapshot of what can be sold there.
LEMMA OfferedIsSellable ==
  ASSUME IInv, NEW l \in Locations, NEW m \in Menus, Publishable(SellableItems(m), l)
  PROVE  LET s == [location |-> l, menu |-> m, batch |-> NextBatch,
                   version |-> Max({0} \cup {s.version : s \in Versions(l)}) + 1,
                   items |-> {[item |-> i, sku |-> SkuOf[i], price |-> PriceAt(i, l)] :
                                 i \in SellableItems(m)}]
         IN  s \in Snapshots /\ Sellable(s)
<1> USE DEF IInv
<1> DEFINE items == SellableItems(m)
           version == Max({0} \cup {s.version : s \in Versions(l)}) + 1
           lines == {[item |-> i, sku |-> SkuOf[i], price |-> PriceAt(i, l)] : i \in items}
           s == [location |-> l, menu |-> m, batch |-> NextBatch, version |-> version,
                 items |-> lines]
<1>1. db.publications \subseteq Snapshots /\ Bounded(db.publications)
  BY DEF Types, DbType, PublicationsAreBounded
<1>2. \A t \in Snapshots : t.version \in Nat
  BY DEF Snapshots
<1>3. Bounded(Versions(l)) /\ \A t \in Versions(l) : t.version \in Nat
  <2>1. Versions(l) \subseteq db.publications
    BY DEF Versions
  <2>2. IsFiniteSet(Versions(l))
    BY <1>1, <2>1, FS_Subset DEF Bounded
  <2> QED
    BY <1>1, <1>2, <2>1, <2>2 DEF Bounded
<1>4. version \in Nat \ {0}
  BY <1>3, NextVersion
<1>5. NextBatch \in Nat
  <2>1. Cardinality({t.batch : t \in db.publications}) \in Nat
    BY <1>1, BatchesAreCounted DEF Bounded
  <2> QED
    BY <2>1 DEF NextBatch
<1>6. items \subseteq Items /\ items # {}
  BY DEF SellableItems, Publishable
<1>7. \A i \in items : PriceAt(i, l) \in Prices /\ PriceAt(i, l) # Unset
  <2>1. db.price \in [Items \X (Locations \cup {Everywhere}) -> Prices \cup {Unset}]
    BY DEF Types, DbType
  <2>2. \A i \in Items : <<i, l>> \in Items \X (Locations \cup {Everywhere})
                        /\ <<i, Everywhere>> \in Items \X (Locations \cup {Everywhere})
    OBVIOUS
  <2>3. \A i \in Items : PriceAt(i, l) \in Prices \cup {Unset}
    BY <2>1, <2>2 DEF PriceAt
  <2> QED
    BY <1>6, <2>3 DEF Publishable
<1>8. lines \in (SUBSET Lines) \ {{}}
  <2>1. \A i \in items : [item |-> i, sku |-> SkuOf[i], price |-> PriceAt(i, l)] \in Lines
    BY <1>6, <1>7 DEF Lines
  <2>2. lines \subseteq Lines
    BY <2>1
  <2>3. lines # {}
    <3>1. PICK i \in items : TRUE
      BY <1>6
    <3>2. [item |-> i, sku |-> SkuOf[i], price |-> PriceAt(i, l)] \in lines
      OBVIOUS
    <3> QED
      BY <3>2
  <2> HIDE DEF lines
  <2> QED
    BY <2>2, <2>3
<1>9. {x.price.currency : x \in lines} = {PriceAt(i, l).currency : i \in items}
  <2>1. \A x \in lines : \E i \in items : x.price = PriceAt(i, l)
    OBVIOUS
  <2>2. ASSUME NEW i \in items PROVE \E x \in lines : x.price = PriceAt(i, l)
    <3> DEFINE x == [item |-> i, sku |-> SkuOf[i], price |-> PriceAt(i, l)]
    <3>1. x \in lines /\ x.price = PriceAt(i, l)
      OBVIOUS
    <3> QED
      BY <3>1
  <2> HIDE DEF lines, items
  <2> QED
    BY <2>1, <2>2
<1>10. Cardinality({PriceAt(i, l).currency : i \in items}) = 1
  BY DEF Publishable
<1>11. \A x \in lines : x.price # Unset
  BY <1>7
<1> HIDE DEF version, lines, items
<1>12. s \in Snapshots
  BY <1>4, <1>5, <1>8 DEF Snapshots, Lines
<1>13. s.items = lines
  OBVIOUS
<1> HIDE DEF s
<1>14. Sellable(s)
  <2>1. Cardinality({i.price.currency : i \in s.items}) = 1
    BY <1>9, <1>10, <1>13
  <2> QED
    BY <1>8, <1>11, <1>13, <2>1 DEF Sellable
<1> QED
  BY <1>12, <1>14 DEF s, version, lines, items

\* publish, one location: a version above all the others of its location.
LEMMA PublishLocationIsSound ==
  ASSUME IInv, NEW c \in Clients, PublishLocation(c)
  PROVE  IInv'
<1> USE DEF IInv
<1>0. Idle \in TxnType /\ db \in DbType /\ txn \in [Clients -> TxnType]
  BY DEF Types, TxnType
<1>1. txn[c] \in PublicationsUnderWay
  <2>1. txn[c].op = "publish"
    BY DEF PublishLocation
  <2> QED
    BY <1>0, <2>1 DEF TxnType, Idle, Patches, EventChanges
<1>2. UNCHANGED <<db, changes, opening, edge, pull, register, installs>>
  BY DEF PublishLocation, venueVars
<1>3. CASE txn' = [txn EXCEPT ![c] = Idle]
  <2>1. txn' \in [Clients -> TxnType] /\ \A d \in Clients : Quiet(d)
    BY <1>0, <1>3, TxnUpdates DEF Quiet
  <2>2. Types' /\ Prepares
    BY <1>2, <2>1 DEF Types, Prepares
  <2> QED
    BY <2>2, PreparingIsSound
<1>4. CASE txn' # [txn EXCEPT ![c] = Idle]
  <2> DEFINE l == Head(txn[c].todo)
             m == CHOOSE x \in txn[c].menu : TRUE
             s == [location |-> l, menu |-> m, batch |-> NextBatch,
                   version |-> Max({0} \cup {x.version : x \in Versions(l)}) + 1,
                   items |-> {[item |-> i, sku |-> SkuOf[i], price |-> PriceAt(i, l)] :
                                 i \in SellableItems(m)}]
             t == [txn[c] EXCEPT !.done = @ \cup {s}, !.todo = Tail(@), !.menu = {}]
  <2>0. /\ txn[c].todo \in Seq(Locations) /\ txn[c].menu \subseteq Menus
        /\ txn[c].done \subseteq Snapshots
    BY <1>1 DEF PublicationsUnderWay
  <2>1. l \in Locations /\ m \in Menus /\ Tail(txn[c].todo) \in Seq(Locations)
    <3>1. txn[c].menu # {} /\ txn[c].todo # <<>>
      BY <1>1 DEF PublishLocation, PublicationsUnderWay
    <3>2. l \in Locations /\ Tail(txn[c].todo) \in Seq(Locations)
      BY <2>0, <3>1
    <3>3. m \in Menus
      BY <2>0, <3>1
    <3> QED
      BY <3>2, <3>3
  <2>2. Publishable(SellableItems(m), l) /\ txn' = [txn EXCEPT ![c] = t]
    BY <1>4 DEF PublishLocation, End
  <2>3. s \in Snapshots /\ Sellable(s)
    BY <2>1, <2>2, OfferedIsSellable
  <2> HIDE DEF s, l, m
  <2>4. t \in PublicationsUnderWay /\ t.done = txn[c].done \cup {s} /\ t.op = "publish"
    BY <1>1, <2>1, <2>3 DEF PublicationsUnderWay, l
  <2> HIDE DEF t
  <2>5. /\ txn' \in [Clients -> TxnType] /\ txn'[c] = t
        /\ \A d \in Clients : d # c => txn'[d] = txn[d]
    BY <1>0, <2>2, <2>4, TxnUpdates DEF TxnType
  <2>6. Types'
    BY <1>2, <2>5 DEF Types
  <2>7. /\ Done(c) = txn[c].done /\ Done(c)' = Done(c) \cup {s}
        /\ \A d \in Clients : d # c => Done(d)' = Done(d)
        /\ txn[c].op = "publish"
    BY <1>1, <2>4, <2>5 DEF Done, PublicationsUnderWay
  <2>8. Bounded(Done(c)')
    <3>1. \A x \in Snapshots : x.version \in Nat
      BY DEF Snapshots
    <3>2. Bounded({s})
      BY <2>3, <3>1, BoundedSingleton
    <3>3. \A x \in Done(c) \cup {s} : x.version \in Nat
      BY <2>0, <2>3, <2>7, <3>1
    <3>4. Bounded(Done(c))
      BY DEF PublicationsAreBounded
    <3> QED
      BY <2>7, <3>2, <3>3, <3>4, BoundedUnion
  <2>9. PublicationsAreBounded'
    BY <1>2, <2>7, <2>8 DEF PublicationsAreBounded, Bounded
  <2>10. CollectedIsSellable'
    BY <2>3, <2>7 DEF CollectedIsSellable, Sellable
  <2>11. DraftWhilePublishing'
    BY <1>2, <2>5, <2>7 DEF DraftWhilePublishing
  <2>12. MenusAreInPlace' /\ PullsAreSound'
    BY <1>2 DEF MenusAreInPlace, PullsAreSound, PullIsSound
  <2>13. ChecksHold'
    BY <1>2, <2>4, <2>5 DEF ChecksHold, Arrived
  <2>14. ReceiptsAreTrue' /\ PublicationsAreSellable'
    BY <1>2 DEF ReceiptsAreTrue, Versions, Checksum, PublicationsAreSellable
  <2> QED
    BY <2>6, <2>9, <2>10, <2>11, <2>12, <2>13, <2>14
<1> QED
  BY <1>3, <1>4

\* The commit of a publication, whose event stayed a draft under its lock.
LEMMA CommitPublicationIsSound ==
  ASSUME IInv, NEW c \in Clients, CommitPublication(c)
  PROVE  IInv'
<1> USE DEF IInv
<1>0. Idle \in TxnType /\ db \in DbType /\ txn \in [Clients -> TxnType]
      /\ db.publications \subseteq Snapshots
  BY DEF Types, TxnType, DbType
<1>1. txn[c] \in PublicationsUnderWay
  <2>1. txn[c].op = "publish"
    BY DEF CommitPublication
  <2> QED
    BY <1>0, <2>1 DEF TxnType, Idle, Patches, EventChanges
<1>2. /\ db' = [db EXCEPT !.publications = @ \cup txn[c].done]
      /\ txn' = [txn EXCEPT ![c] = Idle]
      /\ UNCHANGED <<changes, opening, edge, pull, register, installs>>
  BY DEF CommitPublication, End, venueVars
<1>3. Done(c) = txn[c].done /\ Done(c) \subseteq Snapshots
  BY <1>1 DEF PublicationsUnderWay, Done
<1>4. /\ db' \in DbType /\ db'.event = db.event /\ db'.receipts = db.receipts
      /\ db'.publications = db.publications \cup Done(c)
  BY <1>0, <1>2, <1>3, DbUpdates DEF DbType
<1>5. /\ txn' \in [Clients -> TxnType] /\ txn'[c] = Idle
      /\ \A d \in Clients : d # c => txn'[d] = txn[d]
  BY <1>0, <1>2, TxnUpdates
<1>6. Types'
  BY <1>2, <1>4, <1>5 DEF Types
<1>7. \A d \in Clients : Done(d)' \in {Done(d), {}} /\ (txn'[d] = txn[d] \/ txn'[d] = Idle)
  BY <1>5 DEF Done, Idle
<1>8. Bounded(db'.publications)
  <2>1. \A s \in db.publications \cup Done(c) : s.version \in Nat
    BY <1>0, <1>3 DEF Snapshots
  <2> QED
    BY <1>4, <2>1, BoundedUnion DEF PublicationsAreBounded
<1>9. PublicationsAreBounded'
  <2>1. Bounded({})
    BY FS_EmptySet DEF Bounded
  <2> QED
    BY <1>7, <1>8, <2>1 DEF PublicationsAreBounded, Bounded
<1>10. DraftWhilePublishing' /\ CollectedIsSellable'
  <2>1. DraftWhilePublishing'
    BY <1>4, <1>7 DEF DraftWhilePublishing, Idle
  <2>2. CollectedIsSellable'
    BY <1>7 DEF CollectedIsSellable, Sellable
  <2> QED
    BY <2>1, <2>2
<1>11. MenusAreInPlace' /\ PullsAreSound'
  BY <1>2 DEF MenusAreInPlace, PullsAreSound, PullIsSound
<1>12. ChecksHold'
  BY <1>2, <1>7 DEF ChecksHold, Arrived, Idle
<1>13. ReceiptsAreTrue'
  BY <1>2, <1>4 DEF ReceiptsAreTrue, Versions, Checksum
<1>14. PublicationsAreSellable'
  BY <1>4 DEF CollectedIsSellable, PublicationsAreSellable, Sellable
<1> QED
  BY <1>6, <1>9, <1>10, <1>11, <1>12, <1>13, <1>14

-----------------------------------------------------------------------------
(* The venue.                                                               *)

\* What becomes of the venue when menus arrive there, each in its place and
\* none older than the one that was there.
LEMMA ArrivalIsSound ==
  ASSUME IInv, UNCHANGED <<db, txn, changes, opening, register>>,
         edge' \in [mapped : SUBSET Locations, menus : [Locations -> InstalledMenus \cup {NoMenu}]],
         pull' \in [Pulls -> PullType], installs' \subseteq InstalledMenus,
         \A l \in Locations : edge.menus[l].version <= edge'.menus[l].version,
         \A l \in Locations : edge'.menus[l] # NoMenu => edge'.menus[l].location = l,
         installs \subseteq installs',
         \A s \in installs' : s \in installs \/ s = edge'.menus[s.location],
         \A p \in Pulls : PullIsSound(p)'
  PROVE  IInv'
<1> USE DEF IInv
<1>1. Types'
  BY DEF Types
<1>2. \A l \in Locations : edge.menus[l].version \in Nat /\ edge'.menus[l].version \in Nat
  BY DEF Types, InstalledMenus, NoMenu
<1>3. \A s \in installs' : s.location \in Locations /\ s.version \in Nat
  BY DEF InstalledMenus
<1>4. MenusAreInPlace'
  <2>1. ASSUME NEW s \in installs' PROVE s.version <= edge'.menus[s.location].version
    <3>1. CASE s \in installs
      <4>1. s.version <= edge.menus[s.location].version
        BY <3>1 DEF MenusAreInPlace
      <4> QED
        BY <1>2, <1>3, <4>1
    <3>2. CASE s = edge'.menus[s.location]
      BY <1>3, <3>2
    <3> QED
      BY <3>1, <3>2
  <2> QED
    BY <2>1 DEF MenusAreInPlace
<1>5. ASSUME NEW found \in SUBSET Stamps, Arrived(found)
      PROVE  \A relied \in found : edge'.menus[relied[1]].version >= relied[2]
  <2>1. \A relied \in found : relied[1] \in Locations /\ relied[2] \in Nat
    BY DEF Stamps
  <2> QED
    BY <1>2, <1>5, <2>1 DEF Arrived
<1>6. ChecksHold'
  <2>1. opening \in SUBSET Stamps
    BY DEF Types
  <2>2. \A c \in Clients : txn[c].op \in {"activate", "event"} => txn[c].found \in SUBSET Stamps
    BY DEF Types, TxnType, Idle, Patches, EventChanges, PublicationsUnderWay
  <2> QED
    BY <1>5, <2>1, <2>2 DEF ChecksHold, Arrived
<1>7. PublicationsAreBounded' /\ DraftWhilePublishing' /\ CollectedIsSellable'
      /\ PublicationsAreSellable'
  BY DEF PublicationsAreBounded, Bounded, DraftWhilePublishing, CollectedIsSellable, Done,
     Sellable, PublicationsAreSellable
<1>8. ReceiptsAreTrue'
  BY DEF ReceiptsAreTrue, Versions, Checksum
<1> QED
  BY <1>1, <1>4, <1>6, <1>7, <1>8 DEF PullsAreSound

\* One snapshot that may be installed: it is no older than what it replaces, and
\* what has its version is the same menu.
LEMMA InstallOneFollows ==
  ASSUME IInv, NEW s \in InstalledMenus, InstallOne(s)
  PROVE  /\ Follows(s, edge.menus[s.location])
         /\ edge.menus[s.location].version <= s.version
<1> USE DEF IInv
<1> DEFINE l == s.location
           old == edge.menus[l]
<1>1. l \in Locations /\ old \in InstalledMenus \cup {NoMenu} /\ s.version \in Nat \ {0}
  BY DEF Types, InstalledMenus
<1>2. old.version <= s.version /\ (old.version = s.version => Checksum(old) = Checksum(s))
  BY DEF InstallOne
<1>3. old.version \in Nat /\ (old.version # 0 => old \in InstalledMenus /\ old.location = l)
  BY <1>1 DEF NoMenu, InstalledMenus, MenusAreInPlace
<1>4. ASSUME old.version = s.version PROVE old = s
  <2>1. /\ old \in InstalledMenus /\ old.location = s.location
        /\ old.menu = s.menu /\ old.batch = s.batch /\ old.items = s.items
    BY <1>1, <1>2, <1>3, <1>4 DEF Checksum
  <2> HIDE DEF old
  <2> QED
    BY <1>4, <2>1 DEF InstalledMenus
<1> HIDE DEF old
<1> QED
  BY <1>1, <1>2, <1>3, <1>4 DEF Follows, old

\* A snapshot given to the venue by hand is a menu.
LEMMA SnapshotsCanBeInstalled == Snapshots \subseteq InstalledMenus
BY DEF Snapshots, InstalledMenus, Lines

\* A pull installs its batch or nothing.
LEMMA InstallBatchIsSound ==
  ASSUME IInv, NEW p \in Pulls, InstallBatch(p)
  PROVE  IInv' /\ \A l \in Locations : Follows(edge'.menus[l], edge.menus[l])
<1> USE DEF IInv
<1>0. /\ edge \in [mapped : SUBSET Locations, menus : [Locations -> InstalledMenus \cup {NoMenu}]]
      /\ pull \in [Pulls -> PullType] /\ installs \subseteq InstalledMenus
      /\ \A l \in Locations : edge.menus[l].version \in Nat
  BY DEF Types, InstalledMenus, NoMenu
<1>1. /\ pull[p].step = "FETCHED" /\ pull[p] \in [step : {"FETCHED"}, snapshots : SUBSET Snapshots]
      /\ UNCHANGED <<db, txn, changes, opening, register>>
  BY <1>0 DEF InstallBatch, PullType, cloudVars
<1> DEFINE batch == pull[p].snapshots
           At(l) == \E s \in batch : s.location = l
           menus == [l \in Locations |-> IF At(l) THEN CHOOSE s \in batch : s.location = l
                                        ELSE edge.menus[l]]
<1>2. batch \subseteq InstalledMenus /\ \A s, t \in batch : s.location = t.location => s = t
  BY <1>1, SnapshotsCanBeInstalled DEF PullsAreSound, PullIsSound
<1>3. CASE \A s \in batch : InstallOne(s)
  <2>1. /\ edge' = [edge EXCEPT !.menus = menus] /\ installs' = installs \cup batch
        /\ pull' = [pull EXCEPT ![p].step = "INSTALLED"]
    BY <1>3 DEF InstallBatch
  <2>2. ASSUME NEW l \in Locations
        PROVE  \/ menus[l] = edge.menus[l] /\ ~At(l)
               \/ /\ menus[l] \in batch /\ menus[l].location = l
                  /\ \A s \in batch : s.location = l => s = menus[l]
    BY <1>2
  <2> HIDE DEF menus
  <2>3. ASSUME NEW l \in Locations
        PROVE  /\ menus[l] \in InstalledMenus \cup {NoMenu}
               /\ menus[l] # NoMenu => menus[l].location = l
               /\ edge.menus[l].version <= menus[l].version
               /\ Follows(menus[l], edge.menus[l])
    <3>1. CASE menus[l] = edge.menus[l]
      BY <1>0, <3>1 DEF MenusAreInPlace, Follows
    <3>2. CASE menus[l] \in batch /\ menus[l].location = l
      BY <1>2, <1>3, <3>2, InstallOneFollows
    <3> QED
      BY <2>2, <3>1, <3>2
  <2>4. DOMAIN menus = Locations /\ menus = [l \in Locations |-> menus[l]]
    BY DEF menus
  <2>5. /\ edge'.menus = menus
        /\ edge' \in [mapped : SUBSET Locations, menus : [Locations -> InstalledMenus \cup {NoMenu}]]
    BY <1>0, <2>1, <2>3, <2>4
  <2>6. /\ pull' \in [Pulls -> PullType] /\ pull'[p].step = "INSTALLED"
        /\ pull'[p].snapshots = batch /\ \A q \in Pulls : q # p => pull'[q] = pull[q]
    <3> DEFINE new == [pull[p] EXCEPT !.step = "INSTALLED"]
    <3>1. new \in [step : {"INSTALLED"}, snapshots : SUBSET Snapshots] /\ new.snapshots = batch
      BY <1>1
    <3>2. new \in PullType /\ pull' = [pull EXCEPT ![p] = new]
      BY <2>1, <3>1 DEF PullType
    <3> HIDE DEF new
    <3> QED
      BY <1>0, <3>1, <3>2
  <2>7. /\ installs' \subseteq InstalledMenus /\ installs \subseteq installs'
        /\ \A s \in installs' : s \in installs \/ s = edge'.menus[s.location]
    <3>1. \A s \in batch : s.location \in Locations
      BY <1>2 DEF InstalledMenus
    <3> QED
      BY <1>0, <1>2, <2>1, <2>2, <2>5, <3>1
  <2>8. \A q \in Pulls : PullIsSound(q)'
    BY <1>2, <2>1, <2>6, <2>7 DEF PullsAreSound, PullIsSound
  <2>9. /\ \A l \in Locations : Follows(edge'.menus[l], edge.menus[l])
        /\ \A l \in Locations : edge.menus[l].version <= edge'.menus[l].version
        /\ \A l \in Locations : edge'.menus[l] # NoMenu => edge'.menus[l].location = l
    BY <2>3, <2>5
  <2>10. IInv'
    BY <1>1, <2>5, <2>6, <2>7, <2>8, <2>9, ArrivalIsSound
  <2> QED
    BY <2>9, <2>10
<1>4. CASE ~ \A s \in batch : InstallOne(s)
  <2>1. pull' = [pull EXCEPT ![p] = [step |-> "FAILED"]] /\ UNCHANGED <<edge, installs>>
    BY <1>4 DEF InstallBatch
  <2>2. /\ pull' \in [Pulls -> PullType] /\ pull'[p].step = "FAILED"
        /\ \A q \in Pulls : q # p => pull'[q] = pull[q]
    BY <1>0, <2>1 DEF PullType
  <2>3. \A q \in Pulls : PullIsSound(q)'
    BY <2>1, <2>2 DEF PullsAreSound, PullIsSound
  <2>4. \A l \in Locations : Follows(edge'.menus[l], edge.menus[l])
    BY <1>0, <2>1 DEF Follows
  <2>5. IInv'
    BY <1>0, <1>1, <2>1, <2>2, <2>3, ArrivalIsSound DEF MenusAreInPlace
  <2> QED
    BY <2>4, <2>5
<1> QED
  BY <1>3, <1>4

\* The administrator installs a menu of his own.
LEMMA InstallSnapshotIsSound ==
  ASSUME IInv, NEW l \in Locations, InstallSnapshot(l)
  PROVE  IInv' /\ \A x \in Locations : Follows(edge'.menus[x], edge.menus[x])
<1> USE DEF IInv
<1>0. /\ edge \in [mapped : SUBSET Locations, menus : [Locations -> InstalledMenus \cup {NoMenu}]]
      /\ pull \in [Pulls -> PullType] /\ installs \subseteq InstalledMenus
      /\ \A x \in Locations : edge.menus[x].version \in Nat
  BY DEF Types, InstalledMenus, NoMenu
<1> DEFINE lines == {[item |-> i, sku |-> SkuOf[i], price |-> CHOOSE x \in Prices : TRUE] :
                        i \in {CHOOSE x \in Items : TRUE}}
           s == [location |-> l, menu |-> "local", batch |-> 0,
                 version |-> edge.menus[l].version + 1, items |-> lines]
<1>1. /\ InstallOne(s) /\ edge' = [edge EXCEPT !.menus[l] = s] /\ installs' = installs \cup {s}
      /\ UNCHANGED <<db, txn, changes, opening, pull, register>>
  BY DEF InstallSnapshot, cloudVars
<1>2. lines \in (SUBSET Lines) \ {{}}
  <2> DEFINE i == CHOOSE x \in Items : TRUE
             line == [item |-> i, sku |-> SkuOf[i], price |-> CHOOSE x \in Prices : TRUE]
  <2>1. i \in Items /\ (CHOOSE x \in Prices : TRUE) \in Prices
    OBVIOUS
  <2>2. line \in Lines
    BY <2>1 DEF Lines
  <2>3. lines = {line}
    OBVIOUS
  <2> HIDE DEF line, lines
  <2> QED
    BY <2>2, <2>3
<1>3. edge.menus[l].version + 1 \in Nat \ {0}
  <2>1. \A n \in Nat : n + 1 \in Nat \ {0}
    OBVIOUS
  <2> QED
    BY <1>0, <2>1
<1> HIDE DEF lines
<1>4. s \in InstalledMenus /\ s.location = l
  BY <1>2, <1>3 DEF InstalledMenus
<1> HIDE DEF s
<1>5. /\ Follows(s, edge.menus[l]) /\ edge.menus[l].version <= s.version
  BY <1>1, <1>4, InstallOneFollows
<1>6. /\ edge' \in [mapped : SUBSET Locations, menus : [Locations -> InstalledMenus \cup {NoMenu}]]
      /\ edge'.menus[l] = s
      /\ \A x \in Locations : x # l => edge'.menus[x] = edge.menus[x]
  BY <1>0, <1>1, <1>4
<1>7. /\ \A x \in Locations : Follows(edge'.menus[x], edge.menus[x])
      /\ \A x \in Locations : edge.menus[x].version <= edge'.menus[x].version
      /\ \A x \in Locations : edge'.menus[x] # NoMenu => edge'.menus[x].location = x
  <2>1. ASSUME NEW x \in Locations
        PROVE  /\ Follows(edge'.menus[x], edge.menus[x])
               /\ edge.menus[x].version <= edge'.menus[x].version
               /\ edge'.menus[x] # NoMenu => edge'.menus[x].location = x
    <3>1. CASE x = l
      BY <1>4, <1>5, <1>6, <3>1
    <3>2. CASE x # l
      <4>1. edge'.menus[x] = edge.menus[x]
        BY <1>6, <3>2
      <4>2. edge.menus[x] # NoMenu => edge.menus[x].location = x
        BY DEF MenusAreInPlace
      <4>3. edge.menus[x].version \in Nat
        BY <1>0
      <4> QED
        BY <4>1, <4>2, <4>3 DEF Follows
    <3> QED
      BY <3>1, <3>2
  <2> QED
    BY <2>1
<1>8. /\ installs' \subseteq InstalledMenus /\ installs \subseteq installs'
      /\ \A x \in installs' : x \in installs \/ x = edge'.menus[x.location]
  BY <1>0, <1>1, <1>4, <1>6
<1>9. \A q \in Pulls : PullIsSound(q)'
  BY <1>1, <1>8 DEF PullsAreSound, PullIsSound
<1>10. IInv'
  BY <1>0, <1>1, <1>6, <1>7, <1>8, <1>9, ArrivalIsSound
<1> QED
  BY <1>7, <1>10

\* The Cloud believes what has been installed.
LEMMA AcknowledgeIsSound ==
  ASSUME IInv, NEW p \in Pulls, AcknowledgeInstalled(p)
  PROVE  IInv'
<1> USE DEF IInv
<1>0. /\ db \in DbType /\ pull \in [Pulls -> PullType]
      /\ db.receipts \subseteq Stamps /\ installs \subseteq InstalledMenus
  BY DEF Types, DbType
<1>1. /\ pull[p].step = "INSTALLED" /\ pull[p].snapshots \subseteq installs
      /\ \A s \in pull[p].snapshots : \E q \in Versions(s.location) : Checksum(q) = Checksum(s)
  BY DEF AcknowledgeInstalled, Acknowledgeable, PullsAreSound, PullIsSound
<1> DEFINE told == {<<s.location, s.version>> : s \in pull[p].snapshots}
<1>2. /\ db' = [db EXCEPT !.receipts = @ \cup told]
      /\ pull' = [pull EXCEPT ![p] = [step |-> "DONE"]]
      /\ UNCHANGED <<edge, register, installs, txn, changes, opening>>
  BY DEF AcknowledgeInstalled
<1>3. told \subseteq Stamps
  BY <1>0, <1>1 DEF InstalledMenus, Stamps
<1>4. \A receipt \in told : \E s \in installs :
         /\ receipt = <<s.location, s.version>>
         /\ \E q \in Versions(s.location) : Checksum(q) = Checksum(s)
  BY <1>1
<1> HIDE DEF told
<1>5. /\ db' \in DbType /\ db'.event = db.event /\ db'.publications = db.publications
      /\ db'.receipts = db.receipts \cup told
  BY <1>0, <1>2, <1>3, DbUpdates DEF DbType
<1>6. /\ pull' \in [Pulls -> PullType] /\ pull'[p].step = "DONE"
      /\ \A q \in Pulls : q # p => pull'[q] = pull[q]
  BY <1>0, <1>2 DEF PullType
<1>7. Types'
  BY <1>2, <1>5, <1>6 DEF Types
<1>8. PullsAreSound' /\ MenusAreInPlace'
  BY <1>2, <1>6 DEF PullsAreSound, PullIsSound, MenusAreInPlace
<1>9. /\ PublicationsAreBounded' /\ DraftWhilePublishing' /\ CollectedIsSellable'
      /\ PublicationsAreSellable' /\ ChecksHold'
  BY <1>2, <1>5 DEF PublicationsAreBounded, Bounded, DraftWhilePublishing,
     CollectedIsSellable, Done, Sellable, PublicationsAreSellable, ChecksHold, Arrived
<1>10. ReceiptsAreTrue'
  BY <1>2, <1>4, <1>5 DEF ReceiptsAreTrue, Versions, Checksum
<1> QED
  BY <1>7, <1>8, <1>9, <1>10

\* What the Cloud has published last is one snapshot of each location.
LEMMA LatestIsOnePerLocation ==
  ASSUME IInv
  PROVE  Latest \subseteq Snapshots /\ \A s, t \in Latest : s.location = t.location => s = t
<1> USE DEF IInv
<1>1. db.publications \subseteq Snapshots /\ Bounded(db.publications)
  BY DEF Types, DbType, PublicationsAreBounded
<1>2. ASSUME NEW l \in {s.location : s \in db.publications}
      PROVE  Newest(Versions(l)) \in Versions(l)
  <2>1. Versions(l) \subseteq db.publications /\ Versions(l) # {}
    BY <1>2 DEF Versions
  <2>2. IsFiniteSet(Versions(l))
    BY <1>1, <2>1, FS_Subset DEF Bounded
  <2>3. Bounded(Versions(l)) /\ \A s \in Versions(l) : s.version \in Nat
    BY <1>1, <2>1, <2>2 DEF Bounded, Snapshots
  <2> QED
    BY <2>1, <2>3, NewestIsThere
<1>3. \A l \in {s.location : s \in db.publications} :
         Newest(Versions(l)) \in Snapshots /\ Newest(Versions(l)).location = l
  <2>1. \A l : \A s \in Versions(l) : s \in Snapshots /\ s.location = l
    BY <1>1 DEF Versions
  <2> QED
    BY <1>2, <2>1
<1>4. \A s \in Latest : \E l \in {x.location : x \in db.publications} : s = Newest(Versions(l))
  BY DEF Latest
<1> QED
  BY <1>3, <1>4

\* The venue's other steps: no menu arrives.
LEMMA VenueWaitsSoundly ==
  ASSUME IInv,
         \/ Bootstrap \/ \E p \in Pulls : Fetch(p) \/ Interrupt(p)
         \/ \E r \in Registers : ProvisionRegister(r) \/ RefreshOnce(r) \/ InstallMenu(r)
  PROVE  IInv' /\ UNCHANGED <<db, txn, changes, opening, installs>> /\ edge'.menus = edge.menus
<1> USE DEF IInv
<1>0. /\ edge \in [mapped : SUBSET Locations, menus : [Locations -> InstalledMenus \cup {NoMenu}]]
      /\ pull \in [Pulls -> PullType] /\ register \in [Registers -> RegisterType]
  BY DEF Types
<1>1. UNCHANGED <<db, txn, changes, opening, installs>>
  BY DEF Bootstrap, Fetch, Interrupt, ProvisionRegister, RefreshOnce, InstallMenu, cloudVars
<1>2. /\ edge' \in [mapped : SUBSET Locations, menus : [Locations -> InstalledMenus \cup {NoMenu}]]
      /\ edge'.menus = edge.menus
  BY <1>0 DEF Bootstrap, Fetch, Interrupt, ProvisionRegister, RefreshOnce, InstallMenu
<1>3. pull' \in [Pulls -> PullType] /\ \A q \in Pulls : PullIsSound(q)'
  <2>1. CASE UNCHANGED pull
    BY <1>0, <1>1, <2>1 DEF PullsAreSound, PullIsSound
  <2>2. ASSUME NEW p \in Pulls, Fetch(p)
        PROVE  pull' \in [Pulls -> PullType] /\ \A q \in Pulls : PullIsSound(q)'
    <3> DEFINE new == [step |-> "FETCHED", snapshots |-> Latest]
    <3>1. new \in PullType /\ new.step = "FETCHED" /\ new.snapshots = Latest
      BY LatestIsOnePerLocation DEF PullType
    <3>2. pull' = [pull EXCEPT ![p] = new]
      BY <2>2 DEF Fetch
    <3> HIDE DEF new
    <3>3. /\ pull' \in [Pulls -> PullType] /\ pull'[p] = new
          /\ \A q \in Pulls : q # p => pull'[q] = pull[q]
      BY <1>0, <3>1, <3>2
    <3> QED
      BY <1>1, <3>1, <3>3, LatestIsOnePerLocation DEF PullsAreSound, PullIsSound
  <2>3. ASSUME NEW p \in Pulls, Interrupt(p)
        PROVE  pull' \in [Pulls -> PullType] /\ \A q \in Pulls : PullIsSound(q)'
    <3>1. /\ pull' \in [Pulls -> PullType] /\ pull'[p].step = "FAILED"
          /\ \A q \in Pulls : q # p => pull'[q] = pull[q]
      BY <1>0, <2>3 DEF Interrupt, PullType
    <3> QED
      BY <1>1, <3>1 DEF PullsAreSound, PullIsSound
  <2> QED
    BY <2>1, <2>2, <2>3 DEF Bootstrap, ProvisionRegister, RefreshOnce, InstallMenu
<1>4. register' \in [Registers -> RegisterType]
  <2>1. CASE UNCHANGED register
    BY <1>0, <2>1
  <2>2. ASSUME NEW r \in Registers, ProvisionRegister(r)
        PROVE  register' \in [Registers -> RegisterType]
    <3> DEFINE new == [register[r] EXCEPT !.provisioned = TRUE]
    <3>0. register[r] \in RegisterType
      BY <1>0
    <3>1. new \in RegisterType
      BY <3>0 DEF RegisterType
    <3>2. register' = [register EXCEPT ![r] = new]
      BY <2>2 DEF ProvisionRegister
    <3> HIDE DEF new
    <3> QED
      BY <1>0, <3>1, <3>2
  <2>3. ASSUME NEW r \in Registers, RefreshOnce(r)
        PROVE  register' \in [Registers -> RegisterType]
    <3>1. edge.menus[LocationOf[r]] \in InstalledMenus \cup {NoMenu}
      BY <1>0
    <3> QED
      BY <1>0, <2>3, <3>1 DEF RefreshOnce, RegisterType
  <2>4. ASSUME NEW r \in Registers, InstallMenu(r)
        PROVE  register' \in [Registers -> RegisterType]
    BY <1>0, <2>4 DEF InstallMenu, RegisterType
  <2> QED
    BY <2>1, <2>2, <2>3, <2>4 DEF Bootstrap, Fetch, Interrupt
<1>5. Types'
  BY <1>1, <1>2, <1>3, <1>4 DEF Types
<1>6. /\ PublicationsAreBounded' /\ DraftWhilePublishing' /\ CollectedIsSellable'
      /\ PublicationsAreSellable' /\ ReceiptsAreTrue'
  BY <1>1 DEF PublicationsAreBounded, Bounded, DraftWhilePublishing, CollectedIsSellable,
     Done, Sellable, PublicationsAreSellable, ReceiptsAreTrue, Versions, Checksum
<1>7. MenusAreInPlace' /\ ChecksHold'
  BY <1>1, <1>2 DEF MenusAreInPlace, ChecksHold, Arrived
<1> QED
  BY <1>1, <1>2, <1>3, <1>5, <1>6, <1>7 DEF PullsAreSound

-----------------------------------------------------------------------------
(* The theorems.                                                            *)

\* The invariant holds at first.
LEMMA InitIsSound == Init => IInv
<1> SUFFICES ASSUME Init PROVE IInv
  OBVIOUS
<1>1. db \in DbType /\ db.publications = {} /\ db.receipts = {}
  BY DEF Init, DbType, Lifecycles
<1>2. /\ txn = [c \in Clients |-> Idle] /\ txn \in [Clients -> TxnType]
      /\ \A c \in Clients : Done(c) = {} /\ txn[c].op = "none"
  BY DEF Init, TxnType, Idle, Done
<1>3. /\ edge \in [mapped : SUBSET Locations, menus : [Locations -> InstalledMenus \cup {NoMenu}]]
      /\ \A l \in Locations : edge.menus[l] = NoMenu
  BY DEF Init
<1>4. pull \in [Pulls -> PullType] /\ \A p \in Pulls : pull[p].step = "NEW"
  BY DEF Init, PullType
<1>5. register \in [Registers -> RegisterType]
  BY DEF Init, RegisterType
<1>6. changes \in 0..MaxChanges /\ installs = {} /\ opening = {}
  BY DEF Init
<1>7. Types
  BY <1>1, <1>2, <1>3, <1>4, <1>5, <1>6 DEF Types
<1>8. Bounded({})
  BY FS_EmptySet DEF Bounded
<1> QED
  BY <1>1, <1>2, <1>3, <1>4, <1>6, <1>7, <1>8 DEF IInv, PublicationsAreBounded,
     DraftWhilePublishing, CollectedIsSellable, MenusAreInPlace, PullsAreSound, PullIsSound,
     ChecksHold, Arrived, ReceiptsAreTrue, PublicationsAreSellable

\* A request of an operator: it changes no menu where it is installed, and only
\* its commit changes what is published.
LEMMA RequestIsSound ==
  ASSUME IInv, NEW c \in Clients, Request(c)
  PROVE  /\ IInv' /\ UNCHANGED <<edge, register>>
         /\ db'.publications # db.publications => CommitPublication(c)
<1>1. CASE \/ \E x \in Rows : ReadRow(c, x)
           \/ WriteRow(c) \/ UpdateEvent(c) \/ Publish(c) \/ ChooseMenu(c)
  <2>1. Types' /\ Prepares
    BY <1>1, PreparingRequest
  <2> QED
    BY <2>1, PreparingIsSound DEF Prepares
<1>2. CASE AssertPosMenuActivationReady(c) \/ WriteEvent(c)
  <2>1. IInv' /\ UNCHANGED <<edge, register>>
    BY <1>2, OpeningIsSound DEF AssertPosMenuActivationReady, WriteEvent, venueVars
  <2>2. db'.publications = db.publications
    BY <1>2 DEF AssertPosMenuActivationReady, WriteEvent, IInv, Types, DbType
  <2> QED
    BY <2>1, <2>2
<1>3. CASE PublishLocation(c)
  BY <1>3, PublishLocationIsSound DEF PublishLocation, venueVars
<1>4. CASE CommitPublication(c)
  BY <1>4, CommitPublicationIsSound DEF CommitPublication, venueVars
<1> QED
  BY <1>1, <1>2, <1>3, <1>4 DEF Request, UpdateOrganisation, UpdateSalesLocation,
     UpdateInventoryLocation, UpdateProduct, UpdateSku, UpdateMenu, UpdateMenuItem, Rows

\* Every step keeps the invariant, and no menu is taken back by it.
LEMMA NextIsSound ==
  ASSUME IInv, [Next]_vars
  PROVE  IInv' /\ MenusNeverGoBack /\ PublishedWhileDraft
<1>0. /\ \A l \in Locations : edge.menus[l].version \in Nat
      /\ \A r \in Registers : register[r].menu.version \in Nat
      /\ \A r \in Registers : register[r].fetched.version \in Nat
  BY DEF IInv, Types, RegisterType, InstalledMenus, NoMenu
<1>1. ASSUME UNCHANGED register, \A l \in Locations : Follows(edge'.menus[l], edge.menus[l])
      PROVE  MenusNeverGoBack
  BY <1>0, <1>1 DEF MenusNeverGoBack, Follows
<1>2. ASSUME UNCHANGED register, edge'.menus = edge.menus
      PROVE  MenusNeverGoBack
  BY <1>0, <1>2 DEF MenusNeverGoBack, Follows
<1>3. CASE Configure
  <2>1. Types' /\ Prepares
    BY <1>3, ConfigureStep
  <2> QED
    BY <1>2, <2>1, PreparingIsSound DEF Prepares, PublishedWhileDraft
<1>4. ASSUME NEW c \in Clients, Request(c)
      PROVE  IInv' /\ MenusNeverGoBack /\ PublishedWhileDraft
  <2>1. /\ IInv' /\ UNCHANGED <<edge, register>>
        /\ db'.publications # db.publications => CommitPublication(c)
    BY <1>4, RequestIsSound
  <2>2. CommitPublication(c) => db.event = "DRAFT"
    BY DEF CommitPublication, IInv, DraftWhilePublishing
  <2> QED
    BY <1>2, <2>1, <2>2 DEF PublishedWhileDraft
<1>5. CASE \/ Bootstrap \/ \E p \in Pulls : Fetch(p) \/ Interrupt(p)
           \/ \E r \in Registers : ProvisionRegister(r) \/ RefreshOnce(r) \/ InstallMenu(r)
  <2>1. IInv' /\ UNCHANGED <<db, txn, changes, opening, installs>> /\ edge'.menus = edge.menus
    BY <1>5, VenueWaitsSoundly
  <2>2. ASSUME NEW r \in Registers PROVE Follows(register'[r].menu, register[r].menu)
    <3>1. register'[r].menu = register[r].menu
          \/ (register'[r].menu = register[r].fetched
              /\ register[r].fetched.version > register[r].menu.version)
      <4>1. register \in [Registers -> RegisterType]
        BY DEF IInv, Types
      <4>2. CASE \E q \in Registers : ProvisionRegister(q) \/ RefreshOnce(q)
        BY <4>1, <4>2 DEF ProvisionRegister, RefreshOnce, RegisterType
      <4>3. ASSUME NEW q \in Registers, InstallMenu(q)
            PROVE  register'[r].menu = register[r].menu
                   \/ (register'[r].menu = register[r].fetched
                       /\ register[r].fetched.version > register[r].menu.version)
        <5>1. CASE Advances(q)
          BY <4>1, <4>3, <5>1 DEF InstallMenu, Advances, RegisterType
        <5>2. CASE ~Advances(q)
          BY <4>1, <4>3, <5>2 DEF InstallMenu, RegisterType
        <5> QED
          BY <5>1, <5>2
      <4>4. CASE UNCHANGED register
        BY <4>4
      <4> QED
        BY <1>5, <4>2, <4>3, <4>4 DEF Bootstrap, Fetch, Interrupt
    <3> QED
      BY <1>0, <3>1 DEF Follows
  <2> QED
    BY <1>0, <2>1, <2>2 DEF MenusNeverGoBack, Follows, PublishedWhileDraft
<1>6. ASSUME NEW p \in Pulls, InstallBatch(p)
      PROVE  IInv' /\ MenusNeverGoBack /\ PublishedWhileDraft
  <2>1. UNCHANGED <<register, db>>
    BY <1>6 DEF InstallBatch, cloudVars
  <2> QED
    BY <1>1, <1>6, <2>1, InstallBatchIsSound DEF PublishedWhileDraft
<1>7. ASSUME NEW p \in Pulls, AcknowledgeInstalled(p)
      PROVE  IInv' /\ MenusNeverGoBack /\ PublishedWhileDraft
  <2>1. UNCHANGED <<edge, register>> /\ db'.publications = db.publications
    BY <1>7 DEF AcknowledgeInstalled, IInv, Types, DbType
  <2> QED
    BY <1>2, <1>7, <2>1, AcknowledgeIsSound DEF PublishedWhileDraft
<1>8. ASSUME NEW l \in Locations, InstallSnapshot(l)
      PROVE  IInv' /\ MenusNeverGoBack /\ PublishedWhileDraft
  <2>1. UNCHANGED <<register, db>>
    BY <1>8 DEF InstallSnapshot, cloudVars
  <2> QED
    BY <1>1, <1>8, <2>1, InstallSnapshotIsSound DEF PublishedWhileDraft
<1>9. CASE UNCHANGED vars
  <2>1. Types' /\ Prepares
    BY <1>9 DEF IInv, Types, Prepares, Quiet, vars
  <2> QED
    BY <1>2, <2>1, PreparingIsSound DEF Prepares, PublishedWhileDraft
<1> QED
  BY <1>3, <1>4, <1>5, <1>6, <1>7, <1>8, <1>9 DEF Next, Venue

\* The invariant holds of every event, however its requests, publications,
\* pulls, local installations and refreshes interleave.
THEOREM SpecIsSound == Spec => []IInv
<1>1. Init => IInv
  BY InitIsSound
<1>2. IInv /\ [Next]_vars => IInv'
  BY NextIsSound
<1> QED
  BY <1>1, <1>2, PTL DEF Spec

\* The rows keep their types.
THEOREM CatalogueTypes == Spec => []TypeOK
<1>1. IInv => TypeOK
  BY DEF IInv, Types, TypeOK, DbType, TxnType, PullType, Idle, Patches, EventChanges,
     PublicationsUnderWay, Stamps
<1> QED
  BY <1>1, SpecIsSound, PTL

\* What is published can be sold, what has a receipt has been installed, and an
\* open event has the menus that its check relied on.
THEOREM SoldIsInstalled == Spec => []WhatIsSoldIsInstalled
<1>1. IInv => WhatIsSoldIsInstalled
  BY DEF IInv, WhatIsSoldIsInstalled, OpenedWithMenus, ChecksHold, Arrived
<1> QED
  BY <1>1, SpecIsSound, PTL

\* No menu is replaced by an older one or by another of its version, at the
\* venue or on a register, and only a draft event is published.
THEOREM MenusOnlyGoForward == Spec => MenusGoForward
<1>1. IInv /\ [Next]_vars => [MenusNeverGoBack /\ PublishedWhileDraft]_vars
  BY NextIsSound
<1> QED
  BY <1>1, SpecIsSound, PTL DEF Spec, MenusGoForward

=============================================================================
