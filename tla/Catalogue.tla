------------------------------- MODULE Catalogue -------------------------------
(***************************************************************************)
(* From the configuration of one event in the Cloud to the menu on a       *)
(* register: the organisation's catalogue, the event's locations, menus    *)
(* and prices, the publication of immutable menu versions while the event  *)
(* is a draft, the pull that installs them on the venue's Event Edge and   *)
(* acknowledges them, the opening of the event, and the registers'         *)
(* refresh.                                                                *)
(*                                                                         *)
(* Requests are PostgreSQL transactions at READ COMMITTED.  A PATCH reads  *)
(* its row and later writes every column back; a publication holds the     *)
(* row of the event FOR UPDATE from its first statement to its commit.     *)
(* Of a row we keep its lifecycle; any other column is a "rename".         *)
(***************************************************************************)
EXTENDS Integers, Sequences, FiniteSets, FiniteSetsExt, SequencesExt

CONSTANTS
    Locations, Stores, Products, Skus, Menus, Items,   \* rows, by kind
    ProductOf, SkuOf, MenuOf,  \* sku -> product, item -> sku, item -> menu
    Code,          \* sku -> code
    Prices,        \* prices that may be set: [amount, currency]
    Unset,         \* no price
    Everywhere,    \* the location of a menu item's default price
    ConfiguredRows, ConfiguredAssignments, ConfiguredPrices, \* the setup we start from
    Clients,       \* requests of operators that may be under way
    Pulls,         \* runs of the venue's pull command
    Registers, LocationOf,
    EventTargets,  \* lifecycles that are asked of the event
    MaxChanges,    \* requests that change rows other than the event's
    MaxBatches,    \* publications of the event
    MaxLocal       \* menus installed at the Edge by hand

Lifecycles == {"DRAFT", "ACTIVE", "CLOSED", "ARCHIVED"}
Rows == {"organisation"} \cup Locations \cup Stores \cup Products \cup Skus \cup Menus \cup Items

ASSUME CatalogueAssumptions ==
    /\ ProductOf \in [Skus -> Products] /\ SkuOf \in [Items -> Skus] /\ MenuOf \in [Items -> Menus]
    /\ ConfiguredRows \subseteq Rows /\ ConfiguredAssignments \subseteq Menus \X Locations
    /\ ConfiguredPrices \in [Items \X (Locations \cup {Everywhere}) -> Prices \cup {Unset}]
    /\ Unset \notin Prices /\ Everywhere \notin Locations
    /\ IsFiniteSet(Locations) /\ Items # {} /\ Prices # {}
    /\ EventTargets \subseteq Lifecycles
    /\ LocationOf \in [Registers -> Locations]
    /\ {MaxChanges, MaxBatches, MaxLocal} \subseteq Nat

VARIABLES
    db,        \* the Cloud's committed rows
    txn,       \* client -> the request it has under way
    changes,   \* requests counted in MaxChanges
    edge,      \* the Edge's mapping and menus
    pull,      \* pull -> where the run stands
    register,  \* register -> its menu and what it has fetched
    installs,  \* history: every snapshot the Edge has ever had
    opening    \* history: what the check found that opened the event

vars == <<db, txn, changes, edge, pull, register, installs, opening>>
cloudVars == <<db, txn, changes, opening>>
venueVars == <<edge, pull, register, installs>>

NoMenu == [version |-> 0]
Idle == [op |-> "none"]

Checksum(s) == <<s.menu, s.version, s.batch, s.items>>

Init ==
    /\ db = [event |-> "DRAFT",
             life |-> [x \in Rows |-> IF x \in ConfiguredRows THEN "ACTIVE" ELSE "NONE"],
             assigned |-> ConfiguredAssignments,
             price |-> ConfiguredPrices,
             publications |-> {}, receipts |-> {}]
    /\ txn = [c \in Clients |-> Idle]
    /\ changes = 0
    /\ edge = [mapped |-> {}, menus |-> [l \in Locations |-> NoMenu]]
    /\ pull = [p \in Pulls |-> [step |-> "NEW"]]
    /\ register = [r \in Registers |-> [provisioned |-> FALSE, menu |-> NoMenu, fetched |-> NoMenu]]
    /\ installs = {}
    /\ opening = {}

-----------------------------------------------------------------------------
(* Configuration.  Every change commits with its audit row. *)

Exists(x) == db.life[x] # "NONE"
End(c) == txn' = [txn EXCEPT ![c] = Idle]
Changing == changes < MaxChanges /\ changes' = changes + 1

\* SELECT ... FOR UPDATE of the event: an insert of a row that refers to the
\* event, and an update of the event, wait for it.
NeverLocked == FALSE
EventLocked == \E c \in Clients : txn[c].op = "publish"

Create(x) ==
    /\ ~Exists(x)
    /\ db' = [db EXCEPT !.life[x] = "ACTIVE"]
    /\ Changing
    /\ UNCHANGED <<txn, opening>> /\ UNCHANGED venueVars

CreateSalesLocation(l) == ~EventLocked /\ Create(l)
CreateInventoryLocation(s) == ~EventLocked /\ Create(s)
CreateProduct(p) == Create(p)
CreateSku(s) ==
    /\ Exists(ProductOf[s])
    /\ \A other \in Skus : Exists(other) => Code[other] # Code[s]
    /\ Create(s)
CreateMenu(m) == ~EventLocked /\ Create(m)
CreateMenuItem(i) ==
    /\ Exists(MenuOf[i]) /\ Exists(SkuOf[i])
    /\ \A other \in Items :
         Exists(other) => MenuOf[other] # MenuOf[i] \/ SkuOf[other] # SkuOf[i]
    /\ Create(i)

AssignMenu(m, l) ==
    /\ Exists(m) /\ Exists(l)
    /\ <<m, l>> \notin db.assigned
    /\ db' = [db EXCEPT !.assigned = @ \cup {<<m, l>>}]
    /\ Changing
    /\ UNCHANGED <<txn, opening>> /\ UNCHANGED venueVars

\* An override needs the menu to be assigned to its location.
ParsedPrice(p) == p.amount >= 0
SetMenuItemPrice(i, l, p) ==
    /\ Exists(i) /\ ParsedPrice(p)
    /\ l # Everywhere => Exists(l) /\ <<MenuOf[i], l>> \in db.assigned
    /\ db.price[<<i, l>>] # p
    /\ db' = [db EXCEPT !.price[<<i, l>>] = p]
    /\ Changing
    /\ UNCHANGED <<txn, opening>> /\ UNCHANGED venueVars

\* The first half of a PATCH: the row is read; "KEEP" leaves its lifecycle.
ReadRow(c, x) ==
    /\ txn[c] = Idle /\ Exists(x)
    /\ \E to \in {"KEEP", "ACTIVE", "ARCHIVED"} \ {db.life[x]} :
         txn' = [txn EXCEPT ![c] =
                   [op |-> "patch", row |-> x,
                    life |-> IF to = "KEEP" THEN db.life[x] ELSE to]]
    /\ Changing
    /\ UNCHANGED <<db, opening>> /\ UNCHANGED venueVars

UpdateOrganisation(c) == ReadRow(c, "organisation")
UpdateSalesLocation(c) == \E l \in Locations : ReadRow(c, l)
UpdateInventoryLocation(c) == \E s \in Stores : ReadRow(c, s)
UpdateProduct(c) == \E p \in Products : ReadRow(c, p)
UpdateSku(c) == \E s \in Skus : ReadRow(c, s)
UpdateMenu(c) == \E m \in Menus : ReadRow(c, m)
UpdateMenuItem(c) == \E i \in Items : ReadRow(c, i)

\* The second half: every column is written, the ones the request left alone
\* as they were read.
WriteRow(c) ==
    /\ txn[c].op = "patch"
    /\ db' = [db EXCEPT !.life[txn[c].row] = txn[c].life]
    /\ End(c)
    /\ UNCHANGED <<changes, opening>> /\ UNCHANGED venueVars

Versions(l) == {s \in db.publications : s.location = l}
Newest(snapshots) == CHOOSE s \in snapshots : \A t \in snapshots : t.version <= s.version

\* Every active location's latest publication has a receipt.
PublicationsSuffice ==
    \A l \in {x \in Locations : db.life[x] = "ACTIVE"} : Versions(l) # {}
PosMenuActivationReady ==
    \A l \in {x \in Locations : db.life[x] = "ACTIVE"} :
        /\ Versions(l) # {}
        /\ <<l, Newest(Versions(l)).version>> \in db.receipts

\* The PATCH of the event reads its row without a lock, ...
UpdateEvent(c) ==
    /\ txn[c] = Idle
    /\ \E to \in {"KEEP"} \cup (EventTargets \ {db.event}) :
         txn' = [txn EXCEPT ![c] =
                   [op |-> IF to = "ACTIVE" THEN "activate" ELSE "event",
                    life |-> IF to = "KEEP" THEN db.event ELSE to, found |-> {}]]
    /\ UNCHANGED <<db, changes, opening>> /\ UNCHANGED venueVars

\* ... checks that the venue is ready if it is to become ACTIVE, ...
AssertPosMenuActivationReady(c) ==
    /\ txn[c].op = "activate"
    /\ IF PosMenuActivationReady
         THEN txn' = [txn EXCEPT ![c].op = "event",
                ![c].found = {<<l, Newest(Versions(l)).version>> :
                                 l \in {x \in Locations : db.life[x] = "ACTIVE"}}]
         ELSE End(c)
    /\ UNCHANGED <<db, changes, opening>> /\ UNCHANGED venueVars

\* ... and writes it when no publication holds it.
WriteEvent(c) ==
    /\ txn[c].op = "event" /\ ~EventLocked
    /\ db' = [db EXCEPT !.event = txn[c].life]
    /\ opening' = IF txn[c].found # {} THEN txn[c].found ELSE opening
    /\ End(c)
    /\ UNCHANGED changes /\ UNCHANGED venueVars

-----------------------------------------------------------------------------
(* Publication *)

LockDraftEvent == ~EventLocked /\ db.event = "DRAFT"

Publish(c) ==
    /\ txn[c] = Idle
    /\ LockDraftEvent
    /\ Cardinality({s.batch : s \in db.publications}) < MaxBatches
    /\ LET active == {l \in Locations : db.life[l] = "ACTIVE"} IN
         /\ active # {}
         /\ txn' = [txn EXCEPT ![c] = [op |-> "publish", todo |-> SetToSeq(active),
                                       menu |-> {}, done |-> {}]]
    /\ UNCHANGED <<db, changes, opening>> /\ UNCHANGED venueVars

AssignedMenus(l) == {m \in Menus : <<m, l>> \in db.assigned /\ db.life[m] = "ACTIVE"}

\* A location must have exactly one active menu.
ChooseMenu(c) ==
    /\ txn[c].op = "publish" /\ txn[c].todo # <<>> /\ txn[c].menu = {}
    /\ LET menus == AssignedMenus(Head(txn[c].todo)) IN
         IF Cardinality(menus) = 1 THEN txn' = [txn EXCEPT ![c].menu = menus] ELSE End(c)
    /\ UNCHANGED <<db, changes, opening>> /\ UNCHANGED venueVars

SellableItems(m) ==
    {i \in Items : /\ MenuOf[i] = m /\ db.life[i] = "ACTIVE"
                   /\ db.life[SkuOf[i]] = "ACTIVE" /\ db.life[ProductOf[SkuOf[i]]] = "ACTIVE"}
DefaultPrice(i, l) == db.price[<<i, Everywhere>>]
PriceAt(i, l) == IF db.price[<<i, l>>] # Unset THEN db.price[<<i, l>>] ELSE db.price[<<i, Everywhere>>]

EmptyToo(items, l) == \A i \in items : PriceAt(i, l) # Unset
AnyCurrencies(items, l) == items # {} /\ \A i \in items : PriceAt(i, l) # Unset
Publishable(items, l) ==
    /\ items # {}
    /\ \A i \in items : PriceAt(i, l) # Unset
    /\ Cardinality({PriceAt(i, l).currency : i \in items}) = 1

NextBatch == Cardinality({s.batch : s \in db.publications}) + 1

\* The next version of the location, with the items its menu sells there now.
PublishLocation(c) ==
    /\ txn[c].op = "publish" /\ txn[c].menu # {}
    /\ LET l == Head(txn[c].todo)
           m == CHOOSE x \in txn[c].menu : TRUE
           items == SellableItems(m)
           snapshot == [location |-> l, menu |-> m, batch |-> NextBatch,
                        version |-> Max({0} \cup {s.version : s \in Versions(l)}) + 1,
                        items |-> {[item |-> i, sku |-> SkuOf[i], price |-> PriceAt(i, l)] :
                                      i \in items}]
       IN IF Publishable(items, l)
            THEN txn' = [txn EXCEPT ![c].done = @ \cup {snapshot}, ![c].todo = Tail(@),
                                    ![c].menu = {}]
            ELSE End(c)
    /\ UNCHANGED <<db, changes, opening>> /\ UNCHANGED venueVars

CommitPublication(c) ==
    /\ txn[c].op = "publish" /\ txn[c].todo = <<>>
    /\ db' = [db EXCEPT !.publications = @ \cup txn[c].done]
    /\ End(c)
    /\ UNCHANGED <<changes, opening>> /\ UNCHANGED venueVars

-----------------------------------------------------------------------------
(* The venue: bootstrap, pull and local installation *)

\* The snapshot replaces every mapping of the event: it deletes them first,
\* which fails once menus or provisioned registers refer to them.
ReferredTo == \/ \E l \in Locations : edge.menus[l] # NoMenu
              \/ \E r \in Registers : register[r].provisioned
Bootstrap ==
    /\ ~ReferredTo
    /\ edge' = [edge EXCEPT !.mapped = Locations]
    /\ UNCHANGED <<pull, register, installs>> /\ UNCHANGED cloudVars

ProvisionRegister(r) ==
    /\ ~register[r].provisioned /\ LocationOf[r] \in edge.mapped
    /\ register' = [register EXCEPT ![r].provisioned = TRUE]
    /\ UNCHANGED <<edge, pull, installs>> /\ UNCHANGED cloudVars

\* What the Cloud has published last, for each location.
Latest == {Newest(Versions(l)) : l \in {s.location : s \in db.publications}}

\* A snapshot whose checksum does not match, or that names a sku twice, is
\* refused wherever it arrives.
ParsedSnapshot(s) ==
    /\ s.items # {} /\ s.version >= 1
    /\ \A i, j \in s.items : i.sku = j.sku => i = j

Fetch(p) ==
    /\ pull[p].step = "NEW" /\ Latest # {}
    /\ \A s \in Latest : ParsedSnapshot(s)
    /\ pull' = [pull EXCEPT ![p] = [step |-> "FETCHED", snapshots |-> Latest]]
    /\ UNCHANGED <<edge, register, installs>> /\ UNCHANGED cloudVars

\* One location's snapshot: a version never goes back, and a version that is
\* there keeps its content.
AnyVersion(s) == s.location \in edge.mapped
InstallOne(s) ==
    LET existing == edge.menus[s.location] IN
    /\ s.location \in edge.mapped
    /\ existing.version <= s.version
    /\ existing.version = s.version => Checksum(existing) = Checksum(s)

\* All of the batch or nothing.
InstallBatch(p) ==
    /\ pull[p].step = "FETCHED"
    /\ IF \A s \in pull[p].snapshots : InstallOne(s)
         THEN /\ edge' = [edge EXCEPT !.menus =
                   [l \in Locations |->
                      IF \E s \in pull[p].snapshots : s.location = l
                        THEN CHOOSE s \in pull[p].snapshots : s.location = l
                        ELSE edge.menus[l]]]
              /\ installs' = installs \cup pull[p].snapshots
              /\ pull' = [pull EXCEPT ![p].step = "INSTALLED"]
         ELSE /\ pull' = [pull EXCEPT ![p] = [step |-> "FAILED"]]
              /\ UNCHANGED <<edge, installs>>
    /\ UNCHANGED register /\ UNCHANGED cloudVars

\* The Edge, or the command, stops between the steps of a pull.
Interrupt(p) ==
    /\ pull[p].step \in {"FETCHED", "INSTALLED"}
    /\ pull' = [pull EXCEPT ![p] = [step |-> "FAILED"]]
    /\ UNCHANGED <<edge, register, installs>> /\ UNCHANGED cloudVars

\* The Cloud records a receipt of each, if each is a publication of its own.
FetchedIsEnough(p) == pull[p].step \in {"FETCHED", "INSTALLED"}
Acknowledgeable(p) == pull[p].step = "INSTALLED"
AcknowledgeInstalled(p) ==
    /\ Acknowledgeable(p)
    /\ \A s \in pull[p].snapshots :
         \E q \in Versions(s.location) : q.version = s.version /\ Checksum(q) = Checksum(s)
    /\ db' = [db EXCEPT !.receipts = @ \cup {<<s.location, s.version>> : s \in pull[p].snapshots}]
    /\ pull' = [pull EXCEPT ![p] = [step |-> "DONE"]]
    /\ UNCHANGED <<edge, register, installs, txn, changes, opening>>

\* The local administrator installs a snapshot of his own.
InstallSnapshot(l) ==
    LET s == [location |-> l, menu |-> "local", batch |-> 0,
              version |-> edge.menus[l].version + 1,
              items |-> {[item |-> i, sku |-> SkuOf[i], price |-> CHOOSE p \in Prices : TRUE] :
                            i \in {CHOOSE x \in Items : TRUE}}] IN
    /\ Cardinality({x \in installs : x.menu = "local"}) < MaxLocal
    /\ ParsedSnapshot(s) /\ InstallOne(s)
    /\ edge' = [edge EXCEPT !.menus[l] = s]
    /\ installs' = installs \cup {s}
    /\ UNCHANGED <<pull, register>> /\ UNCHANGED cloudVars

-----------------------------------------------------------------------------
(* The registers refresh their menus for ever *)

RefreshOnce(r) ==
    /\ register[r].provisioned
    /\ register[r].fetched = NoMenu /\ edge.menus[LocationOf[r]] # NoMenu
    /\ register' = [register EXCEPT ![r].fetched = edge.menus[LocationOf[r]]]
    /\ UNCHANGED <<edge, pull, installs>> /\ UNCHANGED cloudVars

Advances(r) ==
    /\ ParsedSnapshot(register[r].fetched)
    /\ register[r].fetched.version > register[r].menu.version
InstallMenu(r) ==
    /\ register[r].fetched # NoMenu
    /\ register' = [register EXCEPT
                      ![r].menu = IF Advances(r) THEN register[r].fetched ELSE @,
                      ![r].fetched = NoMenu]
    /\ UNCHANGED <<edge, pull, installs>> /\ UNCHANGED cloudVars

-----------------------------------------------------------------------------
Configure ==
    \/ \E l \in Locations : CreateSalesLocation(l)
    \/ \E s \in Stores : CreateInventoryLocation(s)
    \/ \E p \in Products : CreateProduct(p)
    \/ \E s \in Skus : CreateSku(s)
    \/ \E m \in Menus : CreateMenu(m)
    \/ \E i \in Items : CreateMenuItem(i)
    \/ \E m \in Menus, l \in Locations : AssignMenu(m, l)
    \/ \E i \in Items, l \in Locations \cup {Everywhere}, p \in Prices : SetMenuItemPrice(i, l, p)

Request(c) ==
    \/ UpdateOrganisation(c) \/ UpdateSalesLocation(c) \/ UpdateInventoryLocation(c)
    \/ UpdateProduct(c) \/ UpdateSku(c) \/ UpdateMenu(c) \/ UpdateMenuItem(c) \/ WriteRow(c)
    \/ UpdateEvent(c) \/ AssertPosMenuActivationReady(c) \/ WriteEvent(c)
    \/ Publish(c) \/ ChooseMenu(c) \/ PublishLocation(c) \/ CommitPublication(c)

Venue ==
    \/ Bootstrap
    \/ \E p \in Pulls : Fetch(p) \/ InstallBatch(p) \/ Interrupt(p) \/ AcknowledgeInstalled(p)
    \/ \E l \in Locations : InstallSnapshot(l)
    \/ \E r \in Registers : ProvisionRegister(r) \/ RefreshOnce(r) \/ InstallMenu(r)

Next == Configure \/ (\E c \in Clients : Request(c)) \/ Venue

Spec == Init /\ [][Next]_vars

-----------------------------------------------------------------------------
(* Properties *)

Snapshots == [location : Locations, menu : Menus, batch : Nat, version : Nat \ {0},
              items : (SUBSET [item : Items, sku : Skus, price : Prices]) \ {{}}]

Follows(new, old) == new.version >= old.version /\ (new.version = old.version => new = old)

\* The variables keep their types.
TypeOK ==
    /\ db.event \in Lifecycles
    /\ db.life \in [Rows -> {"NONE", "ACTIVE", "ARCHIVED"}]
    /\ db.assigned \subseteq Menus \X Locations
    /\ \A s \in db.publications : s \in Snapshots
    /\ db.receipts \subseteq Locations \X Nat
    /\ \A c \in Clients : txn[c].op \in {"none", "patch", "activate", "event", "publish"}
    /\ edge.mapped \subseteq Locations
    /\ \A p \in Pulls : pull[p].step \in {"NEW", "FETCHED", "INSTALLED", "FAILED", "DONE"}
    /\ changes \in 0..MaxChanges

\* A receipt in the Cloud is never ahead of the venue: whatever batches are
\* published, and whichever pulls overtake each other, fail half way or meet
\* a menu the administrator installed, the very publication a receipt stands
\* for has been on the Edge.
ReceiptsAreTrue ==
    \A receipt \in db.receipts :
        \E s \in installs : receipt = <<s.location, s.version>>
                           /\ \E q \in Versions(s.location) : Checksum(q) = Checksum(s)

\* A slower pull never takes a location's menu back to an older version, nor
\* does a slower refresh a register's, and a version never changes its content
\* where it is installed.
MenusNeverGoBack ==
    /\ \A l \in Locations : Follows(edge'.menus[l], edge.menus[l])
    /\ \A r \in Registers : Follows(register'[r].menu, register[r].menu)

\* A publication commits only into a DRAFT event: no change of the lifecycle
\* slips in between the check and the commit.
PublishedWhileDraft == db'.publications # db.publications => db.event = "DRAFT"

\* What a location is offered can be sold there: priced, in one currency, at
\* a price that was the location's own if it has one.
PublicationsAreSellable ==
    \A s \in db.publications :
        /\ s.items # {}
        /\ \A i \in s.items : i.price # Unset
        /\ Cardinality({i.price.currency : i \in s.items}) = 1

\* An event is open only if the menus its check relied on are on the Edge.
OpenedWithMenus ==
    db.event = "ACTIVE" => \A relied \in opening : edge.menus[relied[1]].version >= relied[2]

\* What is published can be sold, what has a receipt is at the venue, and an
\* open event has the menus that its check relied on.
WhatIsSoldIsInstalled == ReceiptsAreTrue /\ PublicationsAreSellable /\ OpenedWithMenus

\* Menus only go forward: at the venue, on a register, and in the Cloud, where
\* an event that has left DRAFT gets no new ones.
MenusGoForward == [][MenusNeverGoBack /\ PublishedWhileDraft]_vars

\* "Event cannot become ACTIVE until the latest POS menu for every active
\* sales location is installed on Event Edge" (configuration.service.ts).
OpenMeansInstalled ==
    [][db.event # "ACTIVE" /\ db'.event = "ACTIVE" =>
         \A l \in {x \in Locations : db.life[x] = "ACTIVE" /\ Versions(x) # {}} :
             edge.menus[l].version >= Newest(Versions(l)).version]_vars
=============================================================================
