------------------------------ MODULE Inventory ------------------------------
(***************************************************************************)
(* The stock ledger of the Event Edge: sales consumed from the registers'  *)
(* events, transfers between stock locations, physical counts and manual   *)
(* movements, all of one event.  Stock on hand is nothing but the sum of   *)
(* the ledger's movements.                                                 *)
(*                                                                         *)
(* A PostgreSQL transaction that takes several locks is a record in txn:   *)
(* it holds the row of its transfer or count from its first statement,     *)
(* takes the advisory locks of the stocks it decides about one by one, and *)
(* changes the tables in one step, when it commits.  A request that takes  *)
(* all it needs at once and reads no stock is a single step.               *)
(***************************************************************************)
EXTENDS Integers, Sequences, FiniteSets, FiniteSetsExt

CONSTANTS
    Workers,      \* what may run a transaction: the loop and the requests
    Loop,         \* the background loop among them, one pass at a time
    Sales,        \* closed-sale events, each of one unit of Product
    Transfers, Receipts, Counts, Manuals,   \* ids and idempotency keys
    Locations, NoLocation,                  \* stock locations; no mapping
    Skus, Product,
    SkuOrder,     \* the SKUs as localeCompare sorts them
    DbOrder,      \* the SKUs as the database's ORDER BY sorts them
    Mappings,     \* where the installed configuration may send the sales
    Recipes,      \* the recipes it may hold: SKU -> quantity per unit sold
    Opening,      \* stock received before: location -> SKU -> quantity
    Requests,     \* transfers asked for: source, destination, quantities
    Findings,     \* counts opened: location and quantities found
    Postings,     \* manual movements asked for: location, SKU and quantity
    Reversible,   \* the kinds of movement that somebody may reverse
    MaxFaults,    \* failures of a transaction (error, crash, lost database)
    MaxClosings,  \* requests to close a count
    MaxReversals  \* reversals of a movement

Quantities == [Skus -> Int]

ASSUME InventoryAssumptions ==
    /\ IsFiniteSet(Locations) /\ IsFiniteSet(Skus) /\ Product \in Skus
    /\ NoLocation \notin Locations /\ Transfers \cap Counts = {}
    /\ Loop \in Workers
    /\ \A order \in {SkuOrder, DbOrder} :
          order \in Seq(Skus) /\ Skus = {order[i] : i \in DOMAIN order}
    /\ Mappings \subseteq Locations \cup {NoLocation} /\ Recipes \subseteq Quantities
    /\ Opening \in [Locations -> Quantities]
    /\ Requests \subseteq [source : Locations, destination : Locations, requested : Quantities]
    /\ Findings \subseteq [location : Locations, counted : Quantities]
    /\ Postings \subseteq [location : Locations, sku : Skus, delta : Int]
    /\ {MaxFaults, MaxClosings, MaxReversals} \subseteq Nat

VARIABLES
    config,       \* edge_sales_inventory_mapping, edge_inventory_recipes
    inbox,        \* edge_inventory_sale_inbox: sale -> outcome
    ledger,       \* edge_inventory_ledger: the set of movements
    transfer,     \* edge_stock_transfers and their lines
    told,         \* edge_inventory_cloud_outbox: what its newest rows say
    receipts,     \* edge_stock_transfer_receipts: the keys used
    count,        \* edge_stock_counts and their lines
    txn,          \* worker -> the transaction it runs
    closings, faults

vars == <<config, inbox, ledger, transfer, told, receipts, count, txn, closings, faults>>
tables == <<config, inbox, ledger, transfer, told, receipts, count>>

Lines(q) == {s \in Skus : q[s] # 0}
Nothing == [s \in Skus |-> 0]

-----------------------------------------------------------------------------
(* What the requests are held to before anything else is done *)

PositiveLines(q) == Lines(q) # {} /\ \A s \in Lines(q) : q[s] > 0

ParsedTransfer(q) == PositiveLines(q)
ParsedReceipt(q) == PositiveLines(q)
ParsedDispatch(q) == PositiveLines(q)
ParsedCount(q) == \A s \in Skus : q[s] >= 0
ParsedMovement(d) == d # 0
ParsedConfiguration(c) == \A s \in Lines(c.recipe) : c.recipe[s] > 0

-----------------------------------------------------------------------------
(* The ledger *)

\* A movement; kind, of, by and sku make its idempotency key.
Movement(kind, of, by, l, s, d) ==
    [kind |-> kind, of |-> of, by |-> by, location |-> l, sku |-> s, delta |-> d]

SameKey(m, n) ==
    m.kind = n.kind /\ m.of = n.of /\ m.by = n.by /\ m.sku = n.sku

RowsOf(kind, of) == {m \in ledger : m.kind = kind /\ m.of = of}
SumOf(rows) == MapThenSumSet(LAMBDA m : m.delta, rows)
OnHand(l, s) == SumOf({m \in ledger : m.location = l /\ m.sku = s})

\* A key already in the ledger must carry the same content.
NeverRefused(moves) == FALSE
Refused(moves) == \E m \in moves, n \in ledger : SameKey(m, n) /\ m # n

\* What one sale takes: the components of its recipe, or the product itself.
SaleMovesOfPlace(e, l, recipe) ==
    {Movement("sale", e, l, l, s, -recipe[s]) : s \in Lines(recipe)}
SaleMoves(e, l, recipe) ==
    IF Lines(recipe) = {}
      THEN {Movement("sale", e, "SALE", l, Product, -1)}
      ELSE {Movement("sale", e, "RECIPE_CONSUMPTION", l, s, -recipe[s]) : s \in Lines(recipe)}

OutMoves(t) ==
    {Movement("out", t, "dispatch", transfer[t].source, s, -transfer[t].requested[s]) :
        s \in Lines(transfer[t].requested)}

InMoves(t, r, q) ==
    {Movement("in", t, r, transfer[t].destination, s, q[s]) : s \in Lines(q)}

AdjustMoves(n) ==
    LET Variance(s) == count[n].counted[s] - OnHand(count[n].location, s) IN
    {Movement("count", n, "close", count[n].location, s, Variance(s)) :
        s \in {x \in Skus : Variance(x) # 0}}

-----------------------------------------------------------------------------
(* Transactions and their locks *)

Idle == [op |-> "idle", of |-> NoLocation, at |-> NoLocation, stage |-> "none",
         wants |-> <<>>, holds |-> {}, moves |-> {}]

Begin(op, x, l, stage, skus) ==
    [op |-> op, of |-> x, at |-> l, stage |-> stage, wants |-> skus, holds |-> {}, moves |-> {}]

HeldBy(w, l, s) == txn[w].at = l /\ s \in txn[w].holds
StockFree(l, S) == \A w \in Workers, s \in S : ~HeldBy(w, l, s)
RowNotLocked(x) == TRUE
RowFree(x) == \A w \in Workers : txn[w].of # x

\* The SKUs of S as an order sorts them.
InOrder(order, S) ==
    LET Sorted[i \in 0..Len(order)] ==
          IF i = 0 THEN <<>>
          ELSE IF order[i] \in S THEN Append(Sorted[i - 1], order[i]) ELSE Sorted[i - 1]
    IN Sorted[Len(order)]

WaitsFor(w, v) ==
    txn[w].wants # <<>> /\ HeldBy(v, txn[w].at, Head(txn[w].wants))

End(w) == txn' = [txn EXCEPT ![w] = Idle]

NoTransfer == [state |-> "NONE", source |-> NoLocation, destination |-> NoLocation,
               requested |-> Nothing, received |-> Nothing]
NoCount == [state |-> "NONE", location |-> NoLocation, counted |-> Nothing]

NoCountTold == [counted |-> Nothing, adjusted |-> {}]

Configurations ==
    {c \in [mapping : Mappings, recipe : Recipes] : ParsedConfiguration(c)}

Init ==
    /\ config \in Configurations
    /\ inbox = [e \in Sales |-> "none"]
    /\ ledger = {Movement("manual", "opening", p[1], p[1], p[2], Opening[p[1]][p[2]]) :
                    p \in {q \in Locations \X Skus : Opening[q[1]][q[2]] > 0}}
    /\ transfer = [t \in Transfers |-> NoTransfer]
    /\ told = [x \in Transfers \cup Counts |-> IF x \in Transfers THEN NoTransfer ELSE NoCountTold]
    /\ receipts = {}
    /\ count = [n \in Counts |-> NoCount]
    /\ txn = [w \in Workers |-> Idle]
    /\ closings = 0 /\ faults = 0

-----------------------------------------------------------------------------
(* queueCloud: a change and the row that tells the Cloud commit together.   *)
(* A movement is one row of its own, so only the others are kept here.     *)

QueueTransferBefore(t, rows) == [told EXCEPT ![t] = transfer[t]]
QueueTransfer(t, rows) == [told EXCEPT ![t] = rows[t]]
QueueCount(n, rows) ==
    [told EXCEPT ![n] = [counted |-> count[n].counted,
                         adjusted |-> {m \in rows : m.kind = "count" /\ m.of = n}]]

-----------------------------------------------------------------------------
(* Configuration and sales *)

\* InventoryConfigurationService.install: a new mapping and new recipes.
InstallConfiguration ==
    /\ config' \in Configurations
    /\ UNCHANGED <<inbox, ledger, transfer, told, receipts, count, txn, closings, faults>>

\* The transaction that stores a closed sale queues it here, by a trigger.
StoreSale(e) ==
    /\ inbox[e] = "none"
    /\ inbox' = [inbox EXCEPT ![e] = "pending"]
    /\ UNCHANGED <<config, ledger, transfer, told, receipts, count, txn, closings, faults>>

ReadMappingAndMark(w, e) ==
    /\ txn[w] = Idle
    /\ inbox[e] # "none" /\ config.mapping # NoLocation
    /\ inbox' = [inbox EXCEPT ![e] = "APPLIED"]
    /\ txn' = [txn EXCEPT ![w] = Begin("sale", e, config.mapping, "mapped", <<>>)]
    /\ UNCHANGED <<config, ledger, transfer, told, receipts, count, closings, faults>>

\* consumeOne reads where the sale takes its stock; without a mapping the
\* sale is an exception, whatever became of it before.
ReadMapping(w, e) ==
    /\ txn[w] = Idle
    /\ inbox[e] # "none"
    /\ IF config.mapping = NoLocation
         THEN /\ inbox' = [inbox EXCEPT ![e] = "EXCEPTION"]
              /\ UNCHANGED txn
         ELSE /\ txn' = [txn EXCEPT ![w] = Begin("sale", e, config.mapping, "mapped", <<>>)]
              /\ UNCHANGED inbox
    /\ UNCHANGED <<config, ledger, transfer, told, receipts, count, closings, faults>>

\* The loop takes what is still pending; a register's batch brings any sale
\* that was stored, as often as its acknowledgement is lost.
ReconcileReported(e) == inbox[e] = "EXCEPTION" /\ ReadMapping(Loop, e)
ReconcileSale(e) == inbox[e] = "pending" /\ ReadMapping(Loop, e)
DeliverSale(w, e) == w # Loop /\ ReadMapping(w, e)

\* ... then the recipe, which fixes the movements and the stocks to lock.
ReadRecipe(w) ==
    /\ txn[w].stage = "mapped"
    /\ LET moves == SaleMoves(txn[w].of, txn[w].at, config.recipe) IN
       txn' = [txn EXCEPT ![w].stage = "decided", ![w].moves = moves,
                          ![w].wants = InOrder(SkuOrder, {m.sku : m \in moves})]
    /\ UNCHANGED <<tables, closings, faults>>

-----------------------------------------------------------------------------
(* Transfers *)

CreateTransfer(t) ==
    /\ transfer[t].state = "NONE"
    /\ \E r \in Requests :
         /\ r.source # r.destination /\ ParsedTransfer(r.requested)
         /\ transfer' = [transfer EXCEPT ![t] =
                [state |-> "REQUESTED", source |-> r.source, destination |-> r.destination,
                 requested |-> r.requested, received |-> Nothing]]
    /\ told' = QueueTransfer(t, transfer')
    /\ UNCHANGED <<config, inbox, ledger, receipts, count, txn, closings, faults>>

Transitions ==
    {<<"REQUESTED", "ASSIGNED">>, <<"ASSIGNED", "PICKING">>, <<"REQUESTED", "CANCELLED">>,
     <<"ASSIGNED", "CANCELLED">>, <<"PICKING", "CANCELLED">>}

\* assign, startPicking and cancel: a transition under the row's lock.
SimpleTransition(t) ==
    /\ RowFree(t)
    /\ \E to \in {"ASSIGNED", "PICKING", "CANCELLED"} :
         /\ <<transfer[t].state, to>> \in Transitions
         /\ transfer' = [transfer EXCEPT ![t].state = to]
    /\ told' = QueueTransfer(t, transfer')
    /\ UNCHANGED <<config, inbox, ledger, receipts, count, txn, closings, faults>>

BeginDispatchUnlocked(w, t) ==
    /\ w # Loop /\ txn[w] = Idle
    /\ RowFree(t)
    /\ transfer[t].state = "PICKING"
    /\ \E r \in Requests :
         ParsedDispatch(r.requested) /\ r.requested = transfer[t].requested
    /\ txn' = [txn EXCEPT ![w] = Begin("dispatch", t, transfer[t].source, "locking", <<>>)]
    /\ UNCHANGED <<tables, closings, faults>>

\* A dispatch says again how much leaves: all that was asked for, no less.
BeginDispatch(w, t) ==
    /\ w # Loop /\ txn[w] = Idle
    /\ RowFree(t)
    /\ transfer[t].state = "PICKING"
    /\ \E r \in Requests :
         ParsedDispatch(r.requested) /\ r.requested = transfer[t].requested
    /\ txn' = [txn EXCEPT ![w] = Begin("dispatch", t, transfer[t].source, "locking",
                                     InOrder(SkuOrder, Lines(transfer[t].requested)))]
    /\ UNCHANGED <<tables, closings, faults>>

\* With every stock locked: the source must have what the transfer asks for.
DecideDispatch(w) ==
    /\ txn[w].op = "dispatch" /\ txn[w].stage = "locking" /\ txn[w].wants = <<>>
    /\ LET t == txn[w].of IN
       IF \A s \in Lines(transfer[t].requested) :
             OnHand(txn[w].at, s) >= transfer[t].requested[s]
         THEN txn' = [txn EXCEPT ![w].stage = "decided", ![w].moves = OutMoves(t)]
         ELSE End(w)
    /\ UNCHANGED <<tables, closings, faults>>

\* A receipt of part or all of what is outstanding, under a key of its own.
Receive(t, r) ==
    /\ RowFree(t)
    /\ transfer[t].state = "IN_TRANSIT"
    /\ r \notin receipts
    /\ \E q \in [Skus -> -1..1] :
         LET got == [s \in Skus |-> transfer[t].received[s] + q[s]] IN
         /\ ParsedReceipt(q)
         /\ \A s \in Skus : got[s] <= transfer[t].requested[s]
         /\ StockFree(transfer[t].destination, Lines(q))
         /\ ledger' = ledger \cup InMoves(t, r, q)
         /\ transfer' = [transfer EXCEPT ![t].received = got,
                ![t].state = IF got = transfer[t].requested THEN "RECEIVED" ELSE "IN_TRANSIT"]
    /\ told' = QueueTransfer(t, transfer')
    /\ receipts' = receipts \cup {r}
    /\ UNCHANGED <<config, inbox, count, txn, closings, faults>>

-----------------------------------------------------------------------------
(* Counts and manual movements *)

OpenCount(n) ==
    /\ count[n].state = "NONE"
    /\ \E f \in Findings :
         /\ ParsedCount(f.counted)
         /\ count' = [count EXCEPT ![n] =
                [state |-> "OPEN", location |-> f.location, counted |-> f.counted]]
    /\ UNCHANGED <<config, inbox, ledger, transfer, told, receipts, txn, closings, faults>>

BeginCloseUnlocked(w, n) ==
    /\ w # Loop /\ txn[w] = Idle
    /\ RowFree(n)
    /\ count[n].state = "OPEN"
    /\ closings < MaxClosings
    /\ txn' = [txn EXCEPT ![w] = Begin("close", n, count[n].location, "locking", <<>>)]
    /\ closings' = closings + 1
    /\ UNCHANGED <<tables, faults>>

BeginClose(w, n) ==
    /\ w # Loop /\ txn[w] = Idle
    /\ RowFree(n)
    /\ count[n].state = "OPEN"
    /\ closings < MaxClosings
    /\ txn' = [txn EXCEPT ![w] = Begin("close", n, count[n].location, "locking", DbOrder)]
    /\ closings' = closings + 1
    /\ UNCHANGED <<tables, faults>>

DecideClose(w) ==
    /\ txn[w].op = "close" /\ txn[w].stage = "locking" /\ txn[w].wants = <<>>
    /\ txn' = [txn EXCEPT ![w].stage = "decided", ![w].moves = AdjustMoves(txn[w].of)]
    /\ UNCHANGED <<tables, closings, faults>>

\* postManual: stock received from outside, or lost; no balance is checked.
PostManual(m) ==
    /\ \A n \in ledger : n.of # m
    /\ \E p \in Postings :
         /\ ParsedMovement(p.delta)
         /\ StockFree(p.location, {p.sku})
         /\ ledger' = ledger \cup
                {Movement("manual", m, NoLocation, p.location, p.sku, p.delta)}
    /\ UNCHANGED <<config, inbox, transfer, told, receipts, count, txn, closings, faults>>

\* postManual, REVERSAL: exactly undoes any movement that is not one, once.
PostReversal(m) ==
    /\ m \in ledger /\ m.kind # "reversal" /\ m.kind \in Reversible
    /\ RowsOf("reversal", m) = {}
    /\ Cardinality({n \in ledger : n.kind = "reversal"}) < MaxReversals
    /\ StockFree(m.location, {m.sku})
    /\ ledger' = ledger \cup {Movement("reversal", m, NoLocation, m.location, m.sku, -m.delta)}
    /\ UNCHANGED <<config, inbox, transfer, told, receipts, count, txn, closings, faults>>

-----------------------------------------------------------------------------
(* The steps every long transaction takes *)

TakeLock(w) ==
    /\ txn[w].wants # <<>>
    /\ StockFree(txn[w].at, {Head(txn[w].wants)})
    /\ txn' = [txn EXCEPT ![w].wants = Tail(@), ![w].holds = @ \cup {Head(txn[w].wants)}]
    /\ UNCHANGED <<tables, closings, faults>>

\* PostgreSQL aborts one of two transactions that wait for each other.
BreakDeadlock(w) ==
    /\ \E v \in Workers : WaitsFor(w, v) /\ WaitsFor(v, w)
    /\ End(w)
    /\ UNCHANGED <<tables, closings, faults>>

\* An error, a crash or a lost connection: the transaction leaves no trace.
Fail(w) ==
    /\ txn[w] # Idle /\ faults < MaxFaults
    /\ faults' = faults + 1
    /\ End(w)
    /\ UNCHANGED <<tables, closings>>

\* A key in use with other content aborts the transaction: a 409 answer.
Commit(w) ==
    LET x == txn[w].of
        refused == Refused(txn[w].moves)
    IN
    /\ txn[w].stage = "decided" /\ txn[w].wants = <<>>
    /\ ledger' = IF refused THEN ledger ELSE ledger \cup txn[w].moves
    /\ inbox' = IF ~refused /\ txn[w].op = "sale"
                  THEN [inbox EXCEPT ![x] = "APPLIED"] ELSE inbox
    /\ transfer' = IF ~refused /\ txn[w].op = "dispatch"
                     THEN [transfer EXCEPT ![x].state = "IN_TRANSIT"] ELSE transfer
    /\ count' = IF ~refused /\ txn[w].op = "close"
                  THEN [count EXCEPT ![x].state = "CLOSED"] ELSE count
    /\ told' = IF refused THEN told
               ELSE CASE txn[w].op = "dispatch" -> QueueTransfer(x, transfer')
                      [] txn[w].op = "close"    -> QueueCount(x, ledger')
                      [] OTHER                  -> told
    /\ End(w)
    /\ UNCHANGED <<config, receipts, closings, faults>>

Proceed(w) == ReadRecipe(w) \/ DecideDispatch(w) \/ DecideClose(w) \/ Commit(w) \/ BreakDeadlock(w)

Next ==
    \/ InstallConfiguration
    \/ \E e \in Sales : StoreSale(e) \/ ReconcileSale(e)
    \/ \E w \in Workers, e \in Sales : DeliverSale(w, e)
    \/ \E t \in Transfers : CreateTransfer(t) \/ SimpleTransition(t)
    \/ \E t \in Transfers, r \in Receipts : Receive(t, r)
    \/ \E w \in Workers, t \in Transfers : BeginDispatch(w, t)
    \/ \E n \in Counts : OpenCount(n)
    \/ \E w \in Workers, n \in Counts : BeginClose(w, n)
    \/ \E m \in Manuals : PostManual(m)
    \/ \E m \in ledger : PostReversal(m)
    \/ \E w \in Workers : Proceed(w) \/ TakeLock(w) \/ Fail(w)

Spec == Init /\ [][Next]_vars

\* Statements finish and PostgreSQL queues lock waiters, so no transaction
\* waits for ever for a lock that keeps coming free; the loop comes round
\* every 30 s and puts a sale that failed behind the others.
FairSpec ==
    /\ Spec
    /\ \A w \in Workers : WF_vars(Proceed(w)) /\ SF_vars(TakeLock(w))
    /\ \A e \in Sales : SF_vars(ReconcileSale(e))

-----------------------------------------------------------------------------
(* Properties *)

TypeOK ==
    /\ config \in Configurations
    /\ inbox \in [Sales -> {"none", "pending", "APPLIED", "EXCEPTION"}]
    /\ \A m \in ledger : m.location \in Locations /\ m.sku \in Skus /\ m.delta \in Int \ {0}
    /\ \A m, n \in ledger : SameKey(m, n) => m = n
    /\ receipts \subseteq Receipts
    /\ \A t \in Transfers : transfer[t].state \in
            {"NONE", "REQUESTED", "ASSIGNED", "PICKING", "IN_TRANSIT", "RECEIVED", "CANCELLED"}
    /\ \A n \in Counts : count[n].state \in {"NONE", "OPEN", "CLOSED"}
    /\ \A w \in Workers : txn[w].op \in {"idle", "sale", "dispatch", "close"}

\* However often a sale is delivered, and wherever sales are mapped by then,
\* it takes its stock once and whole: the movements of one configuration from
\* one location, or none.  A sale that was applied has them, one still pending
\* has none.  (It takes a recipe that stays the same: new components would be
\* booked beside the old ones.)
SaleDepletesOnce ==
    \A e \in Sales :
        LET rows == RowsOf("sale", e) IN
        /\ rows = {} \/ \E l \in Locations, r \in Recipes : rows = SaleMoves(e, l, r)
        /\ inbox[e] = "APPLIED" => rows # {}
        /\ inbox[e] \in {"none", "pending"} => rows = {}

\* The ledger and a transfer's state tell the same story: nothing has left
\* the source before dispatch or after a cancellation, exactly what was
\* asked has left it since, the destination got what the receipts say and
\* never more, and the transfer is closed when, and only when, that is all.
CustodyIsKept ==
    \A t \in Transfers :
        LET Out(s) == SumOf({m \in RowsOf("out", t) : m.sku = s})
            In(s) == SumOf({m \in RowsOf("in", t) : m.sku = s})
            x == transfer[t]
        IN
        IF x.state \in {"IN_TRANSIT", "RECEIVED"}
          THEN /\ \A s \in Skus : /\ Out(s) = -x.requested[s]
                                    /\ In(s) = x.received[s]
                                    /\ x.received[s] <= x.requested[s]
               /\ x.state = "RECEIVED" <=> x.received = x.requested
          ELSE RowsOf("out", t) \cup RowsOf("in", t) = {}

\* The newest rows for the Cloud say what the venue's tables say: the state and
\* the quantities of each transfer, and the adjustments of each closed count.
CloudIsTold ==
    /\ \A t \in Transfers : told[t] = transfer[t]
    /\ \A n \in Counts :
          count[n].state = "CLOSED" =>
             told[n] = [counted |-> count[n].counted, adjusted |-> RowsOf("count", n)]

\* What happened in the venue is booked once and whole, in the ledger, in the
\* documents and in what the Cloud is told.
BookedOnceAndWhole == SaleDepletesOnce /\ CustodyIsKept /\ CloudIsTold

\* A dispatch never takes a stock below zero, whatever is sold, counted or
\* moved while it is decided.
DispatchIsCovered ==
    \A t \in Transfers :
        transfer[t].state = "PICKING" /\ transfer'[t].state = "IN_TRANSIT" =>
            \A s \in Lines(transfer[t].requested) : OnHand(transfer[t].source, s)' >= 0

\* Closing a count leaves on hand exactly what was counted: no movement slips
\* between the balance it reads and the adjustment it posts.
CountSettles ==
    \A n \in Counts :
        count[n].state = "OPEN" /\ count'[n].state = "CLOSED" =>
            \A s \in Skus : OnHand(count[n].location, s)' = count[n].counted[s]

\* Every step decides about a stock on a balance nobody else changes.
DecidedOnTrueBalances == [][DispatchIsCovered /\ CountSettles]_vars

\* A sale the Edge has stored is eventually applied or reported, though
\* requests fail, wait for each other and hold the stock it needs.
SalesAreConsumed ==
    \A e \in Sales : inbox[e] = "pending" ~> inbox[e] \in {"APPLIED", "EXCEPTION"}
=============================================================================
