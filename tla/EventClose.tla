------------------------------ MODULE EventClose ------------------------------
(***************************************************************************)
(* The operational close of one event in the Cloud: corrections of its     *)
(* closed orders, declarations of counted cash and of unit costs, the      *)
(* close that stores a report, the reopening, the live report, and the     *)
(* script that collects evidence of a close and verifies it.               *)
(*                                                                         *)
(* A request of the back office is a PostgreSQL transaction in txn.  It    *)
(* has a start time, which now() gives to every row it writes; a close     *)
(* and a reopening also have a snapshot, taken by the statement that       *)
(* waits for the event's advisory lock, and read nothing else.  What a     *)
(* request does under that lock is one step.  The Cloud's other writers    *)
(* (ingestion, payments, stock projection) never take that lock.           *)
(*                                                                         *)
(* No registered provider refunds or reverses, so those tables are empty.  *)
(* One currency; a report is a record of the figures its sections add up.  *)
(***************************************************************************)
EXTENDS Integers, Sequences, FiniteSets, FiniteSetsExt, Functions

CONSTANTS
    Clients,      \* requests of the back office that may be under way
    Writers,      \* transactions of the Cloud's own that may be under way
    Orders, CashOrders, ProviderOrders,
    ClosedBefore, \* the orders closed, and paid, before we look
    Results,      \* what a payment attempt may come to meanwhile
    Total,        \* order -> its total
    Place,        \* order -> its sales location, register and cashier
    Papers,       \* transfers, critical alerts and counts of the stock
    Transfers, Alerts, Counts,
    Adjustments,  \* what recordOrderAdjustment may be asked
    Declarations, \* what declareCash and declareInventoryCost may be asked
    Actions,      \* what close and reopen may be asked
    MaxTime       \* transactions that may start and take a time

ActionKinds == {"OPERATIONALLY_CLOSE", "REOPEN"}

ASSUME EventCloseAssumptions ==
    /\ IsFiniteSet(Orders) /\ ClosedBefore \subseteq Orders
    /\ CashOrders \cup ProviderOrders = Orders /\ CashOrders \cap ProviderOrders = {}
    /\ Transfers \cup Alerts \cup Counts = Papers
    /\ Total \in [Orders -> Nat] /\ MaxTime \in Nat
    /\ Results \subseteq {"UNKNOWN", "SUCCEEDED", "FAILED"}
    /\ \A r \in Adjustments : r.order \in Orders /\ r.amount \in Int
    /\ \A r \in Declarations : r.amount \in Int
    /\ \A r \in Actions : r.action \in ActionKinds

VARIABLES
    db,           \* the committed rows
    txn,          \* client or writer -> its transaction
    clock,        \* the database's clock at the last start
    evidence      \* what one run of the evidence script has fetched

vars == <<db, txn, clock, evidence>>

Row(value, stamp) == [value |-> value, stamp |-> stamp]
Last(s) == s[Len(s)]

SaleReductions == {"DISCOUNT", "COMP", "VOID"}
Reductions == SaleReductions \cup {"CASH_REFUND"}
Undecided == {"CREATED", "INITIATED", "PENDING", "UNKNOWN"}

-----------------------------------------------------------------------------
(* The report: pure functions of the rows they are given *)

Closed(d) == {o \in Orders : d.orders[o].value = "CLOSED"}

Reducing(d, o, kinds) == {r \in d.adjustments : r.value.order = o /\ r.value.kind \in kinds}
Reduced(d, o, kinds) == SumFunction([r \in Reducing(d, o, kinds) |-> r.value.amount])
Net(d) == [o \in Orders |-> Total[o] - Reduced(d, o, Reductions)]

GrossSales(d) == SumFunctionOnSet(Total, Closed(d))
NetSales(d) == GrossSales(d) - SumFunction([o \in Orders |-> Reduced(d, o, Reductions)])

\* One settled attempt per payment, at the payment's amount.
Settled(d) == {o \in ProviderOrders : d.attempts[o].value = "SUCCEEDED"}
ElectronicTender(d) == SumFunctionOnSet(Total, Settled(d))
UnresolvedPayments(d) == {o \in ProviderOrders : d.attempts[o].value \in Undecided}
ProviderReconciliation(d) ==
    IF UnresolvedPayments(d) = {} THEN "RECONCILED" ELSE "UNRESOLVED"

\* Expected and declared cash of each location, register and cashier.
CashExpectedAt(d, s) ==
    SumFunctionOnSet(Net(d), {o \in Closed(d) \cap CashOrders : Place[o] = s})
CashDeclared(d) == {r \in d.declarations : r.value.kind = "CASH"}
CashDeclaredAt(d, s) == {r \in CashDeclared(d) : r.value.scope = s}
CashScopes(d) ==
    {Place[o] : o \in Closed(d) \cap CashOrders} \cup {r.value.scope : r \in CashDeclared(d)}
LatestDeclared(rows) == CHOOSE r \in rows : \A x \in rows : x.stamp <= r.stamp

CashSummary(d) ==
    LET declared == {s \in CashScopes(d) : CashDeclaredAt(d, s) # {}}
        counted(s) == LatestDeclared(CashDeclaredAt(d, s)).value.amount
        expected == SumFunction([s \in CashScopes(d) |-> CashExpectedAt(d, s)])
    IN [expected |-> expected, declared |-> SumFunction([s \in declared |-> counted(s)]),
        status |-> IF declared = {} THEN "MISSING"
                   ELSE IF declared = CashScopes(d) THEN "COMPLETE" ELSE "PARTIAL",
        exact |-> \A s \in CashScopes(d) : s \in declared /\ counted(s) = CashExpectedAt(d, s)]

\* What was counted, and whether a unit cost values what was found missing.
InventoryVariances(d) ==
    {[count |-> c, valued |-> \E r \in d.declarations : r.value.kind = "COST"] :
        c \in {x \in Counts : d.papers[x].value = "DONE"}}
OpenTransfers(d) == {t \in Transfers : d.papers[t].value = "OPEN"}
CriticalAlerts(d) == {a \in Alerts : d.papers[a].value = "OPEN"}

\* The same sales by sales location, register and cashier.
Drilldowns(d) ==
    {[place |-> p,
      count |-> Cardinality({o \in Closed(d) : Place[o] = p}),
      net |-> SumFunctionOnSet(Net(d), {o \in Closed(d) : Place[o] = p})] :
        p \in {Place[o] : o \in Closed(d)}}

PaymentMethods(d) == [electronic |-> ElectronicTender(d), cash |-> CashSummary(d).expected]

FinancialReconciliation(d) ==
    LET cash == CashSummary(d)
        complete == cash.expected = 0 \/ cash.status = "COMPLETE"
    IN [net |-> NetSales(d),
        variance |-> ElectronicTender(d) + cash.declared - NetSales(d),
        conclusive |-> complete /\ UnresolvedPayments(d) = {}]

\* A second pass over the report: it counts the cash orders, and no figure is
\* conclusive beside a provider that is not reconciled.
Enrich(d, f) ==
    [f EXCEPT !.cashOrders = Cardinality(Closed(d) \cap CashOrders),
              !.financial.conclusive = @ /\ ProviderReconciliation(d) = "RECONCILED"]

Figures(d) == Enrich(d,
    [net |-> NetSales(d), methods |-> PaymentMethods(d), cash |-> CashSummary(d),
     unresolved |-> UnresolvedPayments(d), variances |-> InventoryVariances(d),
     transfers |-> OpenTransfers(d), alerts |-> CriticalAlerts(d),
     drilldowns |-> Drilldowns(d), financial |-> FinancialReconciliation(d),
     cashOrders |-> 0])

\* Newest time and number of the rows of each source, hashed.
Newest(rows) == Max({0} \cup {r.stamp : r \in rows})
Mark(rows, number) == <<Newest(rows), number>>
RowsOf(table, keys) == {table[k] : k \in keys}
SourceVersion(d) ==
    <<Mark(RowsOf(d.orders, Orders), Cardinality(Orders)),
         Mark(d.adjustments, Cardinality(d.adjustments)),
         Mark(RowsOf(d.attempts, ProviderOrders), Cardinality(ProviderOrders)),
         Mark(d.declarations, Cardinality(d.declarations)),
         Mark(RowsOf(d.papers, Transfers), Cardinality(Transfers)),
         Mark(RowsOf(d.papers, Alerts), Cardinality(Alerts)),
         Mark(RowsOf(d.papers, Counts), Cardinality(Counts))>>

\* The close section of a live report.
Closes(d) == {i \in DOMAIN d.actions : d.actions[i].action = "OPERATIONALLY_CLOSE"}
NoClose == [state |-> "OPEN", revision |-> 0, version |-> <<>>]
StateFromAction(d) ==
    IF d.actions = <<>> THEN "OPEN"
    ELSE IF Last(d.actions).action = "REOPEN" THEN "REOPENED" ELSE "OPERATIONALLY_CLOSED"
CloseSection(d) ==
    IF Closes(d) = {} THEN [NoClose EXCEPT !.state = StateFromAction(d)]
    ELSE LET last == d.actions[Max(Closes(d))]
             report == CHOOSE r \in d.reports : r.action = last.id
         IN [state |-> StateFromAction(d), revision |-> last.revision,
             version |-> report.version]

-----------------------------------------------------------------------------
(* Transactions *)

NoTxn == [op |-> "none"]
Processes == Clients \cup Writers

Init ==
    /\ db = [orders |-> [o \in Orders |-> Row(IF o \in ClosedBefore THEN "CLOSED" ELSE "OPEN", 0)],
             attempts |-> [o \in ProviderOrders |->
                             Row(IF o \in ClosedBefore THEN "SUCCEEDED" ELSE "UNKNOWN", 0)],
             papers |-> [p \in Papers |-> Row("OPEN", 0)],
             adjustments |-> {}, declarations |-> {},
             actions |-> <<>>, reports |-> {}]
    /\ txn = [p \in Processes |-> NoTxn]
    /\ clock = 0
    /\ evidence = <<>>

End(p) == txn' = [txn EXCEPT ![p] = NoTxn]

\* now() is the time the transaction began.
NowLate == clock + 2
Now == clock + 1
Start(p, op, request) ==
    /\ txn[p] = NoTxn
    /\ clock < MaxTime
    /\ clock' = clock + 1
    /\ txn' = [txn EXCEPT ![p] = [op |-> op, request |-> request, stamp |-> Now]]
    /\ UNCHANGED <<db, evidence>>

WindowOpen(d) == StateFromAction(d) # "OPERATIONALLY_CLOSED"

\* A correction reads what is committed when it holds the event's lock; the
\* trigger on the table repeats the check of the window.
AlwaysOpen == TRUE
CorrectionWindowOpen == WindowOpen(db)

ParsedAdjustment(r) == r.kind \in Reductions /\ r.amount > 0
BeginAdjustment(c) ==
    \E r \in Adjustments :
        ParsedAdjustment(r) /\ Start(c, "adjust", r)

AdjustmentFitsAlone(r) ==
    r.amount <= Total[r.order] /\ (r.kind = "CASH_REFUND" => r.order \in CashOrders)
AdjustmentFits(r) ==
    IF r.kind = "CASH_REFUND"
      THEN /\ r.order \in CashOrders
           /\ Reduced(db, r.order, {"CASH_REFUND"}) + r.amount
                <= Total[r.order] - Reduced(db, r.order, SaleReductions)
      ELSE Reduced(db, r.order, SaleReductions) + r.amount <= Total[r.order]

\* A used key, or a used id, answers with its row or with a conflict; either
\* way nothing changes, and neither does a request that is refused.
Used(r, rows) == \E x \in rows : x.value.key = r.key \/ x.value.id = r.id
AdjustmentUsed(r) == Used(r, db.adjustments)
DeclarationUsed(r) == Used(r, {x \in db.declarations : x.value.kind = r.kind})

RecordOrderAdjustment(c) ==
    /\ txn[c].op = "adjust"
    /\ LET r == txn[c].request
           accepted == /\ ~AdjustmentUsed(r)
                       /\ CorrectionWindowOpen
                       /\ r.order \in Closed(db)
                       /\ AdjustmentFits(r)
       IN db' = IF accepted
                  THEN [db EXCEPT !.adjustments = @ \cup {Row(r, txn[c].stamp)}]
                  ELSE db
    /\ End(c)
    /\ UNCHANGED <<clock, evidence>>

ParsedDeclaration(r) == r.kind \in {"CASH", "COST"} /\ r.amount >= 0
BeginDeclaration(c) ==
    \E r \in Declarations :
        ParsedDeclaration(r) /\ Start(c, "declare", r)

\* declareCash and declareInventoryCost: append only, the newest counts.
Declare(c) ==
    /\ txn[c].op = "declare"
    /\ LET r == txn[c].request
           accepted == ~DeclarationUsed(r) /\ CorrectionWindowOpen
       IN db' = IF accepted
                  THEN [db EXCEPT !.declarations = @ \cup {Row(r, txn[c].stamp)}]
                  ELSE db
    /\ End(c)
    /\ UNCHANGED <<clock, evidence>>

\* Rows inserted where a unique index already has them abort the transaction.
RevisionUnchecked(d, revision) == TRUE
RevisionFree(d, revision) == ~ \E r \in d.reports : r.revision = revision
ActionFree(d, id) == ~ \E i \in DOMAIN d.actions : d.actions[i].id = id

\* A reopening reads nothing but the actions.
Snapshot(r) == IF r.action = "REOPEN" THEN [actions |-> db.actions] ELSE db

\* Close and reopen wait for the lock with the statement that takes their
\* snapshot; the rows they write carry the API's own clock, read under it.
\* An id that the snapshot has is answered from the table and changes nothing.
BeginAction(c) ==
    /\ txn[c] = NoTxn
    /\ \E r \in Actions :
         /\ ActionFree(db, r.id)
         /\ txn' = [txn EXCEPT ![c] = [op |-> r.action, request |-> r, snap |-> Snapshot(r)]]
    /\ UNCHANGED <<db, clock, evidence>>

NewReportAsCommitted(d, r, revision) ==
    [action |-> r.id, revision |-> revision, version |-> SourceVersion(d),
     figures |-> [Figures(d) EXCEPT !.drilldowns = Drilldowns(db)],
     corrections |-> d.adjustments \cup d.declarations]
NewReport(d, r, revision) ==
    [action |-> r.id, revision |-> revision, version |-> SourceVersion(d),
     figures |-> Figures(d), corrections |-> d.adjustments \cup d.declarations]

OperationallyClose(c) ==
    /\ txn[c].op = "OPERATIONALLY_CLOSE"
    /\ LET r == txn[c].request
           snap == txn[c].snap
           revision == Max({0} \cup {x.revision : x \in snap.reports}) + 1
           accepted == /\ WindowOpen(snap)
                       /\ RevisionFree(db, revision) /\ ActionFree(db, r.id)
       IN db' = IF accepted
                  THEN [db EXCEPT
                          !.reports = @ \cup {NewReport(snap, r, revision)},
                          !.actions = Append(@, [id |-> r.id, action |-> r.action,
                                                 revision |-> revision])]
                  ELSE db
    /\ End(c)
    /\ UNCHANGED <<clock, evidence>>

Reopen(c) ==
    /\ txn[c].op = "REOPEN"
    /\ LET r == txn[c].request
           snap == txn[c].snap
           accepted == ~WindowOpen(snap) /\ ActionFree(db, r.id)
       IN db' = IF accepted
                  THEN [db EXCEPT !.actions =
                          Append(@, [id |-> r.id, action |-> r.action, revision |-> 0])]
                  ELSE db
    /\ End(c)
    /\ UNCHANGED <<clock, evidence>>

-----------------------------------------------------------------------------
(* The Cloud's other writers: each changes one row and stamps it now().  A *)
(* register closes a provider order once its payment has succeeded.        *)

BeginWrite(w) ==
    \/ \E o \in Orders :
         /\ db.orders[o].value = "OPEN"
         /\ o \in ProviderOrders => db.attempts[o].value = "SUCCEEDED"
         /\ Start(w, "order", o)
    \/ \E o \in ProviderOrders, to \in Results :
         /\ db.attempts[o].value \notin {"SUCCEEDED", "FAILED"}
         /\ Start(w, "attempt", [row |-> o, to |-> to])
    \/ \E p \in Papers :
         /\ db.papers[p].value = "OPEN"
         /\ Start(w, "paper", p)

CommitOrder(w) ==
    /\ txn[w].op = "order"
    /\ LET o == txn[w].request IN
       db' = IF db.orders[o].value = "OPEN"
               THEN [db EXCEPT !.orders[o] = Row("CLOSED", txn[w].stamp)] ELSE db
    /\ End(w)
    /\ UNCHANGED <<clock, evidence>>

CommitAttempt(w) ==
    /\ txn[w].op = "attempt"
    /\ LET o == txn[w].request.row IN
       db' = IF db.attempts[o].value \notin {"SUCCEEDED", "FAILED"}
               THEN [db EXCEPT !.attempts[o] = Row(txn[w].request.to, txn[w].stamp)] ELSE db
    /\ End(w)
    /\ UNCHANGED <<clock, evidence>>

CommitPaper(w) ==
    /\ txn[w].op = "paper"
    /\ db' = [db EXCEPT !.papers[txn[w].request] = Row("DONE", txn[w].stamp)]
    /\ End(w)
    /\ UNCHANGED <<clock, evidence>>

-----------------------------------------------------------------------------
(* The evidence script: three requests at once, then the checks.  The live *)
(* report's statements run outside a transaction: the figures, then the    *)
(* close section and, last, the source version.  It is run once there is a *)
(* stored report: without one it certifies nothing.                        *)

Parts == {"figures", "close", "version", "actions", "reports"}
Fetched(part) ==
    CASE part = "figures" -> Figures(db)
      [] part = "close"   -> CloseSection(db)
      [] part = "version" -> SourceVersion(db)
      [] part = "actions" -> db.actions
      [] part = "reports" -> db.reports

Ready(part) ==
    CASE part = "close"   -> "figures" \in DOMAIN evidence
      [] part = "version" -> "close" \in DOMAIN evidence
      [] OTHER -> TRUE

PaymentChecks(f) == f.unresolved = {}
FinancialChecks(f) ==
    /\ f.financial.conclusive /\ f.financial.variance = 0
    /\ \E d \in f.drilldowns : d.count > 0
CashChecks(f) == f.cash.exact

Highest(reports) == CHOOSE r \in reports : \A x \in reports : x.revision <= r.revision
HistoryIsWhole(reports) ==
    reports # {} /\ {r.revision : r \in reports} = 1..Cardinality(reports)
SourceIgnored(close, version) == TRUE
SourceStable(close, version) == close.version = version
LiveAlignment(close, reports) ==
    /\ close.revision = Highest(reports).revision
    /\ close.version = Highest(reports).version
LatestAction(actions) ==
    actions # <<>> /\ Last(actions).action = "OPERATIONALLY_CLOSE"

\* The checks of verifyEventCloseEvidence that what has been fetched allows.
Passes(e) ==
    LET has(parts) == parts \subseteq DOMAIN e IN
    /\ has({"figures"}) => /\ PaymentChecks(e.figures) /\ FinancialChecks(e.figures)
                           /\ CashChecks(e.figures)
    /\ has({"close"}) => e.close.state = "OPERATIONALLY_CLOSED"
    /\ has({"reports"}) => HistoryIsWhole(e.reports)
    /\ has({"actions"}) => LatestAction(e.actions)
    /\ has({"close", "version"}) => SourceStable(e.close, e.version)
    /\ has({"close", "reports"}) => LiveAlignment(e.close, e.reports)
    /\ has({"actions", "reports"}) =>
          Last(e.actions).revision = Highest(e.reports).revision

\* Evidence that already fails a check is thrown away: it certifies nothing.
CollectEventCloseEvidence(part) ==
    /\ db.reports # {}
    /\ part \notin DOMAIN evidence /\ Ready(part)
    /\ evidence' = [p \in DOMAIN evidence \cup {part} |->
                      IF p = part THEN Fetched(part) ELSE evidence[p]]
    /\ Passes(evidence')
    /\ UNCHANGED <<db, txn, clock>>

\* The bundle is whole and every check of the controlled close passes; the
\* checks of the stock are a gate of their own.
Certified == DOMAIN evidence = Parts /\ Passes(evidence)

Request(c) ==
    \/ BeginAdjustment(c) \/ RecordOrderAdjustment(c)
    \/ BeginDeclaration(c) \/ Declare(c)
    \/ BeginAction(c) \/ OperationallyClose(c) \/ Reopen(c)
Write(w) == BeginWrite(w) \/ CommitOrder(w) \/ CommitAttempt(w) \/ CommitPaper(w)

Next ==
    \/ \E c \in Clients : Request(c)
    \/ \E w \in Writers : Write(w)
    \/ \E part \in Parts : CollectEventCloseEvidence(part)

Spec == Init /\ [][Next]_vars

-----------------------------------------------------------------------------
(* Properties *)

Rows(values) == [value : values, stamp : 0..MaxTime]
Stamped(op, requests) == [op : {op}, request : requests, stamp : 0..MaxTime]
StampedTxns ==
    {NoTxn} \cup Stamped("adjust", Adjustments) \cup Stamped("declare", Declarations)
        \cup Stamped("order", Orders) \cup Stamped("paper", Papers)
        \cup Stamped("attempt", [row : ProviderOrders, to : Results])
IsAction(t) == t.op \in ActionKinds /\ t.request \in Actions /\ t.request.action = t.op

TypeOK ==
    /\ db.orders \in [Orders -> Rows({"OPEN", "CLOSED"})]
    /\ db.attempts \in [ProviderOrders -> Rows({"UNKNOWN", "SUCCEEDED", "FAILED"})]
    /\ db.papers \in [Papers -> Rows({"OPEN", "DONE"})]
    /\ db.adjustments \subseteq Rows(Adjustments) /\ db.declarations \subseteq Rows(Declarations)
    /\ db.actions \in Seq([id : {r.id : r \in Actions}, action : ActionKinds,
                           revision : 0..Len(db.actions)])
    /\ \A p \in Processes : txn[p] \in StampedTxns \/ IsAction(txn[p])
    /\ clock \in 0..MaxTime
    /\ DOMAIN evidence \subseteq Parts

\* However closes and reopenings that took their snapshots early are ordered
\* by the lock, the close actions number the stored reports 1, 2, 3, ... and
\* an event is never closed twice without a reopening in between.
RevisionsAreTheCloses ==
    /\ Cardinality(Closes(db)) = Cardinality(db.reports)
    /\ \A i \in Closes(db) : LET close == db.actions[i] IN
          /\ close.revision = Cardinality({j \in Closes(db) : j <= i})
          /\ \E r \in db.reports : r.revision = close.revision /\ r.action = close.id
    /\ \A i \in 1..(Len(db.actions) - 1) :
          db.actions[i].action = "OPERATIONALLY_CLOSE" => db.actions[i + 1].action = "REOPEN"

\* A correction that waited for the lock of a close is not recorded behind it:
\* while the event is closed its corrections stay what they were.
CorrectionsStopAtClose ==
    [][~WindowOpen(db) => /\ db'.adjustments = db.adjustments
                          /\ db'.declarations = db.declarations]_vars

\* Requests that race or repeat never reduce an order below nothing, and never
\* refund in cash more than it cost.
CorrectionsAreBounded ==
    \A o \in Orders : /\ Reduced(db, o, SaleReductions) <= Total[o]
                      /\ Reduced(db, o, {"CASH_REFUND"}) <= Total[o]

\* A stored report is one state of the books: its drilldowns add up to its net
\* sales, a place that sells for cash only expects the cash of its net sales,
\* and a conclusive report whose cash is exact differs from the tender only by
\* electronic money.
NetAt(f, places) == SumFunction([x \in {d \in f.drilldowns : d.place \in places} |-> x.net])
CashPlaces == {Place[o] : o \in CashOrders} \ {Place[o] : o \in ProviderOrders}
ReportsAddUp ==
    \A r \in db.reports : LET f == r.figures IN
        /\ NetAt(f, {Place[o] : o \in Orders}) = f.net
        /\ (CashPlaces = {Place[o] : o \in CashOrders}) =>
               /\ NetAt(f, CashPlaces) = f.cash.expected
               /\ (f.financial.conclusive /\ f.cash.exact) =>
                     f.financial.variance = f.methods.electronic - (f.net - f.cash.expected)

\* Stored reports, corrections and closes are one consistent set of books.
BooksAreSound == RevisionsAreTheCloses /\ CorrectionsAreBounded /\ ReportsAddUp

\* What the script certifies has every correction: while the close it names
\* stands, no correction is committed that the stored report left out, though
\* the close took its snapshot before it had the lock.
CertifiedCloseIsComplete ==
    (/\ Certified
     /\ CloseSection(db).state = "OPERATIONALLY_CLOSED"
     /\ CloseSection(db).revision = evidence.close.revision) =>
        Highest(evidence.reports).corrections = db.adjustments \cup db.declarations

\* docs/EVENT_CLOSE.md: cash refunds cannot exceed the remaining cash value.
RefundsWithinRemaining ==
    \A o \in Orders :
        Reduced(db, o, {"CASH_REFUND"}) <= Total[o] - Reduced(db, o, SaleReductions)
=============================================================================
