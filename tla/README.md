# Event Commerce OS in TLA+

A temporary bar at a festival sells through Android registers that must keep
working when the venue's network, or the Internet behind it, does not.  This
directory holds TLA+ modules of the parts of Event Commerce OS that have to
agree across those failures, the TLC runs that check them on small instances,
and TLAPS proofs of the main results for every instance.  Paths are relative to
the repository's root.

Contents: 1 the system; 2 modules; 3 the models and the code; 4 runs; 5 fairness;
6 proofs; 7 what the models showed; 8 what is not modelled; 9 plan; 10 usage.

## 1. The system

```
 register (apps/pos-android)    Event Edge (apps/event-edge)     Cloud (apps/cloud-api)
 Kotlin, Room/SQLite            NestJS, PostgreSQL               NestJS, PostgreSQL
 orders, attempts, outbox --->  events, watermarks, outbox --->  events, order projection
 payment calls            --->  cache of attempts          --->  attempts, jobs ---> M-PESA,
 menu                     <---  menus, receipts            <---  publications        terminals
                                stock, alerts, outbox      --->  projections of the stock
                                                                 configuration, event close
 operators' browser (apps/control-web)  <--------------------->  sessions, command centre
```

The tiers are crash-and-restart processes over a durable database.  Both
PostgreSQL databases run READ COMMITTED with explicit row locks and advisory
locks; nothing is kept in memory that a restart must not lose.  Calls go
upwards only, and every one of them has a timeout after which the caller
goes on although the callee may still be working.

### Components, their state and what makes them correct

| Component | State | Operations | What must hold |
|---|---|---|---|
| Register: orders and outbox (`data/LocalOrderStore.kt`, `data/LocalOutbox.kt`) | `pos_orders`, `device_sequence`, `outbox_events` | add, remove, clear, cash | an order and its event are one commit; the outbox has no gap; no edit while a payment is pending |
| Register: synchronization (`sync/DeviceSyncEngine.kt`, `DeviceSyncCoordinator.kt`) | `sync_ack_watermark` | status poll, batch, record answer | nothing counts as delivered that Edge does not hold; everything is delivered in the end |
| Register: menu and repair (`data/LocalMenuStore.kt`, `data/LocalPosRepository.kt`) | active menu and its sales location | install, repair legacy orders | a reassignment reaches the register; the repair rewrites nothing Edge has stored; no menu is taken back |
| Register: payments (`data/LocalPaymentStore.kt`, `payments/`, `PosScreen.kt`) | `payment_attempts` | start, check, receive, mark uncertain | a shown result is true; a customer is charged once |
| Edge: ingestion (`sync/device-sync.service.ts`, `security/device-edge-auth.service.ts`) | processed events, watermarks, exceptions, assignment | authorize, ingest, status | stored once, watermark sound, retries are no conflicts |
| Edge: forwarder (`sync/cloud-forwarder.service.ts`) | `edge_cloud_outbox` | select, send, acknowledge, back off, roster | delivered only when the Cloud has it; everything delivered in the end |
| Edge: payment gateway (`payments/payments.service.ts`) | `edge_payment_attempt_cache` | initiate, reconcile | a cached result is the Cloud's |
| Edge: menus (`pos-menu/`) | mapping, menus, receipts | pull, install, serve | what is acknowledged was installed, newest wins |
| Edge: stock (`inventory/`) | sale inbox, ledger, transfers, counts, mapping and recipes | consume sales, move, count, adjust | one movement per cause; a decision is made on a balance nobody changes; every sale is consumed |
| Edge: alerts (`inventory/inventory-alert.service.ts`) | alerts, responsibilities, notifications | evaluate, escalate, deliver | one unresolved alert per risk; alerts settle on the present risks; the unanswered is escalated |
| Cloud: ingestion (`sync/`) | processed events, order and device state, roster | authorize, ingest, fold, merge | the projection is the latest event; nothing goes back |
| Cloud: payments (`payments/`) | attempts, provider events, jobs | initiate, webhook, check, watchdog, confirm | a result is what the provider did; no unresolved attempt is forgotten |
| Cloud: configuration and publication (`configuration/`, `sync/pos-menu-publication.service.ts`) | master data, publications, receipts | create, change, assign, price, publish, open the event | an event opens on menus that were installed and can be sold |
| Cloud: event close (`event-close/`) | adjustments, declarations, actions and their stored reports | correct, declare, close, reopen, report | a report is one state of the books; revisions are one per close; corrections end at the close |
| Cloud: sessions and protection (`auth/`, `security/`) | identities, memberships, sessions, challenges, counters | log in, authenticate, project, serve, administer | nobody locked out is served; sessions are proved; counters exact |
| Cloud: command centre (`command-centre/`) and its page (`apps/control-web`) | projections, operators' marks; what a page shows | snapshot, stream, poll, act | the projection only moves forward; actions stay with their event; a live page becomes current |
| Simulator (`packages/simulator`) | one simulated event | run | its assertions hold for every seed |
| Shared rules (`packages/domain`) | none | transitions, recipes, stock risk | the same tables at every tier |

### Interactions that are hard

* *A call outlives its caller.*  The register waits 5 s for a batch and 10 s for
  a payment; Edge waits 10 s for the Cloud; a page goes on to another event.  A
  request that was given up may be handled after the retry that replaced it.
* *Commit and answer are two steps.*  Every tier can commit and then fail to say so.
* *Reads and writes in separate transactions or statements.*  The sync round, the
  legacy repair, `markTransportUncertain`, `reconcileAttempt`, an evaluation of the
  stock, an administrator's command, the check that opens an event.
* *A snapshot older than the lock.*  The close of an event reads with the statement
  that waits for the advisory lock.
* *Reordering by back-off.*  A forwarder row that failed returns after a random
  delay, so that later events of a register, or newer rows of an alert, overtake it.
* *Several writers of one attempt at the Cloud*: the request that created it,
  notifications that may precede the reference they are about, two status
  checks, a watchdog and a supervisor.
* *Administration in the middle*: a register is reassigned while it has an order
  open; the mapping of sales moves between two deliveries of a sale; a credential
  is rotated between two statements of a request.
* *Locks taken one by one, in two orders.*  The ledger locks stocks as
  `localeCompare` sorts the SKUs, a count as the database does.

`PROJECT.json` lists the hazards at their lines with the properties that cover
them.  A few more that it has no room for are in section 7.

## 2. Modules

| Module | Models |
|---|---|
| `DurableLog` | what the path from register to Edge promises, without a protocol |
| `DeviceSync` | one register and Edge: outbox, batches, watermarks, reassignment, menu, repair; implements `DurableLog` |
| `CloudSync` | Edge and the Cloud: forwarder, authorization, ingestion, order projection, device state, roster |
| `PaymentStates` | the states of an attempt and the transition table |
| `PaymentTruth` | what the Cloud promises the other tiers about the state of attempts |
| `RegisterPayments` | one order: register, Edge's cache and a Cloud that is only `PaymentTruth` |
| `CloudPayments` | one attempt at the Cloud with its provider and the adapters; implements `PaymentTruth` |
| `Inventory` | the stock ledger of the Edge: sale inbox and consumer, transfers, counts, manual movements, what the Cloud is told |
| `StockWatch` | the alerts of one SKU: evaluation, reactions, escalation, delivery |
| `Catalogue` | configuration, publication, pull, receipts, opening of the event, the registers' menus |
| `EventClose` | corrections, declarations, close, reopening, reports, and the script that certifies a close |
| `Access` | login, sessions, guards, counters, administrators' commands, Edges' credentials |
| `CommandCentre` | alert rows to the Cloud, the projection and operators' marks, and the page |
| `EventSimulation` | the release simulator |
| `EdgeProofs` | proofs about `DeviceSync` and about `StockWatch` |
| `PaymentProofs` | proofs about `RegisterPayments` and about `CloudPayments` |
| `ConsoleProofs` | proofs about `Access` and about `CommandCentre` |
| `BooksProofs` | proofs about `EventClose` and about `EventSimulation` |
| `CloudSyncProofs`, `CatalogueProofs`, `InventoryProofs` | proofs about these modules |
| `InductionLemmas` | induction over numbers and finite sets, and sums, for the proofs |
| `MC...` | values and symmetry for TLC |

`PaymentTruth` is where the two payment modules meet: `RegisterPayments` takes
its actions `Appear` and `Move` for the Cloud and assumes nothing else about it, and
`CloudPayments` is checked to refine it.  What `RegisterPayments` shows
therefore holds above the real Cloud.  Likewise `CloudSync` starts from what
`DeviceSync` proves about Edge's events: a register's events are a prefix of its log
and a stored event never changes.  `Inventory` starts at the same table:
`StoreSale` is the trigger that the transaction of `EdgeIngest` fires, and
`DeliverSale` the call after it, whose failure is `DeviceSync`'s `LoseReply`.
`Catalogue` says which menu an Edge may serve, `DeviceSync` how the assignment in it
reaches the register; `StockWatch` decides about the alerts whose rows `CommandCentre`
carries to the Cloud.

## 3. The models and the code

Each definition names its code in `PROJECT.json` under `map`.  A transaction of
the code is one action; where the code reads in one transaction and writes in
another, there are two actions and the record of a process holds what it read.

**DeviceSync.**  An event is its sequence; its content is the sales location in
its payload, the one field that Edge checks and the one the register ever
rewrites.  `sync` is where `syncOnce` stands and what it has read, `refresh` the
same for `refreshOnce`.  A batch in `requests` may still reach Edge, one in `admitted`
has passed `authorizeSyncBatch` and waits for `ingest`; both outlive the round
that sent them.  `EdgeIngest` is the whole transaction: insert, exceptions, and
`advanceWatermark` described by what its loop computes (`IsDurableEnd`,
`IsAcceptedEnd`).  `RepairCommit` moves all legacy orders at once, or none when they are of
another version than the installed menu: they are taken to be of one menu, where the code could
move some of them.  Edge's error after the commit, which includes a failing sale
consumer, is `LoseReply`.  Events of payment attempts carry no location and are left out.

**CloudSync.**  The forwarder is single (`draining`) and has one request under
way; a request it gave up moves to `late`.  `DueBatch` is the outbox query with
its random due times: rows that never failed come in order, rows that failed
whenever they come.  `Authorized` is what the Cloud asks of a batch before it reads
it: the locations of its events and of the *whole roster* must be known to it;
`CloudRefuses` is its refusal, and `ConfigureLocation` an operator who adds a location.
`Folded` runs `applyOrder` over a batch (`FoldOf` is its result event by event), `MergedStatus` is `withPostDeliveryStatus` and the
upsert of the device state, and the roster is stored by a transaction of its own
before them (`CloudIngestFails` stops between the two).

**RegisterPayments.**  An operation in `op` is one call from the register: on its
way to Edge, waiting for the Cloud, answered, on its way back.  Its `caller` is
the screen action that waits for it, or nobody after a timeout or a kill.  `call`
is a screen action; `marking` is `markTransportUncertain` between its read and its
lock.  `toCloud` holds initiations, which may arrive after Edge has given them up.
`EditOrder` sets any total in one step, which is a sequence of taps.  `ClockAt` is
the wall clock by which `attemptsForOrder` sorts.  Edge's conflict over a
changed provider reference (`payments.service.ts:220`) is left out because
`CloudPayments` shows that no reference changes.

**CloudPayments.**  One attempt, since no transaction touches two.  `request` is
what was asked for, and `Parsed` what it is held to.  `RowAfter` and `JobAfter` are
`applyProviderTruth`, and every writer goes through them except where the code does
not.  `event` is a notification: `open` is a transaction that found no row and has not
committed, `unmatched` one that has, which is the window between `insertEvent` and
`applyUnmatchedCallbacks`.  `StkStatus`, `QueryStatus`, `Verifications`, `MpesaCallback` and
`CardNotification` are what each adapter makes of an answer, or of none.  `charge` is what
happened outside; a card may be charged under any confirmation code and twice.  A
supervisor is trusted: success is confirmed only for a charge that was made.

**Inventory.**  The ledger is a set of movements and `OnHand` their sum, as in the
view `edge_inventory_stock_projection`.  A transaction that takes several locks is
a record in `txn`: a dispatch or a close holds its row (`of`) from `FOR UPDATE` to
its end and takes the advisory stock locks in `wants` one at a time; a sale reads the
mapping and the recipe in statements of their own and then locks what they name.  `Decide...`
is the decision under all the locks, `Commit` the transaction's writes, which other
sessions see only then.  `Fail`, `BreakDeadlock` and a key in use with other content
(`Refused`, a 409) end it without a trace.  `Parsed...` are the checks of a request
before anything is done.  `Receive`, `SimpleTransition`, `PostManual` and `PostReversal`
read no balance and have nothing between their first lock and their commit that another
session could see, so they are one step that needs the locks free.  `told` is what the
newest rows of the outbox to the Cloud say.  A sale is one unit of `Product`;
`NoLocation` stands for every configuration under which `consumeOne` records an
exception.  `SkuOrder` and `DbOrder` are the two sort orders, and `InOrder` sorts by one of them.

**StockWatch.**  One SKU.  An evaluation in `runs` goes through the stages of
`evaluateEvent`: it reads the stock and what transfers bring, then for each risk whether an
unresolved alert has its key, and writes; the loop and one request evaluate at once.
`Taken` is the partial unique index.  `LocalRisk`, `Recommended` and the imbalance over the
event are the rules of `packages/domain`; the minutes to the event's end stand still.
`due` holds the alerts whose time to escalate has come.  As in the ledger, sales may take the stock
below zero.  Single transfers and
cancellations do not evaluate here, SMS and WhatsApp are left out, and the figures of an
alert are not kept, only its existence and state.

**Catalogue.**  Of a row its lifecycle is kept; any other column is a *rename*.  A PATCH
is two steps, as the code reads the row and later writes every column back.
`Publish` takes the event's row, `ChooseMenu` and `PublishLocation` are the statements
for each location, `CommitPublication` ends, and others wait; the opening of an event checks publications and receipts and then updates.  A
pull fetches, validates the whole batch, installs it and acknowledges menu by menu.
`installs` and `opening` are history.

**EventClose.**  A request of the back office is a record in `txn` with its start time,
which `now()` gives to its rows, and a close or reopening has the snapshot it took before
it had the lock.  The Cloud's other writers do not take that lock.  A report is a record
of the figures of its sections.  One currency; corrections read and write under the
lock in one step.  `evidence` is the script `scripts/event-close-evidence.mjs`, which fetches the
stored report and what it compares it with in requests of its own.

**Access.**  A request goes through guard, authentication, projection on an
organisation, handler and answer, one statement at a time; its `at` is where it stands.
Tabs share the browser's cookies (`jar`), tools carry a bearer token, an Edge its versioned
credential.  `command` is an administrator's script between its check and its write.
`inFlight` are the counters of the guard and the interceptor.  `seen` is the row that
`ReadCredential` found.  `barred` and `held` are history: was the caller locked out when the request
arrived, or, for an Edge, at any time until it is accepted, and was it a member?  An Edge's request
ends with its acceptance here: what it stores is in `CloudSync`, and is stored also when the credential is
revoked after that.  A token bucket may refuse a request at any time, which changes nothing.

**CommandCentre.**  `changes` is Edge's outbox of alert rows; `flight`, `later` and `tried` are
the forwarder's.  `Take` deduplicates a row and projects it when its source time is newer.
An operator's mark (`control`) is laid over the projection by `EffectiveState`.  `fetches`
holds the snapshot requests of a page, which end in any order; a snapshot has one
statement per section.  `news` is a notice of the stream, where several coalesce.  Changes
that move no watermark of the stream are `blind`.  Stamps differ, batches are not full,
and queries that enrich a section do not fail.

**EventSimulation.**  `run`, second by second: transfers that arrive, sales, the two
queues in bounded batches, payments' signals, replenishment.  A mutation is lost, doubled
or put out of order where the code draws for it, and a payment's signal comes again where the provider repeats
its callbacks (`NewSignals` absorbs it); the loop over the bars that a plan serves is
the recursive function `Left`, the splices of the queues are `Elements` and `Doubled`.  Where the
generator draws, the model chooses, so that a property holds for every seed.  Eleven of twelve
scenarios, scaled down; the twelfth counts failed notifications only.

## 4. Runs

All runs pass.  A property in the table may be a conjunction of named parts,
which the modules state and comment one by one.

| Run | Size of the instance | States | What it shows |
|---|---|---|---|
| `device_sync` | 3 events, batches of 2, 2 locations, legacy orders, 1 reassignment | 49 000 | watermarks are sound, copies do not fork, `DurableLog` is implemented, the assignment reaches the register, and a register that never gets one delivers everything |
| `cloud_sync` | 1 register, 2 events one by one, 1 late request, 1 change of assignment, locations unknown at first | 93 000 | the projection is the latest event, nothing goes back, everything arrives |
| `register_payments` | 2 attempts, totals 0 and 1, 1 call, 2 operations | 189 000 | true results, one charge of the order's total, results arrive |
| `cloud_payments` | 3 rails, 2 references, 2 checkers, 3 tries | 125 000 | charges are accounted for, `PaymentTruth` is implemented, charges settle |
| `inventory` | 2 SKUs, 2 locations, the loop and 2 requests, 1 sale, 1 transfer, 2 receipts, 1 count | 1 037 000 | causes are booked once and whole, decisions are made on true balances |
| `inventory_live` | 1 location, 1 failure, manual movement and reversal | 98 000 | every stored sale is applied or reported |
| `stock_watch` | 2 locations, 2 evaluations at once, 2 events | 206 000 | one alert per risk, alerts settle and are escalated |
| `catalogue` | 2 operators, 2 pulls, a menu and a register, 1 change, 2 publications, 1 menu by hand | 1 071 000 | what is sold was installed, menus only go forward |
| `event_close` | 2 orders, 2 reductions, a declaration, close, reopen, close | 1 030 000 | books, revisions, certified closes |
| `access` | 1 operator, 2 tabs, a tool, an Edge, 2 organisations, 6 events | 1 292 000 | service only to whom it is due, exact counters, Edges with a current credential |
| `command_centre` | 2 events, 2 alerts, 1 order, 1 register, 3 events | 378 000 | nothing held goes back, actions stay with their event, pages become current |
| `event_simulation` | 2 bars, 3 s and 4 s of recovery, 11 scenarios | 358 000 | effects once, goods conserved, drained runs pass, every seed passes |

### Why the bounds are enough

* *Three events in batches of two* give a full batch, a short one, an old batch
  that overlaps a newer one, and a batch on both sides of the watermark.  What
  holds of `DeviceSync` does so for any length, with or without legacy orders, by proof.
* *One register* in `CloudSync`: rows of two registers share only the batch and the
  roster, and every other check of the Cloud is per register.  `Devices` is a constant for
  larger runs.  *One late request* overtakes or is overtaken by a current one; a second
  one would repeat that against the same, idempotent, tables.
* *Two operations* let a late initiation meet a check, or two checks meet;
  *one call* is the screen's `busy` flag.  `ResultsAreTrue` is proved without either bound.
  *Totals 0 and 1* are an empty order and one that can be paid; emptying an order
  under a pending attempt is the least change that `ClosedForItsTotal` must see.
* *Two provider references* are the least in which a charge can be the wrong
  one; *two checkers* are the timer and one register; *three tries* in place of six
  still separate "retry", "last retry" and "given up".
* *Two SKUs* are the least that two transactions can lock in opposite orders.
  *A transfer of two of the same SKU* is received in two parts, out of an opening stock
  that one sale makes too small.  *The loop and two requests* are a sale delivered twice at
  once and a dispatch or a close beside them; *one sale* suffices because sales share
  only stocks, which the dispatch contends for as well.  *One recipe*: section 7.
* *Two evaluations* are the loop and a request; a third would find what the second
  finds.  *Two events* are a change of the stock and its reversal, or a reaction.
* *Two operators and two pulls* are the least that can overlap; *two publications*
  let the older answer of a pull arrive last.  `Menus`, `Products` and `Skus` hold one row more than
  is configured, so that every kind of row is created, and one is archived.
* *Two reductions* that exceed their order only together, and the sequence close,
  reopen, close, are what the invariants of the close speak about.
* *Six events* in `Access` are a login (three requests) and the three changes around
  it that can matter; *two sessions and challenges* let an old one meet a new one.
* *Two events and one alert each* in `CommandCentre` are the least in which a page or
  an action can be about the wrong one.

`CHECK_DEADLOCK FALSE` stands where the program really ends: a closed order, an
attempt with a result, an outbox that is empty, the last request a bound allows.  Every
`MaxX` is a bound of the model, in a guard, and is not in the code; `BatchSize` and
`RetryLimit` are in it.  `EventTargets` leaves out the lifecycles after `ACTIVE`.

## 5. Fairness

* *Loops run on.*  `DeviceSyncCoordinator.run`, `MenuRefreshCoordinator.run`, the
  forwarders' timers and the operations loop of the stock repeat for as long as the
  process lives: weak fairness of the steps that start a round.
* *Calls end*, if only by their timeout: weak fairness of `GiveUp`, `SendFails`,
  `CallEnds`, `EdgeHandles`, `CheckGoesOn`.
* *The network is tried again and again and carries again and again*: strong
  fairness of the steps of one round in `DeviceSync` and `CloudSync`.  Without it a
  connection that breaks at the same place for ever is a behaviour.
* *Outages end* in the payment modules: losses, kills and restarts need
  `outage` (`cloudOutage`), and its end is fair.  Until then anything may be lost.
* *The cashier keeps checking.*  Nothing at the register repeats a payment call
  by itself; `CheckStatus` at the register, and the register's checks at the Cloud, are fair
  because an order that waits for its payment keeps somebody at the screen.
  This is an assumption about people.  The Cloud's timer alone stops after `RetryLimit`.
* *Statements end, and PostgreSQL queues those who wait for a lock*: in `Inventory`
  weak fairness of `Proceed` and strong fairness of `TakeLock`.  *The loop comes round*
  every 30 s and puts a sale that failed behind the others: strong fairness of
  `ReconcileSale`.  Requests, receipts and failures are not fair.
* `StockWatch` and `CommandCentre` have no fairness for people, for changes or for
  failures, which are bounded; only for evaluations, requests and timers under way.
* No provider is fair.  `Catalogue`, `EventClose`, `Access` and `EventSimulation` have no fairness
  and no liveness: an operator may always stop.

`AcknowledgedUnlessMoved`, `BacklogDrains`, `MovesReachTheRegister` and
`CloudCatchesUp` are conditional, and each condition is a hazard of its own: a
reassignment, a late request, menus that differ, a register at a place the Cloud
does not know.  The run of `DeviceSync` starts with a legacy register that has no location, and its one
change of assignment is the first: there `AcknowledgedUnlessMoved` is about a register that never gets a
location, and says nothing of one that is repaired or moved.

## 6. Proofs

All theorems hold for every value of the constants that satisfies the named
assumptions of the module (`SyncAssumption`, `BoundsAssumption`, `ClockAssumption`,
`CallsAssumption`, `CloudSyncAssumption`, `CloudPaymentsAssumption`, `CatalogueAssumptions`,
`InventoryAssumptions`, `EventCloseAssumptions`, `AccessAssumptions`, `LocationsAssumption`,
`FiguresAssumption`, `CommandCentreAssumption`, `EventSimulationAssumption`); these say which constants are numbers or finite, that the
marks for "nothing" are not members, that the order of the locks names every SKU, which policies the
guards of `Access` know and that its callers are finitely many, that the simulator's bars are
numbered and its capacities positive, and, for `EventClose`, that amounts are whole numbers and an order is paid in cash or by a provider.
Two theorems have a hypothesis of their own, named below.  Each inductive invariant was first
checked by TLC as an invariant of the module's run, on the instance of section 4.

`EdgeProofs`, `PaymentProofs`, `ConsoleProofs` and `BooksProofs` each extend two modules that share no
state; that is why `StockWatch`, `CloudPayments`, `CommandCentre` and `EventSimulation` say `WatchSpec`,
`CloudSpec`, `CentreSpec`, `SimulationSpec` and so on.

**EdgeProofs, DeviceSync.**  `AckedIsStored` is not inductive: a recorded answer could
speak of events nobody stored, and a batch could arrive without its predecessors.
`DeviceSync!IInv` adds what the protocol keeps of messages under way:

* `RequestsAreSound`: whatever a batch lacks before its events, Edge has, however
  late the batch arrives; it is what makes `StoredIsPrefix` inductive;
* `RoundIsCurrent`: only the round itself moves the watermark it read;
* `ReplyIsSound`: an answer under way speaks of stored events, and is not ahead of Edge;
* `StoredIsWritten`, `CopiesAgree`: until a repair commits all copies of an event are equal,
  so that no retry is a conflict and the watermark cannot fall.

`IngestIsInductive` treats Edge's transaction, `StepIsInductive` the other
actions.  From `SpecIsInductive` follow `TypeCorrect`, `WatermarksHold` and
`RegisterAndEdgeAgree`, and from the invariant and a case for each action
`DeviceSyncImplementsLog`: initial states map to initial states, and every step
to a step of `DurableLog` or a stutter.  Registers with and without a legacy
location are covered alike.

**PaymentProofs, RegisterPayments.**  `ResultsAreTrue` relates three databases that are
written by messages of any age.  Its invariant adds `AnswersAreTrue` (a result
in an answer under way is the Cloud's, or already Edge's), `CallsAreSound` (what
`markTransportUncertain` read is not a result the attempt has lost) and
`AnswersFindTheirCall` (an answer belongs to the attempt its caller waits for).
`StepKeepsResults` shows that results stay at every tier and are true after every step;
the other parts follow one lemma each.  The theorems are `PaymentTypeCorrect` and
`ShownResultsAreTrue`, for any number of attempts, overlapping calls and
requests under way; the Cloud enters by `PaymentTruth` alone.

`OrdersArePaidOnce` has two hypotheses, `OneCallAtATime` (the screen's `busy` flag) and
`~ClockMayGoBack`, because without either the property is false (section 7).  `PaidOnceInv` says
that an attempt starts only after all before it have failed (`AttemptsFollowFailures`), that the
screen's calls are for the newest (`CallsAreForTheNewest`), so that only the newest can close or
reopen the order (`OrderFollowsTheNewest`), and that the Cloud has only attempts the register made.
The other half of the argument, that a failed attempt never succeeds, is `ResultsAreTrue`.

**CloudSyncProofs.**  `ProjectionIsSound` compares the rows of the Cloud with the log of Edge.
Its invariant adds `LogIsOrderly` (an order's events are in sequence and its closing is the
last), `AnswersAreForTheBatch` (an answer under way acknowledges events that
the Cloud has recorded) and `BatchesAreDistinct` (a batch has no event twice).  `FoldOf` is recursive
over the batch; that its result is the latest of the events taken is proved by
`InductionLemmas!UpTo`, for batches of any length in any order.  `CloudOnlyMovesForward` follows from
the same lemmas: a late request merges into what is newer.

`BacklogsDrain` is conditional like its property: while no request is late.  The count that the
Cloud stores is of the moment when Edge built the request, and events may be stored or delivered before the
Cloud reads it.  `BacklogIsCovered` says that it is nevertheless no more than what still waits of
the register once the answer under way is handled, and what the request under way will make of it no more
than what waits without its batch.  At rest with nothing queued that leaves zero.  `CloudFollows` joins the two
theorems for the run, which checks both as `CloudFollowsTheVenue`.

**PaymentProofs, CloudPayments.**  `ChargesAreAccountedFor` relates what happened at the provider, which
nobody sees, to the attempt and its job.  The invariant adds `ReferenceIsSound` and
`OneChargeIsAsked` (where a reference can come from; M-PESA is asked once),
`OwnerIsSound` (a rejection that the creating request brings back was not charged),
`EventsAreSound` (a notification speaks of a charge, and names a success only for a card)
and `ChecksAreSound` (what a check was told is about the row's reference and still true).  `AppliedTruthMoves`
is the lemma on `applyProviderTruth` that every writer's proof uses.  `CloudImplementsTruth` is the
refinement, step by step, with `ReferenceIsFinal`; together with `ShownResultsAreTrue` and
`OrdersArePaidOnce`, which assume only `PaymentTruth`, it covers the path from the provider to the till.

**CatalogueProofs.**  The hard part is the publication: its statements run between other requests,
so `DraftWhilePublishing` (the event's row lock keeps it a draft), `CollectedIsSellable`
(what it has collected for a location can be sold, whatever is archived or repriced after) and
`PublicationsAreBounded` (a version above all others exists) carry it to its commit.  `MenusAreInPlace`, `PullsAreSound` and `ReceiptsAreTrue` follow a
menu to the Edge and its receipt back, `ChecksHold` keeps what the opening of the event
relied on: no location goes back behind a menu that has a receipt.

**InventoryProofs.**  The ledger is a set and stock a sum over it.  `LedgerIsSound` gives rows
their types and keys; `DocumentsAreSound` ties the movements of a transfer or a count to its row
and to what the Cloud is told; `LocksAreExclusive` and `TxnIsSound` say what a transaction between two
of its steps may rely on.  The argument for `DecisionsHold` is `CommitWrites`: a commit moves only
stocks whose locks it holds, so no balance that another transaction has decided on changes.
`InOrderHasAll` shows that no SKU is missing from the locks, in either sort order.
`CustodyIsAlwaysKept` needs nothing else.  `BookedOnce` has the hypothesis `OneRecipe`, because a
recipe changed between two deliveries books a sale twice (section 7), and a second
invariant, `SalesAreBooked`: the keys of a sale's movements are those of its recipe.

**BooksProofs, EventClose.**  Every figure of a report is a sum, so the first half is about sums: element
by element, part by part, over rows instead of keys.  From it `FiguresAddUp` shows that the report
of any one state of the tables adds up.  The invariant keeps that state: `SnapshotIsSound` says
that a close works on an earlier state of the books, in which `ReportsAreNumbered` and
`ClosesAreNumbered` held, and that the tables have only grown since (`Precedes`).  The
argument of `CloseIsSound` is that a free revision means that no close has come between: the snapshot
then has all closes, and its open window is still open.  A reopening in between is
harmless.  `CorrectionsFit` needs that a correction takes something away (`ParsedAdjustment`),
for the sum of the others to be no more than the order's total.  `EvidenceIsSound` keeps what the script
has fetched: while the close that it saw stands, its source version counts the corrections
there are.  `CertifiedIsComplete` follows because the stored report counts its own: a subset with the
same number of rows is the whole.  The conflict of a refund with a later discount (section 7) is outside
`BooksAreSound`, which bounds each kind for itself.

**BooksProofs, EventSimulation.**  The books of the simulator are equations between sums over queues
that are cut, filtered, doubled and rotated once a second.  The proof turns them into sums
over sets first.  `RepeatedIsCopies`, by induction over the sequence, says which elements stand in
`Elements` and `Doubled`, so that the range of every queue is a union or a difference; `EffectOfUnion` says
that sets without a common mutation add up (from `SumOfUnion`), `SumOfChange` and `SumOfSums` what a change of one bar or
of all does to the total.  `LeftIs` and `TakenAddsUp` follow the source of a replenishment from bar to bar.
`SimulationInv` adds to `BooksBalance` what makes it inductive.  A sum over the *set* of queued mutations is
the sum over the queue only if a mutation stands once in a register's queue (`LocalQueueIsSound`) and two
entries of Edge's queue with one id are the same mutation (`EdgeQueueIsSound`); a new mutation is
new because numbers are spent (`NumbersAreSpent`) and what the Cloud has applied Edge has applied
(`CloudIsBehind`).  One lemma per phase of a second shows that it is kept.  `DrainedRunsPass` needs the opposite
direction, `NothingIsLost`: every order is queued or applied at the next tier, so that an empty queue
means that it has arrived.

**InductionLemmas.**  The library's induction theorems take an operator as a parameter, which
no installed prover can instantiate.  These lemmas take a set instead, the set of
what a statement holds for: `LeastNatural`, `UpTo` and `SubsetInduction` from the library's
well-foundedness of strict subsets, then `SumExists`, `SumsAgree` and `SumSplits` for sums over finite
sets, which the sums of the models are instances of.

**EdgeProofs, StockWatch.**  `OneActiveAlert` is inductive once `AlertsAreRows` says that the table is
a sequence of rows.  An evaluation decides on what it read long before, so nothing about what it read
helps: `EvaluateKeeps` rests on `Taken`, the unique index, alone, and the reactions' part is that
no resolved alert comes back.

**ConsoleProofs, Access.**  `ServiceIsDeserved` speaks of the moment of the answer, the code of the moments at
which a request read a row, and commands come between any two.  `AccessInv` keeps, request by
request, what became of the rows it read: `PhaseIsSound` says what each phase has found,
`RefusalIsSound` that who was locked out on arrival still is (a session that is over stays over,
a version that was replaced does not return) and has not got past authentication, and `HeldIsSound` that
whoever administers the target now has held the role since the request arrived.
`TablesAreSound` adds that every session's operator exists and that a login's session is bound to a
challenge that is spent, which is why a second tab or a code sent again makes no second session.
`AcceptedEdgesAreCurrent` has the same shape for an Edge's credential: a version that was replaced or revoked
when the request arrived, or became so before the row is read or touched, is not active
again (`TablesAge`: versions only grow, a revocation is final), and an Edge that got past the read
had the version that it found.
A command that looked at an operator before a revocation may write after it; `TablesAge` names
the few facts that any such write keeps, and that waiting requests rely on.  The
counters need a lemma for each way into and out of a guard (`CountOnMove` and its neighbours).

**ConsoleProofs, CommandCentre.**  `HeldNeverGoesBack` needs that the venue's rows of an alert move forward
(`RowsMoveForward`), because then a row with a newer source time cannot name an earlier state, and
that the projection is on one of these rows (`ShownIsARow`); an operator's mark only
raises what it is laid over.  `ActedOnOwnEvent` needs that a mark names an event, and is proved with the
same invariant, for a page that may show one event while it is live on another.

Only model-checked: all liveness (`RegisterConverges`, `CloudCatchesUp`,
`ResultsReachTheRegister`, `ChargesAreSettled`, `SalesAreConsumed`, `AlertsDoTheirWork` and
`CentreCatchesUp`), which TLAPS cannot prove under fairness, and `EverySeedPasses` of
`EventSimulation`.  This one is about the figures: that the batches of the recovery seconds are large enough for
what the scenario has queued is true of the capacities of the instance and false of smaller ones, so it is no
theorem for every value of the constants.  What does not depend on them, that a drained run passes, is proved.

## 7. What the models showed

Where a property fails under constants that the code allows, the module states it
and no run checks it; the constants are given.  Otherwise the observation was made
while translating.

*Registers and Edge*

* *A reassigned register stops synchronizing.*  `docs/PILOT_RUNBOOK.md:247` lets a register be
  reassigned once its queued events have converged, which does not close open orders; an
  order keeps its location, and its next event makes Edge refuse every batch from there
  on (`device-edge-auth.service.ts:119`).  `DeviceSync!EverythingIsAcknowledged` fails with
  three locations and `MaxReassigns = 2`, also with `FollowRunbook = TRUE`.
* *Edge's watermark can move backwards.*  A batch of legacy events authorized
  before the register had a location and stored after its repair reuses identities
  that hold the watermark below the acknowledged one, and the register refuses
  every later answer.  `KeepsUpUnlessRepaired` says so by its condition.
* *A conflict Edge never hears of.*  After a lost answer the Cloud calls the
  refused event a duplicate (`CloudSync!EdgeKnowsTheConflicts` fails).
* *One register at a place the Cloud does not know* blocks the events of all
  registers of its Edge, since the roster goes with every batch and is refused as a whole
  (`edge-cloud-auth.service.ts:194`).  `CloudCatchesUp` asks that this ends.

*Payments*

* *Attempts ordered by wall clock* (`PaymentDao.kt:23`).  After the clock went back the
  screen checks an older failed attempt, which reopens the order while the newer one can
  still succeed: `ChargedAtMostOnce` fails when `ClockMayGoBack`.
* *An initiation that never reached the Cloud* is never sent again, and its order can be
  neither resolved nor left (`LocalOrderStore.kt:30`): `UnresolvedRecovers` fails.
* *A double charge loses its review.*  The verified second charge writes RESOLVED over
  the MANUAL_REVIEW that names the first (`payments.service.ts:566-580`, `:619`), against
  `plans/006-payments-mpesa.md:17`: `DoubleChargesAreReviewed` fails.
* A check that throws reopens the job of a settled attempt (`payments.service.ts:381`); an
  M-PESA callback after a status query found the success sends it to review (`:588`).
* A terminal attempt that became UNKNOWN without a reference can be confirmed by nobody
  and stays under review (`manual-terminal.service.ts:109`).
* With two screen actions at a time (`PosScreen.kt:79`) `ChargedAtMostOnce` fails.

*Stock*

* *A recipe that changes between two deliveries of a sale* books new components
  beside the old ones, against `plans/005-inventory-ledger-alerts.md:104`
  (`SaleDepletesOnce` fails when `Recipes` differ in their components).  A quantity or a
  mapping that changed makes every repetition a 409, with which Edge answers the
  register's whole batch.
* *Sales between counting and closing* are overwritten: the variance is against the
  stock at closing.  *A movement of a transfer can be reversed* like any other, after
  which the ledger and the transfer differ; `CustodyIsKept` is about rows of its own kinds.
* An SQL error inside the Cloud's projection of a ledger row aborts the transaction in
  which the exception would be recorded (cloud `inventory.service.ts:159`).
* The alert of a location that is no longer configured stays unresolved; an
  acknowledgement in the command centre does not reach Edge (`docs/PRODUCT.md:135`).

*Menus, close, sessions, pages*

* *An event can open without its latest menus* (`configuration.service.ts:296-300`): the check
  and the update are two statements, and a publication may commit between them.
  `OpenMeansInstalled` fails; `OpenedWithMenus` is what holds.  A rename that read the event
  before it was opened writes the old lifecycle back.  An event without an active
  location opens with no menus.  A menu with a higher version installed by hand blocks later pulls.
* *A cash refund of everything and a discount after it* make an order's net negative
  (`event-close-ledger.service.ts:186`; `docs/EVENT_CLOSE.md:40` bounds the refund only):
  `RefundsWithinRemaining` fails with `Adjustments <- RefundAndDiscount`.  Two reopenings in a
  row are possible from two old snapshots; a live report can be torn, and a change
  can be missed when its stamp is older than the close's.
* *A page settles on an earlier selection*: a late answer of the event selected before is
  shown under the new one (`command-centre-client.tsx:564`; `event-close-client.tsx:148` has the same gap):
  `SettlesOnSelected` fails.
* Other lines of the kind: `operator-login.service.ts:259` (identity read before the session is
  written), `LocalMenuStore.kt:25`.
* In the simulator LOCAL_DURABILITY cannot fail by construction, nor NO_DUPLICATE_BUSINESS_EFFECT,
  which counts orders only and behind the check that drops their repetitions (`simulator.ts:366-374`);
  `EffectsHappenOnce` counts the effects of signals as well.  With deliveries lost for ever the verdict may
  depend on the seed; the Cloud's stock is negative for a while under reordering (`docs/SIMULATION_EVIDENCE.md`).

## 8. What is not modelled

* Refunds and reversals (`payment-adjustments.service.ts`): no provider of the repository
  offers the capability, and requests are refused before they change anything.
* Edge's abuse protection and token, the Cloud's token buckets: refusals, which
  look to the models like failed calls.  An operator's permission to move stock is a refused request.
* The web console apart from sign-in, selection and the command centre: forms over one
  request at a time, whose effects are in `Catalogue`, `EventClose` and `CommandCentre`.
* The Cloud's projections of the ledger, of transfers and of counts row by row; velocity,
  pulse, rails and transfers of the command centre; CSV and audit exports: read models.
* The terminal proxy of Edge: stateless; `confirmExternalTerminal` needs an operator's
  context at the Cloud, which Edge's credential does not give.
* Contracts, observability, test kit, deployment and evidence scripts other than the one
  of the close and the operators' and Edges' commands: no behaviour of the running system.
* Money per line, prices, taxes, names, checksums and wall-clock times, except where a
  model names them: no other property depends on them.  An order has a total.
* Free items (a total of zero), voids, and more than one order at a register
  in `RegisterPayments`: attempts of different orders share nothing but the screen.
* Android's database and PostgreSQL themselves: a committed transaction is durable.

## 9. Plan

Done: the register's path to Edge and its proofs; Edge's path to the Cloud; payments at
every tier; stock, alerts, menus, close, sessions and command centre; the simulator; each with
the proofs of its safety properties.

1. The Cloud's projections of the ledger and of transfers beside that of the alerts.
2. The event-close page beside the command centre's, once its answers are guarded.

## 10. Usage

```
tlc -workers 2 -config CloudPayments.cfg MCCloudPayments.tla
tlapm PaymentProofs.tla
tlapm BooksProofs.tla          # this and ConsoleProofs take several minutes
```

The modules use the standard modules, `FiniteSetsExt`, `Functions` and `SequencesExt`; the proofs
use `TLAPS` and the library's theorem modules.
