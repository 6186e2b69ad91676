-------------------------- MODULE EventSimulation --------------------------
(***************************************************************************)
(* The simulator whose suite gates a release: registers that sell, the     *)
(* queue to Event Edge, the queue to the Cloud, electronic payments and     *)
(* replenishments, second by second, under the faults of a scenario.  What  *)
(* the seeded generator draws is a choice here, so a property holds for     *)
(* every seed.  Bars have one register each and sell one product; times,    *)
(* stocks and capacities are scaled down; latencies and counts that are only *)
(* reported are left out.                                                   *)
(***************************************************************************)
EXTENDS Integers, Sequences, FiniteSets, FiniteSetsExt, Functions

CONSTANTS
  Bars,           \* numbered from 1; a register has its bar's number
  Scenarios,      \* the required scenarios of a run
  LocalCapacity,  \* mutations the registers send in a second (250)
  EdgeCapacity,   \* mutations the Cloud takes in a second (300)
  SlowCapacity,   \* the same while its database is slow (20)
  TransferDelay,  \* seconds from a transfer to its arrival (10)
  RestartLasts,   \* seconds Edge is away for a restart (2)
  TimeoutDelay    \* seconds that a provider timeout adds (12)

-----------------------------------------------------------------------------
(* Scenarios.  A window of time is the set of its seconds; a rate is whether *)
(* the event can happen.  Of requiredScenarios, the notification outage only *)
(* counts failures; the WAN failover has less to sell here.                  *)

NoPlan == [window |-> {}, source |-> 0, quantity |-> 0, below |-> 0]

Base ==
  [ duration |-> 3, recovery |-> 4, rate |-> 2, opening |-> 2,
    cloudDown |-> {}, edgeCloudDown |-> {}, wanFailover |-> {}, isolated |-> {},
    isolatedRegisters |-> {}, restarts |-> {}, slow |-> {}, plan |-> NoPlan,
    delays |-> {1}, loss |-> FALSE, duplicates |-> FALSE, reorders |-> FALSE,
    timeouts |-> FALSE, lateCallbacks |-> FALSE, repeatedCallbacks |-> FALSE ]

RequiredScenarios ==
  [ cloudOutage |-> [Base EXCEPT !.cloudDown = 1..2, !.repeatedCallbacks = TRUE],
    partition |-> [Base EXCEPT !.edgeCloudDown = 1..3],
    posIsolation |-> [Base EXCEPT !.isolated = 0..3, !.isolatedRegisters = {1}],
    edgeRestart |-> [Base EXCEPT !.edgeCloudDown = 1..2, !.restarts = {1, 3},
                                 !.duplicates = TRUE],
    largeReplay |-> [Base EXCEPT !.edgeCloudDown = 1..3, !.duplicates = TRUE,
                                 !.reorders = TRUE],
    callbacks |-> [Base EXCEPT !.repeatedCallbacks = TRUE, !.delays = 0..2,
                               !.lateCallbacks = TRUE, !.timeouts = TRUE],
    demandSpike |-> [Base EXCEPT !.opening = 1],
    replenishment |-> [Base EXCEPT !.opening = 1, !.restarts = {2},
      !.plan = [window |-> 1..5, source |-> 3, quantity |-> 2, below |-> 0]],
    slowDatabase |-> [Base EXCEPT !.slow = 1..3, !.rate = 3],
    wanFailover |-> [Base EXCEPT !.wanFailover = 1..2, !.loss = TRUE, !.opening = 1],
    combined |-> [Base EXCEPT !.edgeCloudDown = {1}, !.restarts = {2},
      !.duplicates = TRUE, !.reorders = TRUE, !.repeatedCallbacks = TRUE,
      !.timeouts = TRUE, !.slow = 4..5] ]

\* A register sells when its accumulator reaches this.
SalePoint == 3

Valid(c) ==
  /\ c.duration \in Nat \ {0} /\ c.recovery \in Nat
  /\ c.rate > 0 /\ c.opening >= 0

ASSUME EventSimulationAssumption ==
  /\ Cardinality(Bars) \in Nat \ {0} /\ Bars = 1..Cardinality(Bars)
  /\ Scenarios \subseteq DOMAIN RequiredScenarios
  /\ \A s \in Scenarios : Valid(RequiredScenarios[s])
  /\ {LocalCapacity, EdgeCapacity, SlowCapacity} \subseteq Nat \ {0}
  /\ {TransferDelay, RestartLasts, TimeoutDelay} \subseteq Nat

VARIABLES
  scenario,      \* the configuration: a name of RequiredScenarios
  second, phase, \* run: the second, and what it does next
  selling,       \* the registers that still sell in this second
  accumulator,   \* the same for every register
  sequence,      \* numbers orders and transfers
  physical, edgeStock, cloudStock,   \* of each bar
  localQueue, edgeQueue,             \* mutations
  edgeApplied, cloudApplied,         \* their ids
  orders, cloudOrders,               \* durableOrders, cloudOrders
  payments,      \* of each order: its status and the second it is due
  answered,      \* signals that completed a payment
  transfers,     \* of each transfer: bar, quantity, due, completed
  replenished, remaining,            \* bars served by the plan, its source
  twice          \* duplicateBusinessEffects

time == <<scenario, second, phase>>
sales == <<selling, accumulator>>
stocks == <<physical, edgeStock, cloudStock>>
cloud == <<cloudStock, cloudApplied, cloudOrders, twice>>
money == <<payments, answered>>
supply == <<transfers, replenished, remaining>>
simulationVars == <<scenario, second, phase, selling, accumulator, sequence, physical, edgeStock,
  cloudStock, localQueue, edgeQueue, edgeApplied, cloudApplied, orders, cloudOrders,
  payments, answered, transfers, replenished, remaining, twice>>

config == RequiredScenarios[scenario]
Final == config.duration + config.recovery

SimulationInit ==
  /\ scenario \in Scenarios
  /\ second = 0 /\ phase = "traffic"
  /\ selling = {} /\ accumulator = 0 /\ sequence = 0
  /\ physical = [b \in Bars |-> config.opening]
  /\ edgeStock = physical /\ cloudStock = physical
  /\ localQueue = <<>> /\ edgeQueue = <<>>
  /\ edgeApplied = {} /\ cloudApplied = {} /\ orders = {} /\ cloudOrders = {}
  /\ payments = <<>> /\ answered = 0 /\ transfers = <<>>
  /\ replenished = {} /\ remaining = config.plan.source
  /\ twice = 0

\* A sequence in which each element stands so many times, in the same order.
Repeated(seq, times) ==
  LET upTo[i \in 0..Len(seq)] ==
        IF i = 0 THEN <<>> ELSE upTo[i - 1] \o [n \in 1..times[i] |-> seq[i]]
  IN  upTo[Len(seq)]

\* The elements at these places.
Elements(seq, places) == Repeated(seq, [i \in DOMAIN seq |-> IF i \in places THEN 1 ELSE 0])

\* A sequence in which the elements at these places stand twice.
Doubled(seq, again) == Repeated(seq, [i \in DOMAIN seq |-> IF i \in again THEN 2 ELSE 1])

-----------------------------------------------------------------------------
(* What is reachable in the current second.                                  *)

edgeAvailable ==
  \A restart \in config.restarts : second \notin restart .. restart + RestartLasts

posToEdgeAvailable(register) ==
  /\ edgeAvailable
  /\ ~(second \in config.isolated /\ register \in config.isolatedRegisters)

edgeToCloudAvailable ==
  edgeAvailable /\ second \notin config.cloudDown \cup config.edgeCloudDown
                                 \cup config.wanFailover

\* What the generator can say to a question whose rate is zero or not.
Chance(possible) == IF possible THEN BOOLEAN ELSE {FALSE}

-----------------------------------------------------------------------------
(* Sales.                                                                    *)

Mutation(of, kind, bar, delta) == [of |-> of, kind |-> kind, bar |-> bar, delta |-> delta]
IdOf(mutation) == <<mutation.of, mutation.kind>>

\* Every register gains the same, and none sells twice in a second.
GenerateTraffic ==
  /\ phase = "traffic"
  /\ LET sum == accumulator + config.rate IN
     IF second < config.duration
     THEN /\ accumulator' = sum % SalePoint
          /\ selling' = IF sum >= SalePoint THEN Bars ELSE {}
     ELSE UNCHANGED sales
  /\ phase' = "selling"
  /\ UNCHANGED <<scenario, second, sequence, stocks, localQueue, edgeQueue, edgeApplied,
                 cloud, orders, money, supply>>

\* The delays a payment can be given.
Delays(late, timeout) ==
  {d + (IF timeout THEN TimeoutDelay ELSE 0) + l :
     d \in config.delays, l \in IF late THEN {1} ELSE {0}}

PaymentsOf(register) ==
  {[status |-> "SUCCEEDED", due |-> second, cash |-> TRUE]} \cup
  UNION {{[status |-> IF posToEdgeAvailable(register) /\ edgeToCloudAvailable /\ ~timeout
                      THEN "PENDING" ELSE "UNKNOWN",
           due |-> second + delay, cash |-> FALSE] : delay \in Delays(late, timeout)} :
     timeout \in Chance(config.timeouts), late \in Chance(config.lateCallbacks)}

\* Mutant of InStock: `<' for `<='.
InStockOrJustOut(register) == ~(physical[register] < 0)

InStock(register) == ~(physical[register] <= 0)

\* createSale: the order is durable at the register before anything is sent.
CreateSale ==
  /\ phase = "selling" /\ selling # {}
  /\ LET register == Min(selling)  order == sequence + 1 IN
     /\ selling' = selling \ {register}
     /\ IF ~InStock(register)
        THEN UNCHANGED <<physical, sequence, orders, localQueue, payments>>
        ELSE /\ physical' = [physical EXCEPT ![register] = @ - 1]
             /\ sequence' = order
             /\ orders' = orders \cup {order}
             /\ localQueue' = localQueue \o
                  <<Mutation(order, "ORDER", register, 0),
                    Mutation(order, "INVENTORY", register, -1)>>
             /\ \E payment \in PaymentsOf(register) :
                  payments' = [o \in orders' |-> IF o = order THEN payment ELSE payments[o]]
  /\ UNCHANGED <<time, accumulator, edgeStock, edgeQueue, edgeApplied, cloud, answered, supply>>

-----------------------------------------------------------------------------
(* Replenishment.                                                            *)

Needs(bar) ==
  /\ second \in config.plan.window
  /\ physical[bar] <= config.plan.below /\ bar \notin replenished

\* What the plan's source holds after the bars up to this one were served.
Left[bar \in {0} \cup Bars] ==
  IF bar = 0 THEN remaining
  ELSE IF Needs(bar) THEN Left[bar - 1] - Min({Left[bar - 1], config.plan.quantity})
  ELSE Left[bar - 1]

\* The bars that it sends something to.
Served == {b \in Bars : Left[b] < Left[b - 1]}

\* maybeCreateTransfers, for the bars in their order.
MaybeCreateTransfers ==
  /\ phase = "selling" /\ selling = {}
  /\ LET served == Elements([b \in Bars |-> b], Served) IN
     /\ replenished' = replenished \cup Served
     /\ remaining' = Left[Cardinality(Bars)]
     /\ sequence' = sequence + Len(served)
     /\ transfers' = transfers \o
          [n \in DOMAIN served |->
             [id |-> sequence + n, bar |-> served[n],
              quantity |-> Left[served[n] - 1] - Left[served[n]],
              due |-> second + TransferDelay, completed |-> FALSE]]
  /\ phase' = "arrivals"
  /\ UNCHANGED <<scenario, second, sales, stocks, localQueue, edgeQueue, edgeApplied,
                 cloud, orders, money>>

\* What these mutations do to the stock of a bar.
Effect(mutations, bar) ==
  LET own == {m \in mutations : m.bar = bar} IN SumFunctionOnSet([m \in own |-> m.delta], own)

\* applyAtEdge, applyAtCloud: a mutation counts once.
StockAfter(stock, mutations, applied) ==
  [b \in Bars |-> stock[b] + Effect({m \in mutations : IdOf(m) \notin applied}, b)]

\* Mutant of Arriving: what has arrived arrives again.
ArrivingAgain == {i \in DOMAIN transfers : transfers[i].due <= second}

Arriving == {i \in DOMAIN transfers : ~transfers[i].completed /\ transfers[i].due <= second}

\* completeTransfers: an arrival that finds Edge away waits.
CompleteTransfers ==
  /\ phase = "arrivals"
  /\ LET due == Arriving
         arrived == Elements(transfers, due)
         news == [n \in DOMAIN arrived |->
           Mutation(arrived[n].id, "TRANSFER", arrived[n].bar, arrived[n].quantity)] IN
     IF edgeAvailable
     THEN /\ transfers' = [i \in DOMAIN transfers |->
                             [transfers[i] EXCEPT !.completed = @ \/ i \in due]]
          /\ physical' = StockAfter(physical, Range(news), {})
          /\ edgeStock' = StockAfter(edgeStock, Range(news), edgeApplied)
          /\ edgeApplied' = edgeApplied \cup {IdOf(m) : m \in Range(news)}
          /\ edgeQueue' = edgeQueue \o news
     ELSE /\ transfers' = [i \in DOMAIN transfers |->
                             [transfers[i] EXCEPT !.due = IF i \in due THEN second + 1 ELSE @]]
          /\ UNCHANGED <<physical, edgeStock, edgeApplied, edgeQueue>>
  /\ phase' = "local"
  /\ UNCHANGED <<scenario, second, sales, sequence, localQueue, cloud, orders, money,
                 replenished, remaining>>

-----------------------------------------------------------------------------
(* Synchronization.                                                          *)

\* drainLocalQueue: what is lost, or cannot reach Edge, stays in its place.
DrainLocalQueue ==
  /\ phase = "local"
  /\ LET reachable == {i \in DOMAIN localQueue : posToEdgeAvailable(localQueue[i].bar)} IN
     \E lost \in SUBSET (IF config.loss THEN reachable ELSE {}) :
       LET moved == {i \in reachable \ lost :
                       Cardinality({j \in reachable \ lost : j < i}) < LocalCapacity}
           sent == Elements(localQueue, moved) IN
       /\ localQueue' = Elements(localQueue, DOMAIN localQueue \ moved)
       /\ edgeStock' = StockAfter(edgeStock, Range(sent), edgeApplied)
       /\ edgeApplied' = edgeApplied \cup {IdOf(m) : m \in Range(sent)}
       /\ \E again \in SUBSET (IF config.duplicates THEN DOMAIN sent ELSE {}) :
            edgeQueue' = edgeQueue \o Doubled(sent, again)
  /\ phase' = "edge"
  /\ UNCHANGED <<scenario, second, sales, sequence, physical, cloud, orders, money, supply>>

\* Mutant of Reordered: the first is not put back.
ReorderedLosing(queue) == Tail(queue)

\* The first goes to the end.
Reordered(queue) == Tail(queue) \o <<Head(queue)>>

\* Mutant of NewAtCloud: a repeated delivery counts again.
NewAtCloudAlways(taken) == taken

\* Of what the Cloud takes, what it has not seen.
NewAtCloud(taken) == {m \in taken : IdOf(m) \notin cloudApplied}

\* drainEdgeQueue: a lost delivery ends the second's work.
DrainEdgeQueue ==
  /\ phase = "edge"
  /\ IF ~edgeToCloudAvailable THEN UNCHANGED <<edgeQueue, cloud>>
     ELSE \E reorder \in Chance(config.reorders /\ Len(edgeQueue) > 1) :
       LET queue == IF reorder THEN Reordered(edgeQueue) ELSE edgeQueue
           most == Min({Len(queue), IF second \in config.slow THEN SlowCapacity
                                    ELSE EdgeCapacity}) IN
       \E n \in IF config.loss THEN 0..most ELSE {most} :
         LET new == NewAtCloud(Range(SubSeq(queue, 1, n)))
             sold == {m.of : m \in {m \in new : m.kind = "ORDER"}} IN
         /\ edgeQueue' = SubSeq(queue, n + 1, Len(queue))
         /\ cloudApplied' = cloudApplied \cup {IdOf(m) : m \in new}
         /\ cloudOrders' = cloudOrders \cup sold
         /\ twice' = twice + Cardinality(sold \cap cloudOrders)
         /\ cloudStock' = StockAfter(cloudStock, new, {})
  /\ phase' = "payments"
  /\ UNCHANGED <<scenario, second, sales, sequence, physical, edgeStock, localQueue,
                 edgeApplied, orders, money, supply>>

-----------------------------------------------------------------------------
(* Payments, and the end of a second.                                        *)

\* Mutant of Signalled: only a pending payment takes its signal.
SignalledPending == {o \in orders : payments[o].status = "PENDING" /\ payments[o].due <= second}

Signalled == {o \in orders : payments[o].status # "SUCCEEDED" /\ payments[o].due <= second}

\* Mutant of NewSignals: appliedPaymentSignals is not asked.
NewSignalsAlways(signals, applied) == signals

\* Of these signals, those that appliedPaymentSignals does not hold.
NewSignals(signals, applied) == signals \ applied

\* Every payment that is due gets its signal, and right after it, perhaps, the
\* same signal again.
ProcessPaymentSignals ==
  /\ phase = "payments"
  /\ LET due == Signalled IN
     IF edgeToCloudAvailable
     THEN /\ payments' = [o \in orders |->
               IF o \in due THEN [payments[o] EXCEPT !.status = "SUCCEEDED"] ELSE payments[o]]
          /\ \E again \in SUBSET (IF config.repeatedCallbacks THEN due ELSE {}) :
               answered' = answered + Cardinality(due) + Cardinality(NewSignals(again, due))
     ELSE /\ payments' = [o \in orders |->
               IF o \in due THEN [payments[o] EXCEPT !.due = second + 1] ELSE payments[o]]
          /\ UNCHANGED answered
  /\ phase' = "observe"
  /\ UNCHANGED <<scenario, second, sales, sequence, stocks, localQueue, edgeQueue,
                 edgeApplied, cloudApplied, cloudOrders, twice, orders, supply>>

NextSecond ==
  /\ phase = "observe"
  /\ IF second = Final THEN phase' = "done" /\ UNCHANGED second
     ELSE phase' = "traffic" /\ second' = second + 1
  /\ UNCHANGED <<scenario, sales, sequence, stocks, localQueue, edgeQueue, edgeApplied,
                 cloudApplied, cloudOrders, twice, orders, money, supply>>

SimulationNext ==
  \/ GenerateTraffic \/ CreateSale \/ MaybeCreateTransfers \/ CompleteTransfers
  \/ DrainLocalQueue \/ DrainEdgeQueue \/ ProcessPaymentSignals \/ NextSecond

SimulationSpec == SimulationInit /\ [][SimulationNext]_simulationVars

InventoryConverged == physical = edgeStock /\ physical = cloudStock

\* The release assertions of a finished run.
Passed ==
  /\ sequence - Len(transfers) <= Cardinality(orders)
  /\ twice = 0
  /\ localQueue = <<>> /\ edgeQueue = <<>>
  /\ \A o \in orders : payments[o].status = "SUCCEEDED"
  /\ InventoryConverged
  /\ cloudOrders = orders

-----------------------------------------------------------------------------
(* Properties                                                                *)

Statuses == {"PENDING", "UNKNOWN", "SUCCEEDED"}
Mutations == [of : Nat, kind : {"ORDER", "INVENTORY", "TRANSFER"}, bar : Bars, delta : Int]

\* Every variable keeps its type.
SimulationTypeOK ==
  /\ scenario \in Scenarios /\ second \in 0..Final
  /\ phase \in {"traffic", "selling", "arrivals", "local", "edge", "payments", "observe", "done"}
  /\ selling \subseteq Bars /\ accumulator \in 0..SalePoint - 1 /\ sequence \in Nat
  /\ physical \in [Bars -> Nat] /\ edgeStock \in [Bars -> Nat] /\ cloudStock \in [Bars -> Int]
  /\ localQueue \in Seq(Mutations) /\ edgeQueue \in Seq(Mutations)
  /\ edgeApplied \cup cloudApplied \subseteq Nat \X {"ORDER", "INVENTORY", "TRANSFER"}
  /\ orders \subseteq Nat /\ cloudOrders \subseteq orders
  /\ payments \in [orders -> [status : Statuses, due : Nat, cash : BOOLEAN]]
  /\ answered \in Nat /\ replenished \subseteq Bars /\ remaining \in Nat /\ twice \in Nat
  /\ transfers \in Seq([id : Nat, bar : Bars, quantity : Nat, due : Nat, completed : BOOLEAN])

\* A stock that lags behind differs by exactly the mutations still queued for
\* it, each counted once, however they were repeated or put out of order.
StockIsAccounted ==
  \A b \in Bars :
    /\ edgeStock[b] = physical[b] - Effect(Range(localQueue), b)
    /\ cloudStock[b] = edgeStock[b] -
         Effect({m \in Range(edgeQueue) : IdOf(m) \notin cloudApplied}, b)

OnTheWay == {i \in DOMAIN transfers : ~transfers[i].completed}

\* What a bar holds, has sold or is waiting for, and what the source still
\* has, is what there was: no arrival is lost or counted twice.
GoodsAreConserved ==
  SumFunctionOnSet(physical, Bars) + Cardinality(orders) + remaining
    + SumFunctionOnSet([i \in DOMAIN transfers |-> transfers[i].quantity], OnTheWay)
  = Cardinality(Bars) * config.opening + config.plan.source

\* A repeated delivery or signal has one business effect.
EffectsHappenOnce ==
  /\ twice = 0
  /\ answered = Cardinality({o \in orders : payments[o].status = "SUCCEEDED" /\ ~payments[o].cash})

\* Deliveries may be late, lost for a while, repeated or out of order: once the
\* queues are empty and every payment is complete, the run passes all its
\* release assertions, in every scenario.
DrainedRunPasses ==
  localQueue = <<>> /\ edgeQueue = <<>> /\ (\A o \in orders : payments[o].status = "SUCCEEDED")
    => Passed

\* Types and books: stock, goods and effects are each counted exactly once, and
\* the books of a run that has drained are those that its assertions ask for.
BooksBalance ==
  /\ SimulationTypeOK
  /\ StockIsAccounted /\ GoodsAreConserved /\ EffectsHappenOnce
  /\ DrainedRunPasses

\* docs/SIMULATION_EVIDENCE.md: the suite is deterministic for a given seed.
\* Its verdict is the same for every seed, as long as no delivery is lost for
\* ever: a finished run passes all its release assertions.
EverySeedPasses == phase = "done" /\ ~config.loss => Passed

=============================================================================
