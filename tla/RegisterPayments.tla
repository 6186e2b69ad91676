-------------------------- MODULE RegisterPayments --------------------------
(***************************************************************************)
(* One order of one register from its first item to its close: the order   *)
(* and payment-attempt rows of the register's database, the payment calls  *)
(* of its screen, the payment calls that Event Edge handles, Edge's cache  *)
(* of attempts, and what the Cloud knows of each attempt.                   *)
(*                                                                          *)
(* A call of the register (startMpesa, startCard, reconcile) travels as an *)
(* operation: to Edge, from there to the Cloud and back.  The register may *)
(* give up, its application may be killed, Edge may give up or restart,    *)
(* and a request nobody waits for any more may still arrive.               *)
(*                                                                          *)
(* `truth' is the Cloud's row.  All that is assumed of it is PaymentTruth,  *)
(* which CloudPayments is shown to implement.                               *)
(***************************************************************************)
EXTENDS Naturals, FiniteSets, PaymentStates

CONSTANTS
  MaxAttempts,     \* bound on the payment attempts of the order
  MaxTotal,        \* order totals are 0..MaxTotal
  Calls,           \* payment actions of the screen that can run at a time
  Slots,           \* operations that can be under way beyond the register
  ClockMayGoBack   \* the register's clock may be set back between attempts

ASSUME BoundsAssumption == MaxAttempts \in Nat \ {0} /\ MaxTotal \in Nat \ {0}
ASSUME ClockAssumption == ClockMayGoBack \in BOOLEAN

Attempts == 1..MaxAttempts
NoAttempt == 0
NoCall == "NO_CALL"

ASSUME CallsAssumption == NoCall \notin Calls

VARIABLES
  order,     \* register: the pos_orders row; paidBy is the attempt that closed it
  attempt,   \* register: the payment_attempts rows
  call,      \* register: what each payment action of the screen waits for
  op,        \* requests to Edge and Edge's handling of them
  edge,      \* Edge: edge_payment_attempt_cache status
  toCloud,   \* initiations on their way from Edge to the Cloud
  truth,     \* Cloud: payment_attempts status
  outage     \* requests may be lost or late, the application and Edge may stop

vars == <<order, attempt, call, op, edge, toCloud, truth, outage>>

IdleCall == [pc |-> "idle", attempt |-> NoAttempt, next |-> NoRow]
FreeSlot == [stage |-> "free", kind |-> NoRow, attempt |-> NoAttempt,
             view |-> NoRow, caller |-> NoCall]

Made == {a \in Attempts : attempt[a].state # NoRow}

Init ==
  /\ order = [state |-> "NONE", total |-> 0, paidBy |-> NoAttempt]
  /\ attempt = [a \in Attempts |-> [state |-> NoRow, amount |-> 0, createdAt |-> 0]]
  /\ call = [c \in Calls |-> IdleCall]
  /\ op = [s \in Slots |-> FreeSlot]
  /\ edge = [a \in Attempts |-> NoRow]
  /\ toCloud = {}
  /\ truth = [a \in Attempts |-> NoRow]
  /\ outage = TRUE

-----------------------------------------------------------------------------
(* The register's order: addItem, removeItem and clear; recordCash.         *)

\* Mutant of EditOrder: items may change while a payment is pending.
EditOrderAnyTime(total) ==
  /\ order.state # "CLOSED"
  /\ order.state = "NONE" => total > 0
  /\ order' = [order EXCEPT !.state = IF @ = "NONE" THEN "OPEN" ELSE @, !.total = total]
  /\ UNCHANGED <<attempt, call, op, edge, toCloud, truth, outage>>

EditOrder(total) ==
  /\ order.state \in {"NONE", "OPEN"}
  /\ order.state = "NONE" => total > 0
  /\ order' = [order EXCEPT !.state = "OPEN", !.total = total]
  /\ UNCHANGED <<attempt, call, op, edge, toCloud, truth, outage>>

RecordCash ==
  /\ order.state = "OPEN" /\ order.total > 0
  /\ order' = [order EXCEPT !.state = "CLOSED"]
  /\ UNCHANGED <<attempt, call, op, edge, toCloud, truth, outage>>

-----------------------------------------------------------------------------
(* The register's payment actions.                                          *)

Request(kind, a, c) ==
  [stage |-> "toEdge", kind |-> kind, attempt |-> a, view |-> NoRow, caller |-> c]

Sends(c, s, kind, a) ==
  /\ call[c].pc = "idle" /\ op[s].stage = "free"
  /\ call' = [call EXCEPT ![c] = [IdleCall EXCEPT !.pc = "waiting", !.attempt = a]]
  /\ op' = [op EXCEPT ![s] = Request(kind, a, c)]

\* The wall clock at the creation of attempt a.
ClockAt(a) == IF ClockMayGoBack THEN Attempts ELSE {a}

\* startMpesa, startCard and startExternalTerminal: the attempt is created in
\* one transaction with the order's move to PAYMENT_PENDING, then sent.
StartPayment(c, s) ==
  /\ order.state = "OPEN" /\ order.total > 0
  /\ \E a \in Attempts : \E now \in ClockAt(a) :
       /\ a \notin Made /\ \A b \in Attempts : b < a => b \in Made
       /\ attempt' = [attempt EXCEPT ![a] =
            [state |-> "CREATED", amount |-> order.total, createdAt |-> now]]
       /\ Sends(c, s, "initiate", a)
  /\ order' = [order EXCEPT !.state = "PAYMENT_PENDING"]
  /\ UNCHANGED <<edge, toCloud, truth, outage>>

\* Mutant of IsShown: the unresolvedAttempts query, which leaves CREATED out.
IsShownUnresolved(a) == a \in Made /\ attempt[a].state \in {"PENDING", "UNKNOWN"}

\* The attempt that the screen shows for the order: the last by creation time.
IsShown(a) ==
  a \in Made /\ \A b \in Made : attempt[b].createdAt <= attempt[a].createdAt

\* "Check payment status", offered while the order is not OPEN.
CheckStatus(c, s) ==
  /\ order.state = "PAYMENT_PENDING"
  /\ \E a \in Attempts : IsShown(a) /\ Sends(c, s, "reconcile", a)
  /\ UNCHANGED <<order, attempt, edge, toCloud, truth, outage>>

\* Mutants of OrderAfter: a paid order is not closed; a timeout reopens.
OrderAfterPaidOnly(a, next) ==
  IF order.state # "PAYMENT_PENDING" THEN order
  ELSE IF next = "SUCCEEDED" THEN [order EXCEPT !.state = "PAID", !.paidBy = a]
  ELSE IF next = "FAILED" THEN [order EXCEPT !.state = "OPEN"]
  ELSE order

OrderAfterTimeout(a, next) ==
  IF order.state # "PAYMENT_PENDING" THEN order
  ELSE IF next = "SUCCEEDED" THEN [order EXCEPT !.state = "CLOSED", !.paidBy = a]
  ELSE IF next \in {"FAILED", "UNKNOWN"} THEN [order EXCEPT !.state = "OPEN"]
  ELSE order

\* The order after a provider state has been written for attempt a.
OrderAfter(a, next) ==
  IF order.state # "PAYMENT_PENDING" THEN order
  ELSE IF next = "SUCCEEDED" THEN [order EXCEPT !.state = "CLOSED", !.paidBy = a]
  ELSE IF next = "FAILED" THEN [order EXCEPT !.state = "OPEN"]
  ELSE order

\* applyProviderState, once the transition has been accepted.
WriteProviderState(a, next) ==
  /\ attempt' = [attempt EXCEPT ![a] = [@ EXCEPT !.state = next]]
  /\ order' = OrderAfter(a, next)

Uncertain(c) ==
  [call[c] EXCEPT !.pc = "marking",
     !.next = StateAfterTransportUncertainty(attempt[call[c].attempt].state)]

\* Edge's answer arrives.  A state that PaymentRules refuses is an exception,
\* which the coordinator takes for a failed call.
ReceiveAnswer(c, s) ==
  /\ call[c].pc = "waiting" /\ op[s].caller = c /\ op[s].stage = "toPos"
  /\ op' = [op EXCEPT ![s] = FreeSlot]
  /\ LET a == call[c].attempt IN
     IF CanTransition(attempt[a].state, op[s].view)
     THEN /\ WriteProviderState(a, op[s].view)
          /\ call' = [call EXCEPT ![c] = IdleCall]
     ELSE /\ call' = [call EXCEPT ![c] = Uncertain(c)]
          /\ UNCHANGED <<attempt, order>>
  /\ UNCHANGED <<edge, toCloud, truth, outage>>

\* A timeout, a refused connection or an error answer: markTransportUncertain
\* reads the attempt before it takes the lock.
GiveUp(c) ==
  /\ call[c].pc = "waiting"
  /\ outage \/ \A s \in Slots : op[s].caller # c
  /\ call' = [call EXCEPT ![c] = Uncertain(c)]
  /\ op' = [s \in Slots |-> IF op[s].caller # c THEN op[s]
                            ELSE IF op[s].stage = "toPos" THEN FreeSlot
                            ELSE [op[s] EXCEPT !.caller = NoCall]]
  /\ UNCHANGED <<order, attempt, edge, toCloud, truth, outage>>

MarkUncertain(c) ==
  /\ call[c].pc = "marking"
  /\ call' = [call EXCEPT ![c] = IdleCall]
  /\ IF CanTransition(attempt[call[c].attempt].state, call[c].next)
     THEN WriteProviderState(call[c].attempt, call[c].next)
     ELSE UNCHANGED <<attempt, order>>
  /\ UNCHANGED <<op, edge, toCloud, truth, outage>>

\* The application is killed: its calls are forgotten, its requests are not.
KillApp ==
  /\ outage
  /\ \E c \in Calls : call[c].pc # "idle"
  /\ call' = [c \in Calls |-> IdleCall]
  /\ op' = [s \in Slots |-> IF op[s].stage = "toPos" THEN FreeSlot
                            ELSE [op[s] EXCEPT !.caller = NoCall]]
  /\ UNCHANGED <<order, attempt, edge, toCloud, truth, outage>>

-----------------------------------------------------------------------------
(* Event Edge.                                                               *)

\* Mutant of Cached: last write wins.
CachedLast(a, view) == view

\* EdgePaymentsService.cache: a state that the table refuses leaves the row.
Cached(a, view) ==
  IF edge[a] = NoRow \/ CanTransition(edge[a], view) THEN view ELSE edge[a]

LoseRequest(s) ==
  /\ outage
  /\ op[s].stage = "toEdge"
  /\ op' = [op EXCEPT ![s] = FreeSlot]
  /\ UNCHANGED <<order, attempt, call, edge, toCloud, truth, outage>>

\* The attempt is cached before the Cloud is called.
EdgeInitiates(s) ==
  /\ op[s].stage = "toEdge" /\ op[s].kind = "initiate"
  /\ edge' = [edge EXCEPT ![op[s].attempt] = Cached(op[s].attempt, "CREATED")]
  /\ toCloud' = toCloud \cup {op[s].attempt}
  /\ op' = [op EXCEPT ![s] = [@ EXCEPT !.stage = "calling"]]
  /\ UNCHANGED <<order, attempt, call, truth, outage>>

\* An attempt that is not in the cache is an error, not a question to the Cloud.
EdgeReconciles(s) ==
  /\ op[s].stage = "toEdge" /\ op[s].kind = "reconcile"
  /\ op' = [op EXCEPT ![s] = IF edge[op[s].attempt] = NoRow THEN FreeSlot
                             ELSE [@ EXCEPT !.stage = "calling"]]
  /\ UNCHANGED <<order, attempt, call, edge, toCloud, truth, outage>>

Answers(s, view) ==
  op' = [op EXCEPT ![s] = IF @.caller = NoCall THEN FreeSlot
                          ELSE [@ EXCEPT !.stage = "toPos", !.view = view]]

EdgeCachesAnswer(s) ==
  /\ op[s].stage = "answered"
  /\ LET a == op[s].attempt IN
     /\ edge' = [edge EXCEPT ![a] = Cached(a, op[s].view)]
     /\ Answers(s, Cached(a, op[s].view))
  /\ UNCHANGED <<order, attempt, call, toCloud, truth, outage>>

\* The Cloud's answer does not come or is an error: an initiation is recorded
\* as UNKNOWN, a reconciliation answers with the row as it is by then.
EdgeGivesUp(s) ==
  /\ op[s].stage \in {"calling", "answered"}
  /\ outage \/ truth[op[s].attempt] = NoRow
  /\ LET a == op[s].attempt
         view == IF op[s].kind = "initiate" THEN Cached(a, "UNKNOWN") ELSE edge[a] IN
     /\ edge' = [edge EXCEPT ![a] = view]
     /\ Answers(s, view)
  /\ UNCHANGED <<order, attempt, call, toCloud, truth, outage>>

RestartEdge ==
  /\ outage
  /\ \E s \in Slots : op[s].stage \notin {"free", "toEdge"}
  /\ op' = [s \in Slots |-> IF op[s].stage = "toEdge" THEN op[s] ELSE FreeSlot]
  /\ UNCHANGED <<order, attempt, call, edge, toCloud, truth, outage>>

-----------------------------------------------------------------------------
(* The Cloud.                                                                *)

Cloud == INSTANCE PaymentTruth WITH PaymentAttempts <- Attempts, state <- truth

\* A repeated initiation finds the row.
CloudReceives(a) ==
  /\ a \in toCloud
  /\ toCloud' = toCloud \ {a}
  /\ IF truth[a] = NoRow THEN Cloud!Appear(a) ELSE UNCHANGED truth
  /\ UNCHANGED <<order, attempt, call, op, edge, outage>>

LoseInitiation(a) ==
  /\ outage /\ a \in toCloud
  /\ toCloud' = toCloud \ {a}
  /\ UNCHANGED <<order, attempt, call, op, edge, truth, outage>>

\* A provider result, a callback, a status query or an operator.
ProviderMoves(a, next) ==
  /\ next # truth[a] /\ Cloud!Move(a, next)
  /\ UNCHANGED <<order, attempt, call, op, edge, toCloud, outage>>

CloudAnswers(s) ==
  /\ op[s].stage = "calling" /\ truth[op[s].attempt] # NoRow
  /\ op' = [op EXCEPT ![s] = [@ EXCEPT !.stage = "answered", !.view = truth[op[s].attempt]]]
  /\ UNCHANGED <<order, attempt, call, edge, toCloud, truth, outage>>

-----------------------------------------------------------------------------
(* The network works again and nothing stops any more.                      *)
OutageEnds ==
  /\ outage /\ outage' = FALSE
  /\ UNCHANGED <<order, attempt, call, op, edge, toCloud, truth>>

Next ==
  \/ \E total \in 0..MaxTotal : EditOrder(total)
  \/ RecordCash
  \/ \E c \in Calls, s \in Slots :
       StartPayment(c, s) \/ CheckStatus(c, s) \/ ReceiveAnswer(c, s)
  \/ \E c \in Calls : GiveUp(c) \/ MarkUncertain(c)
  \/ KillApp
  \/ \E s \in Slots : \/ LoseRequest(s) \/ EdgeInitiates(s) \/ EdgeReconciles(s)
                      \/ EdgeCachesAnswer(s) \/ EdgeGivesUp(s) \/ CloudAnswers(s)
  \/ RestartEdge
  \/ \E a \in Attempts : CloudReceives(a) \/ LoseInitiation(a)
  \/ \E a \in Attempts, next \in PaymentAttemptStates : ProviderMoves(a, next)
  \/ OutageEnds

Spec == Init /\ [][Next]_vars

(***************************************************************************)
(* Every call and every operation under way makes progress, if only by its *)
(* timeout (10 s on the register and on Edge), outages end, and the cashier *)
(* of a pending order keeps checking.                                       *)
(***************************************************************************)
EdgeHandles(s) ==
  \/ LoseRequest(s) \/ EdgeInitiates(s) \/ EdgeReconciles(s)
  \/ CloudAnswers(s) \/ EdgeCachesAnswer(s) \/ EdgeGivesUp(s)

CallEnds(c) ==
  GiveUp(c) \/ MarkUncertain(c) \/ \E s \in Slots : ReceiveAnswer(c, s)

Progress ==
  /\ \A s \in Slots : WF_vars(EdgeHandles(s))
  /\ \A c \in Calls : WF_vars(CallEnds(c))
  /\ \A a \in Attempts : WF_vars(CloudReceives(a))
  /\ WF_vars(\E c \in Calls, s \in Slots : CheckStatus(c, s))
  /\ WF_vars(OutageEnds)

FairSpec == Spec /\ Progress

\* And a provider that settles every attempt the Cloud has.
SettlingSpec ==
  FairSpec /\ \A a \in Attempts :
    WF_vars(\E next \in Terminal : ProviderMoves(a, next))

-----------------------------------------------------------------------------
(* Properties                                                                *)

RowStates == PaymentAttemptStates \cup {NoRow}

Orders == [state : {"NONE", "OPEN", "PAYMENT_PENDING", "CLOSED"},
           total : 0..MaxTotal, paidBy : 0..MaxAttempts]

AttemptRows == [state : RowStates, amount : 0..MaxTotal, createdAt : 0..MaxAttempts]

CallStates == [pc : {"idle", "waiting", "marking"},
               attempt : 0..MaxAttempts, next : RowStates]

Stages == {"free", "toEdge", "calling", "answered", "toPos"}

Operations == [stage : Stages, kind : {NoRow, "initiate", "reconcile"},
               attempt : 0..MaxAttempts, view : RowStates,
               caller : Calls \cup {NoCall}]

\* Every variable keeps its type.
TypeOK ==
  /\ order \in Orders
  /\ attempt \in [Attempts -> AttemptRows]
  /\ call \in [Calls -> CallStates]
  /\ op \in [Slots -> Operations]
  /\ edge \in [Attempts -> RowStates]
  /\ toCloud \subseteq Attempts
  /\ truth \in [Attempts -> RowStates]
  /\ outage \in BOOLEAN

\* A success or a failure that the register shows is what Edge shows, and one
\* that Edge shows is what the Cloud holds: late, repeated or uncertain answers
\* never invent, change or undo a result (applyProviderState, Edge's cache).
ResultsAreTrue ==
  \A a \in Attempts :
    /\ attempt[a].state \in Terminal => edge[a] = attempt[a].state
    /\ edge[a] \in Terminal => truth[a] = edge[a]

\* An order that a provider payment closed was closed by an attempt that the
\* Cloud holds as successful, and for the order's total at that time: items
\* cannot change between an attempt and its result (addItem, createAttempt).
ClosedForItsTotal ==
  order.paidBy # NoAttempt =>
    /\ truth[order.paidBy] = "SUCCEEDED"
    /\ attempt[order.paidBy].amount = order.total

\* The customer's charges: successful attempts, and cash.
Charges ==
  Cardinality({a \in Attempts : truth[a] = "SUCCEEDED"})
    + (IF order.state = "CLOSED" /\ order.paidBy = NoAttempt THEN 1 ELSE 0)

\* The customer of an order is charged at most once, whatever the provider
\* decides late: no new attempt, and no cash, while an earlier attempt can
\* still succeed (createAttempt, recordCash, applyProviderState).
ChargedAtMostOnce == Charges <= 1

\* The customer pays for the order once, and for what the order costs.
OrderIsPaidOnce == ClosedForItsTotal /\ ChargedAtMostOnce

\* A result that the Cloud has reaches the register that waits for it, across
\* lost answers, kills and restarts, if the cashier keeps checking
\* (PaymentCoordinator.reconcile, EdgePaymentsService.reconcile).
ResultsReachTheRegister ==
  \A a \in Attempts : truth[a] \in Terminal ~> attempt[a].state = truth[a]

\* docs/SECURITY_RELIABILITY.md: an unresolved payment attempt recovers.
UnresolvedRecovers ==
  order.state = "PAYMENT_PENDING" ~> order.state # "PAYMENT_PENDING"

=============================================================================
