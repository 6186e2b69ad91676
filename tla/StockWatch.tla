----------------------------- MODULE StockWatch -----------------------------
(***************************************************************************)
(* The stock alerts of one SKU at one event: Event Edge evaluates the      *)
(* stock, opens, refreshes and resolves alerts and tells the people        *)
(* responsible.  Evaluations run in the operations loop and after every    *)
(* request that moved stock, both at once, and nothing is locked between   *)
(* what an evaluation reads and what it writes.  How the Cloud follows the *)
(* alerts is in module CommandCentre.                                      *)
(***************************************************************************)
EXTENDS Integers, Sequences, FiniteSets, SequencesExt

CONSTANTS
  Places,           \* inventory locations
  InitialStock,     \* [Locations -> Nat]
  Configurations,   \* [watched: sequences of locations, owned: BOOLEAN]
  Rates,            \* recent consumption, in units per Window minutes
  Window,
  Remaining,        \* minutes to the event's end, standing still
  Minimum, CoverThreshold, TargetCover, SourceSafety, WideSafety, Ratio,
  MaxEvents         \* bound: moves of stock, reactions, escalations, losses

ASSUME LocationsAssumption ==
  /\ IsFiniteSet(Places)
  /\ InitialStock \in [Places -> Nat]
  /\ \A c \in Configurations : c.watched \in Seq(Places) /\ c.owned \in BOOLEAN
  /\ Configurations # {}
ASSUME FiguresAssumption ==
  /\ Rates \subseteq Nat /\ 0 \in Rates
  /\ {Window, Ratio} \subseteq Nat \ {0}
  /\ {Remaining, Minimum, CoverThreshold, TargetCover, SourceSafety, WideSafety} \subseteq Nat
  /\ MaxEvents \in Nat

VARIABLES
  config,           \* edge_inventory_alert_config and _responsibilities
  stock, inbound,   \* the ledger's sums; what transfers still bring
  rate,             \* what the recent sales amount to
  alerts,           \* edge_inventory_alerts, in order of creation
  due,              \* alerts whose escalate_at has passed
  notices, heard,   \* notifications waiting, and delivered
  runs,             \* the evaluations under way
  loop,             \* where the operations loop stands
  used              \* how much of the bound is used up

stockVars == <<config, stock, inbound, rate>>
alertVars == <<alerts, due, notices, heard>>
evalVars == <<runs, loop>>
watchVars == <<stockVars, alertVars, evalVars, used>>

LocalTypes == <<"LOW_STOCK", "STOCKOUT_RISK", "CRITICAL_STOCKOUT_RISK">>
Wide == "EVENT_WIDE"
Evaluators == {"loop", "request"}
States == {"OPEN", "ACKNOWLEDGED", "ASSIGNED", "RESOLVED"}

-----------------------------------------------------------------------------
(* The rules of stock risk.                                                *)

\* Whether the stock covers no more than the given minutes; with no recent
\* consumption the cover is unknown and only an empty stock counts.
CoveredWithin(quantity, velocity, minutes) ==
  quantity <= 0 \/ (velocity > 0 /\ Window * quantity <= minutes * velocity)

LocalRisk(quantity, velocity) ==
  IF \/ CoveredWithin(quantity, velocity, 5)
     \/ CoveredWithin(2 * quantity, velocity, CoverThreshold)
    THEN "CRITICAL_STOCKOUT_RISK"
  ELSE IF \/ CoveredWithin(quantity, velocity, CoverThreshold)
          \/ CoveredWithin(quantity, velocity, Remaining)
    THEN "STOCKOUT_RISK"
  ELSE IF quantity <= Minimum THEN "LOW_STOCK"
  ELSE "NONE"

RoundUp(a, b) == (a + b - 1) \div b

Recommended(quantity, coming, surplus, velocity) ==
  LET target == RoundUp(velocity * TargetCover, Window)
      needed == IF target > quantity + coming THEN target - quantity - coming ELSE 0
  IN IF needed < surplus THEN needed ELSE surplus

Imbalanced(quantity, coming, surplus) ==
  surplus > 0 /\ (quantity + coming <= 0 \/ surplus >= (quantity + coming) * Ratio)

WideShortage(quantity, coming, velocity) ==
  quantity + coming - WideSafety < RoundUp(velocity * Remaining, Window)

Velocity(job) == IF job = Wide THEN SumFunction(rate) ELSE rate[job]

\* The largest surplus over the safety stock at another location; 0: no source.
BestSurplus(place) ==
  Max({0} \cup {stock[other] - SourceSafety : other \in Places \ {place}})

-----------------------------------------------------------------------------
(* Alerts: one row per detection, unresolved at most once per key.         *)

Key(type, place) == [type |-> type, place |-> place]
Active(rows, key) == {i \in DOMAIN rows : rows[i].key = key /\ rows[i].state # "RESOLVED"}

\* The responsible person, looked up in the transaction that needs it.
Owned == config.owned
Notify(ids, reason) == notices \cup (ids \X {reason})

SetState(id, to) == [alerts EXCEPT ![id].state = to]

-----------------------------------------------------------------------------
(* An evaluation reads its configuration, then per watched location (and   *)
(* once for the event) its figures, and then raises and clears alerts one  *)
(* transaction after the other.                                            *)

NotRunning == [stage |-> "rest", jobs |-> <<>>, seen |-> <<>>, todo |-> <<>>]
Jobs(watched) ==
  IF watched = <<>> THEN <<>> ELSE <<Head(watched), Wide>> \o Tail(watched)

Begin(e) == runs[e].stage = "rest" /\ runs' = [runs EXCEPT ![e].stage = "config"]

ReadConfig(e) ==
  /\ runs[e].stage = "config"
  /\ runs' = [runs EXCEPT ![e] = IF config.watched = <<>> THEN NotRunning
                ELSE [@ EXCEPT !.stage = "work", !.jobs = Jobs(config.watched)]]
  /\ UNCHANGED <<stockVars, alertVars, loop, used>>

\* The statements of a job in two steps: the ledger's sum, then the transfers,
\* the recent sales and the best source.
OnHand(job) == IF job = Wide THEN SumFunction(stock) ELSE stock[job]
OtherFigures(job) ==
  IF job = Wide THEN [coming |-> SumFunction(inbound), velocity |-> Velocity(job)]
  ELSE [coming |-> inbound[job], velocity |-> Velocity(job), surplus |-> BestSurplus(job)]

Raise(key) == [op |-> "raise", key |-> key]
Clear(key) == [op |-> "clear", key |-> key]

PlanKeepingOthers(place, quantity, rest) ==
  LET risk == LocalRisk(quantity, rest.velocity) IN
  IF risk = "NONE" THEN [k \in DOMAIN LocalTypes |-> Clear(Key(LocalTypes[k], place))]
  ELSE <<Raise(Key(risk, place))>>
PlanLocal(place, quantity, rest) ==
  LET risk == LocalRisk(quantity, rest.velocity)
      suggested == Recommended(quantity, rest.coming, rest.surplus, rest.velocity)
      others == SelectSeq(LocalTypes, LAMBDA type : type # risk)
      imbalance == Key("STOCK_IMBALANCE", place)
  IN (IF risk = "NONE" THEN <<>> ELSE <<Raise(Key(risk, place))>>)
     \o [k \in DOMAIN others |-> Clear(Key(others[k], place))]
     \o (IF risk # "NONE" /\ suggested > 0 /\ Imbalanced(quantity, rest.coming, rest.surplus)
           THEN <<Raise(imbalance)>> ELSE <<Clear(imbalance)>>)

PlanWide(quantity, rest) ==
  LET key == Key("EVENT_WIDE_STOCKOUT_RISK", Wide) IN
  IF WideShortage(quantity, rest.coming, rest.velocity) THEN <<Raise(key)>> ELSE <<Clear(key)>>

Plan(job, quantity, rest) ==
  IF job = Wide THEN PlanWide(quantity, rest) ELSE PlanLocal(job, quantity, rest)

\* With the second step the writes of the job are decided.
ReadFigure(e) ==
  /\ runs[e].stage = "work" /\ runs[e].todo = <<>>
  /\ LET job == Head(runs[e].jobs)   seen == runs[e].seen IN
       runs' = [runs EXCEPT ![e] =
         IF seen = <<>> THEN [@ EXCEPT !.seen = <<OnHand(job)>>]
         ELSE [@ EXCEPT !.seen = <<>>, !.todo = Plan(job, seen[1], OtherFigures(job))]]
  /\ UNCHANGED <<stockVars, alertVars, loop, used>>

\* The evaluation after one of its writes has committed.
Advance(e) ==
  LET run == runs[e] IN
  runs' = [runs EXCEPT ![e] =
             IF Len(run.todo) > 1 THEN [run EXCEPT !.stage = "work", !.todo = Tail(@)]
             ELSE IF Len(run.jobs) > 1
               THEN [run EXCEPT !.stage = "work", !.todo = <<>>, !.jobs = Tail(@)]
             ELSE NotRunning]

Doing(e, op) == runs[e].stage = "work" /\ runs[e].todo # <<>> /\ Head(runs[e].todo).op = op

\* resolveByDedupe: the row is locked and resolved, in whatever state it is.
ClearAlert(e) ==
  /\ Doing(e, "clear")
  /\ LET active == Active(alerts, Head(runs[e].todo).key) IN
       IF Cardinality(active) = 1
         THEN \E id \in active : alerts' = SetState(id, "RESOLVED")
         ELSE UNCHANGED alerts
  /\ Advance(e)
  /\ UNCHANGED <<stockVars, due, notices, heard, loop, used>>

\* upsertAlert on a row that is there: locked, and its figures are refreshed.
RefreshAlert(e) ==
  /\ Doing(e, "raise")
  /\ Active(alerts, Head(runs[e].todo).key) # {}
  /\ Advance(e)
  /\ UNCHANGED <<stockVars, alertVars, loop, used>>

\* upsertAlert finding no row: nothing is locked until the insert.
MissAlert(e) ==
  /\ Doing(e, "raise")
  /\ Active(alerts, Head(runs[e].todo).key) = {}
  /\ runs' = [runs EXCEPT ![e].stage = "insert"]
  /\ UNCHANGED <<stockVars, alertVars, loop, used>>

NeverTaken(key) == FALSE
\* The unique index on the key of unresolved alerts.
Taken(key) == Active(alerts, key) # {}

OpenAlert(e) ==
  /\ runs[e].stage = "insert"
  /\ LET now == Head(runs[e].todo)
         id == Len(alerts) + 1
     IN /\ ~Taken(now.key)
        /\ alerts' = Append(alerts, [key |-> now.key, state |-> "OPEN"])
        /\ notices' = IF Owned THEN Notify({id}, "opened") ELSE notices
  /\ Advance(e)
  /\ UNCHANGED <<stockVars, due, heard, loop, used>>

\* The index refuses the insert and the rest of the evaluation is abandoned.
InsertRefused(e) ==
  /\ runs[e].stage = "insert" /\ Taken(Head(runs[e].todo).key)
  /\ runs' = [runs EXCEPT ![e] = NotRunning]
  /\ UNCHANGED <<stockVars, alertVars, loop, used>>

-----------------------------------------------------------------------------
(* What moves the stock, and the requests that evaluate afterwards.        *)

Use == used < MaxEvents /\ used' = used + 1
\* The request evaluates once its own transaction is committed (one at a time).
Evaluated == Begin("request")
Moved == UNCHANGED <<config, alertVars, loop>>

\* A sale reaches the ledger, which lets the balance go below zero; nothing is
\* evaluated until the loop's next turn.
Sale(place) ==
  /\ Use
  /\ stock' = [stock EXCEPT ![place] = @ - 1]
  /\ \E velocity \in Rates : velocity > 0 /\ rate' = [rate EXCEPT ![place] = velocity]
  /\ Moved /\ UNCHANGED <<inbound, runs>>

\* The recent sales leave the window.
Quiet(place) ==
  /\ Use /\ rate[place] > 0 /\ rate' = [rate EXCEPT ![place] = 0]
  /\ Moved /\ UNCHANGED <<stock, inbound, runs>>

Dispatch(source, place) ==
  /\ Use /\ source # place /\ stock[source] > 0
  /\ stock' = [stock EXCEPT ![source] = @ - 1]
  /\ inbound' = [inbound EXCEPT ![place] = @ + 1]
  /\ Evaluated /\ Moved /\ UNCHANGED rate

Receive(place) ==
  /\ Use /\ inbound[place] > 0
  /\ inbound' = [inbound EXCEPT ![place] = @ - 1]
  /\ stock' = [stock EXCEPT ![place] = @ + 1]
  /\ Evaluated /\ Moved /\ UNCHANGED rate

\* A closed count posts its difference: here, one unit more.
CloseCount(place) ==
  /\ Use /\ stock' = [stock EXCEPT ![place] = @ + 1]
  /\ Evaluated /\ Moved /\ UNCHANGED <<inbound, rate>>

\* The event's inventory configuration is installed again, as a whole.
Install ==
  /\ Use /\ config' \in Configurations \ {config}
  /\ UNCHANGED <<stock, inbound, rate, alertVars, evalVars>>

-----------------------------------------------------------------------------
(* The operations loop: evaluate, escalate, deliver.                       *)

LoopTick ==
  /\ loop = "rest" /\ loop' = "evaluate" /\ Begin("loop")
  /\ UNCHANGED <<stockVars, alertVars, used>>

LoopEvaluated ==
  /\ loop = "evaluate" /\ runs["loop"].stage = "rest" /\ loop' = "escalate"
  /\ UNCHANGED <<stockVars, alertVars, runs, used>>

EscalateSilently ==
  /\ loop = "escalate" /\ loop' = "notify"
  /\ due' = {id \in due : alerts[id].state # "OPEN"}
  /\ UNCHANGED <<stockVars, alerts, notices, heard, runs, used>>
\* Every open alert that is due, in one transaction.
Escalate ==
  /\ loop = "escalate" /\ loop' = "notify"
  /\ LET late == {id \in due : alerts[id].state = "OPEN"} IN
       IF Owned
         THEN /\ notices' = Notify(late, "escalation")
              /\ due' = due \ late
         ELSE UNCHANGED <<due, notices>>
  /\ UNCHANGED <<stockVars, alerts, heard, runs, used>>

Deliver ==
  /\ loop = "notify" /\ loop' = "rest"
  /\ heard' = heard \cup notices /\ notices' = {}
  /\ UNCHANGED <<stockVars, alerts, due, runs, used>>

\* Time: the escalation of an alert falls due.
FallsDue(id) ==
  /\ Use
  /\ id \notin due /\ alerts[id].state = "OPEN" /\ due' = due \cup {id}
  /\ UNCHANGED <<stockVars, alerts, notices, heard, evalVars>>

MayBecomeClosed(from) == IF from = "RESOLVED" THEN {"CLOSED"} ELSE {"RESOLVED"}
MayBecome(from) ==
  CASE from = "OPEN" -> {"ACKNOWLEDGED", "ASSIGNED", "RESOLVED"}
    [] from = "ACKNOWLEDGED" -> {"ASSIGNED", "RESOLVED"}
    [] from = "ASSIGNED" -> {"RESOLVED"}
    [] OTHER -> {}

\* Staff at the venue acknowledge, assign or resolve an alert.
Transition(id) ==
  /\ Use
  /\ \E to \in MayBecome(alerts[id].state) : alerts' = SetState(id, to)
  /\ UNCHANGED <<stockVars, due, notices, heard, evalVars>>

-----------------------------------------------------------------------------
WatchInit ==
  /\ config \in Configurations
  /\ stock = InitialStock /\ inbound = [l \in Places |-> 0] /\ rate = [l \in Places |-> 0]
  /\ alerts = <<>> /\ due = {} /\ notices = {} /\ heard = {}
  /\ runs = [e \in Evaluators |-> NotRunning] /\ loop = "rest"
  /\ used = 0

Evaluate(e) ==
  ReadConfig(e) \/ ReadFigure(e) \/ ClearAlert(e) \/ RefreshAlert(e) \/ MissAlert(e)
    \/ OpenAlert(e) \/ InsertRefused(e)
Loop == LoopTick \/ LoopEvaluated \/ Escalate \/ Deliver
Venue ==
  \/ \E place \in Places : Sale(place) \/ Quiet(place) \/ Receive(place) \/ CloseCount(place)
  \/ \E source, place \in Places : Dispatch(source, place)
  \/ Install
  \/ \E id \in DOMAIN alerts : FallsDue(id) \/ Transition(id)

WatchNext ==
  \/ Venue \/ Loop
  \/ \E e \in Evaluators : Evaluate(e)

\* The loop's timer fires every 30 seconds; an evaluation that has begun runs on.
WatchFairness == WF_watchVars(Loop) /\ \A e \in Evaluators : WF_watchVars(Evaluate(e))

WatchSpec == WatchInit /\ [][WatchNext]_watchVars /\ WatchFairness

-----------------------------------------------------------------------------
\* Types.
WatchTypeOK ==
  /\ config \in Configurations /\ stock \in [Places -> Int] /\ inbound \in [Places -> Nat]
  /\ rate \in [Places -> Rates] /\ loop \in {"rest", "evaluate", "escalate", "notify"}
  /\ \A id \in DOMAIN alerts : alerts[id].state \in States
  /\ due \subseteq DOMAIN alerts
  /\ notices \cup heard \subseteq (DOMAIN alerts) \X {"opened", "escalation"}
  /\ used \in 0..MaxEvents

\* Two evaluations at once never leave two unresolved alerts of one risk.
OneActiveAlert ==
  \A i, j \in DOMAIN alerts :
    (alerts[i].key = alerts[j].key /\ "RESOLVED" \notin {alerts[i].state, alerts[j].state}) => i = j

\* The risk the present stock really runs at a place, and in all.
Present(place) ==
  LET risk == LocalRisk(stock[place], rate[place]) IN IF risk = "NONE" THEN {} ELSE {risk}
Short ==
  SumFunction(stock) + SumFunction(inbound) - WideSafety
    < RoundUp(SumFunction(rate) * Remaining, Window)
Unresolved(type, place) ==
  \E id \in DOMAIN alerts : alerts[id].key = Key(type, place) /\ alerts[id].state # "RESOLVED"
\* Once the stock stands still, a watched place has exactly the alert of its
\* present risk unresolved and the event has the shortage it really faces,
\* whatever two evaluations at once had read, written and abandoned before.
AlertsSettle ==
  <>[](/\ \A place \in ToSet(config.watched) :
            {type \in ToSet(LocalTypes) : Unresolved(type, place)} = Present(place)
       /\ config.watched # <<>> => (Unresolved("EVENT_WIDE_STOCKOUT_RISK", Wide) <=> Short))

\* An alert nobody reacts to is escalated to a person, and that person hears it.
UnansweredIsEscalated ==
  (1 \in DOMAIN alerts /\ 1 \in due /\ alerts[1].state = "OPEN")
    ~> (1 \in DOMAIN alerts
        /\ (<<1, "escalation">> \in heard \/ ~config.owned \/ alerts[1].state # "OPEN"))

\* The watch does its work: its alerts come to tell the truth, and are heard.
AlertsDoTheirWork == AlertsSettle /\ UnansweredIsEscalated
=============================================================================
