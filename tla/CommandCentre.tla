--------------------------- MODULE CommandCentre ---------------------------
(***************************************************************************)
(* The command centre: Event Edge queues every change of a stock alert for *)
(* the Cloud, which projects it; operators acknowledge or assign alerts on *)
(* top of the projection; a page in the operator's browser shows the       *)
(* snapshot of the selected event, follows a stream of change notices and  *)
(* falls back to polling.  The page's requests end in any order, and also  *)
(* after the operator has selected another event.                          *)
(***************************************************************************)
EXTENDS Integers, Sequences, FiniteSets

CONSTANTS
  Events, Alerts, Orders, Registers,
  EventOf,          \* the event of an alert or of an order
  PlaceOf, SkuOf, RegisterOf,   \* of an order: sales location, SKU, register
  FirstRoster,      \* the event each register serves at the start
  None,             \* no event, no answer
  MaxCentreEvents   \* bound: changes, operators' and browser's actions, failures

ASSUME CommandCentreAssumption ==
  /\ EventOf \in [Alerts \cup Orders -> Events] /\ DOMAIN PlaceOf = Orders /\ DOMAIN SkuOf = Orders
  /\ RegisterOf \in [Orders -> Registers] /\ FirstRoster \in [Registers -> Events]
  /\ None \notin Events /\ MaxCentreEvents \in Nat

VARIABLES
  venue,            \* edge_inventory_alerts: the state of each alert
  changes,          \* edge_inventory_cloud_outbox, in order of created_at
  delivered, later, tried, flight,   \* what the forwarder knows of its rows
  stored,           \* inventory_edge_events
  shown,            \* inventory_alert_projection: the change each alert shows
  control,          \* command_centre_inventory_alert_control
  closed, attempt,  \* closed orders; the latest attempt of an order's payment
  roster, lively,   \* the event of each register; those seen since, and recently
  context,          \* the selected event, in the browser's session storage
  active, view,     \* the event the page is live on, and the snapshot it shows
  mode, failed,     \* the page's realtime mode, and whether it shows an error
  stream, news, awaiting,  \* the page's stream, a notice on its way, its reader
  fetches,          \* snapshot requests under way, by cause and event
  blind,            \* history: something no notice tells of, since the last one
  acting,           \* the alert action the page has under way
  used              \* how much of the bound is used up

alertVars == <<venue, changes>>
wireVars == <<delivered, later, tried, flight>>
tradeVars == <<closed, attempt, roster, lively>>
cloudVars == <<stored, shown, control, tradeVars>>
pageVars == <<context, active, view, mode, failed, stream, awaiting, fetches, acting>>
noticeVars == <<news, blind>>
centreVars == <<alertVars, wireVars, cloudVars, pageVars, noticeVars, used>>

Use == used < MaxCentreEvents /\ used' = used + 1
Sections == {"sales", "locations", "products", "payments", "settled", "risks", "tills"}
Causes == {"load", "stream", "poll", "act"}
Statuses == {"NONE", "PENDING", "UNKNOWN", "SUCCEEDED", "FAILED"}

-----------------------------------------------------------------------------
(* What the Cloud knows of an event.                                       *)

Base(a) == IF shown[a] = 0 THEN "NONE" ELSE changes[shown[a]].state

\* An operator's mark counts for the event it was recorded under.
Marked(a, e) == IF control[a].event = e THEN control[a].state ELSE "NONE"

EffectiveState(base, mark) ==
  IF base \in {"NONE", "RESOLVED"} THEN base
  ELSE IF "ASSIGNED" \in {base, mark} THEN "ASSIGNED"
  ELSE IF "ACKNOWLEDGED" \in {base, mark} THEN "ACKNOWLEDGED"
  ELSE base

Of(e, things) == {x \in things : EventOf[x] = e}
Count(e, status) == Cardinality({o \in Of(e, Orders) : attempt[o] = status})

\* The sections of a snapshot, each a statement of its own.  What the page shows
\* of a place's registers is counted from the section of the registers.
Sales(e) == Cardinality(Of(e, closed))
LocationSales(e, place) == Cardinality({o \in Of(e, closed) : PlaceOf[o] = place})
LocationPayments(e, place) ==
  Cardinality({o \in Of(e, Orders) : PlaceOf[o] = place /\ attempt[o] \in {"PENDING", "UNKNOWN"}})
Locations(e) ==
  [place \in {PlaceOf[o] : o \in Orders} |->
     [sold |-> LocationSales(e, place), issues |-> LocationPayments(e, place)]]
LinesSold(e) == {<<o, SkuOf[o]>> : o \in Of(e, closed)}
Products(e) ==
  [sku \in {line[2] : line \in LinesSold(e)} |->
     Cardinality({line \in LinesSold(e) : line[2] = sku})]
Payments(e) == [status \in Statuses \ {"NONE"} |-> Count(e, status)]
Settled(e) == Count(e, "SUCCEEDED")
Risks(e) ==
  LET open == {a \in Of(e, Alerts) : Base(a) \notin {"NONE", "RESOLVED"}}
  IN [a \in open |-> EffectiveState(Base(a), Marked(a, e))]

\* A register that has not been seen since it was put on the event is stale.
Tills(e) ==
  [r \in {r \in Registers : roster[r] = e} |-> IF r \in lively THEN "HEALTHY" ELSE "STALE"]

Snapshot(e) ==
  [sales |-> Sales(e), locations |-> Locations(e), products |-> Products(e),
   payments |-> Payments(e), settled |-> Settled(e), risks |-> Risks(e), tills |-> Tills(e)]

\* The alerts a page offers an action for.
Actionable(content) ==
  {a \in DOMAIN content.risks : content.risks[a] \in {"OPEN", "ACKNOWLEDGED"}}

Watched(e) == stream = "open" /\ active = e /\ ~news
Announce == news' = TRUE /\ blind' = FALSE
Miss == news' = news /\ blind' = TRUE
Silence == news' = FALSE /\ blind' = FALSE

\* The version token of the page's stream after a change of the event: it need
\* not move, being made of counts and of the latest times of the rows.
Noticed(e) == IF Watched(e) THEN Announce \/ Miss ELSE UNCHANGED noticeVars

-----------------------------------------------------------------------------
(* Event Edge: staff and evaluations move alerts on; each write queues a   *)
(* row; the forwarder sends what is due and the Cloud takes it row by row. *)

Rows == DOMAIN changes
MayBecome(from) ==
  CASE from = "NONE" -> {"OPEN"}
    [] from = "OPEN" -> {"OPEN", "ACKNOWLEDGED", "ASSIGNED", "RESOLVED"}
    [] from = "ACKNOWLEDGED" -> {"ACKNOWLEDGED", "ASSIGNED", "RESOLVED"}
    [] from = "ASSIGNED" -> {"ASSIGNED", "RESOLVED"}
    [] OTHER -> {}

\* A refresh of the figures leaves the state; it queues a row as well.
EdgeChange(a) ==
  /\ Use
  /\ \E to \in MayBecome(venue[a]) :
       /\ venue' = [venue EXCEPT ![a] = to]
       /\ changes' = Append(changes, [alert |-> a, state |-> to])
  /\ UNCHANGED <<wireVars, cloudVars, pageVars, noticeVars>>

Send ==
  /\ flight = {} /\ flight' = Rows \ (delivered \cup later) /\ flight' # {}
  /\ UNCHANGED <<alertVars, delivered, later, tried, cloudVars, pageVars, noticeVars, used>>

\* A request runs its rows in order; the rows of one that was given up may
\* still be running.
NextServed(i) ==
  /\ i \in (flight \cup tried) \ stored
  /\ \A j \in flight \ stored : j < i => (j \in tried \/ i \in tried)

FollowsAlways(i) == TRUE
\* The projection follows a row unless it already shows a later change.
Follows(i) == shown[changes[i].alert] <= i

Take(i) ==
  /\ NextServed(i)
  /\ stored' = stored \cup {i}
  /\ LET a == changes[i].alert IN
       IF Follows(i) THEN shown' = [shown EXCEPT ![a] = i] /\ Noticed(EventOf[a])
       ELSE UNCHANGED <<shown, noticeVars>>
  /\ UNCHANGED <<alertVars, wireVars, control, tradeVars, pageVars, used>>

Acknowledged ==
  /\ flight # {} /\ flight \subseteq stored
  /\ delivered' = delivered \cup flight /\ flight' = {}
  /\ UNCHANGED <<alertVars, later, tried, cloudVars, pageVars, noticeVars, used>>

GiveUpForGood ==
  /\ Use
  /\ flight # {} /\ flight' = {} /\ delivered' = delivered \cup flight
  /\ UNCHANGED <<alertVars, later, tried, cloudVars, pageVars, noticeVars>>

\* No answer in five seconds, or an error: every row of the batch is rescheduled.
GiveUp ==
  /\ Use
  /\ flight # {} /\ flight' = {}
  /\ later' = later \cup flight /\ tried' = tried \cup flight
  /\ UNCHANGED <<alertVars, delivered, cloudVars, pageVars, noticeVars>>

FallsDueAgain(i) ==
  /\ i \in later /\ later' = later \ {i}
  /\ UNCHANGED <<alertVars, delivered, tried, flight, cloudVars, pageVars, noticeVars, used>>

-----------------------------------------------------------------------------
(* The Cloud's other sources, and its operators.                           *)

\* The order's register has been seen too, perhaps on the roster of another
\* event, whose token does not cover it.
Close(o) ==
  /\ Use /\ o \notin closed /\ closed' = closed \cup {o}
  /\ lively' = lively \cup {RegisterOf[o]}
  /\ IF Watched(roster[RegisterOf[o]]) /\ roster[RegisterOf[o]] # EventOf[o] THEN Miss
     ELSE Noticed(EventOf[o])
  /\ UNCHANGED <<alertVars, wireVars, stored, shown, control, attempt, roster, pageVars>>

\* The latest attempt of the order's payment moves, or a new one follows a failure.
Attempt(o) ==
  /\ Use
  /\ \E s \in IF attempt[o] \in {"NONE", "FAILED"} THEN {"PENDING"}
              ELSE {"UNKNOWN", "SUCCEEDED", "FAILED"} \ {attempt[o]} :
       attempt[o] # "SUCCEEDED" /\ attempt' = [attempt EXCEPT ![o] = s]
  /\ Noticed(EventOf[o])
  /\ UNCHANGED <<alertVars, wireVars, stored, shown, control, closed, roster, lively, pageVars>>

\* A register sends events that change no figure: it has been seen.
Synchronise(r) ==
  /\ Use /\ lively' = lively \cup {r} /\ Noticed(roster[r])
  /\ UNCHANGED <<alertVars, wireVars, stored, shown, control, closed, attempt, roster, pageVars>>

\* Time passes without a sign of a register; nothing is written.
FallsSilent(r) ==
  /\ Use /\ r \in lively /\ lively' = lively \ {r}
  /\ IF Watched(roster[r]) THEN Miss ELSE UNCHANGED noticeVars
  /\ UNCHANGED <<alertVars, wireVars, stored, shown, control, closed, attempt, roster, pageVars>>

\* A register moves to another event; the roster has a stream of its own.
MoveRegister(r, e) ==
  /\ Use /\ e # roster[r] /\ roster' = [roster EXCEPT ![r] = e] /\ lively' = lively \ {r}
  /\ IF Watched(e) \/ Watched(roster[r]) THEN Announce ELSE UNCHANGED noticeVars
  /\ UNCHANGED <<alertVars, wireVars, stored, shown, control, closed, attempt, pageVars>>

FoundAnywhere(a, e) == Base(a) # "NONE"
\* The alert an action names is looked up together with the event it names.
Found(a, e) == EventOf[a] = e /\ Base(a) # "NONE"

Allowed(a, e, to) ==
  LET before == EffectiveState(Base(a), Marked(a, EventOf[a])) IN
  Found(a, e) /\ before # "RESOLVED" /\ ~(to = "ACKNOWLEDGED" /\ before = "ASSIGNED")

Record(a, e, to) ==
  /\ control' = [control EXCEPT ![a] = [state |-> to, event |-> e]]
  /\ Noticed(e)
  /\ UNCHANGED <<stored, shown, tradeVars>>

\* Another operator's page.
OthersAct(a, to) ==
  /\ Use /\ Allowed(a, EventOf[a], to) /\ Record(a, EventOf[a], to)
  /\ UNCHANGED <<alertVars, wireVars, pageVars>>

-----------------------------------------------------------------------------
(* The page.  A request for a snapshot remembers what the Cloud held when  *)
(* it began: each of its statements reads then or later.                   *)

NotAsked(f) == fetches[f] = None
Asked(f) == [stage |-> "reading", content |-> Snapshot(f[2])]
Ask(f) == NotAsked(f) /\ fetches' = [fetches EXCEPT ![f] = Asked(f)]

BlankKeepingStream(e) ==
  /\ context' = e /\ active' = None /\ view' = None /\ mode' = "IDLE" /\ failed' = FALSE
  /\ UNCHANGED <<stream, awaiting, noticeVars, alertVars, wireVars, cloudVars, acting>>

Blank(e) ==
  /\ context' = e /\ active' = None /\ view' = None /\ mode' = "IDLE" /\ failed' = FALSE
  /\ stream' = "closed" /\ awaiting' = FALSE /\ Silence
  /\ UNCHANGED <<alertVars, wireVars, cloudVars, acting>>

\* Another event is selected: everything shown is dropped and it is loaded.
Select(e) ==
  /\ Use /\ e # context /\ Ask(<<"load", e>>) /\ Blank(e)

\* Only a name in the selection changes: dropped as well, and nothing loads.
Rename ==
  /\ Use /\ context # None /\ Blank(context) /\ UNCHANGED fetches

Retry ==
  /\ view = None /\ failed /\ Ask(<<"load", context>>)
  /\ UNCHANGED <<alertVars, wireVars, cloudVars, context, active, view, mode, failed, stream,
                 awaiting, acting, noticeVars, used>>

\* Each statement of the snapshot reads on its own.
AnswerSnapshot(f) ==
  /\ ~NotAsked(f) /\ fetches[f].stage = "reading"
  /\ LET first == fetches[f].content
         last == Snapshot(f[2])
     IN \E early \in SUBSET {s \in Sections : first[s] # last[s]} :
          fetches' = [fetches EXCEPT ![f] =
            [stage |-> "answered",
             content |-> [s \in Sections |-> IF s \in early THEN first[s] ELSE last[s]]]]
  /\ UNCHANGED <<alertVars, wireVars, cloudVars, context, active, view, mode, failed, stream,
                 awaiting, acting, noticeVars, used>>

Current == [event |-> active, content |-> Snapshot(active)]

\* The answer is shown whatever is selected by then; a load makes its event
\* the active one, which aborts the stream there was and opens another.
SnapshotArrives(f) ==
  /\ ~NotAsked(f) /\ fetches[f].stage = "answered"
  /\ view' = [event |-> f[2], content |-> fetches[f].content] /\ failed' = FALSE
  /\ fetches' = [fetches EXCEPT ![f] = None]
  /\ IF f[1] = "load"
       THEN /\ active' = f[2] /\ mode' = "CONNECTING" /\ stream' = "opening"
            /\ awaiting' = FALSE /\ Silence
       ELSE /\ awaiting' = (awaiting /\ f # <<"stream", active>>)
            /\ blind' = (blind \/ (Watched(active) /\ ~awaiting /\ view' # Current))
            /\ UNCHANGED <<active, mode, stream, news>>
  /\ acting' = IF f[1] = "act" THEN None ELSE acting
  /\ UNCHANGED <<alertVars, wireVars, cloudVars, context, used>>

AfterFailureIdle == "IDLE"
\* nextRealtimeMode(current, 'STREAM_FAILED')
AfterFailure == IF mode = "IDLE" THEN "IDLE" ELSE "POLLING"
StreamFails == stream' = "closed" /\ mode' = AfterFailure /\ awaiting' = FALSE /\ Silence

\* A request fails.  The error of a poll is dropped, and so is that of a
\* stream which has been aborted.
Fail(f) ==
  /\ Use /\ ~NotAsked(f) /\ fetches' = [fetches EXCEPT ![f] = None]
  /\ IF awaiting /\ f = <<"stream", active>> THEN StreamFails
     ELSE UNCHANGED <<stream, mode, awaiting, noticeVars>>
  /\ failed' = (failed \/ f[1] \in {"load", "act"})
  /\ acting' = IF f[1] = "act" THEN None ELSE acting
  /\ UNCHANGED <<alertVars, wireVars, cloudVars, context, active, view>>

\* The stream answers; its first check of the token always sends a notice.
OpenStream ==
  /\ stream = "opening" /\ stream' = "open" /\ mode' = "LIVE" /\ Announce
  /\ UNCHANGED <<alertVars, wireVars, cloudVars, context, active, view, failed, awaiting, fetches,
                 acting, used>>

BreakStream ==
  /\ Use /\ stream \in {"opening", "open"} /\ ~awaiting /\ StreamFails
  /\ UNCHANGED <<alertVars, wireVars, cloudVars, context, active, view, failed, fetches, acting>>

\* One notice at a time: the reader waits for the snapshot of the last.
FollowNotice ==
  /\ stream = "open" /\ news /\ ~awaiting /\ Ask(<<"stream", active>>)
  /\ awaiting' = TRUE /\ Silence
  /\ UNCHANGED <<alertVars, wireVars, cloudVars, context, active, view, mode, failed, stream,
                 acting, used>>

Poll ==
  /\ active # None /\ mode = "POLLING" /\ Ask(<<"poll", active>>)
  /\ UNCHANGED <<alertVars, wireVars, cloudVars, context, active, view, mode, failed, stream,
                 awaiting, acting, noticeVars, used>>

\* The operator acts on an alert the page shows, for the event it is live on.
ActOnShown(a, to) ==
  /\ Use /\ acting = None /\ active # None /\ view # None
  /\ a \in Actionable(view.content)
  /\ to = "ACKNOWLEDGED" => view.content.risks[a] = "OPEN"
  /\ acting' = [alert |-> a, to |-> to, event |-> active, done |-> FALSE]
  /\ UNCHANGED <<alertVars, wireVars, cloudVars, context, active, view, mode, failed, stream,
                 awaiting, fetches, noticeVars>>

Serve ==
  /\ acting # None /\ ~acting.done
  /\ IF Allowed(acting.alert, acting.event, acting.to)
       THEN /\ Record(acting.alert, acting.event, acting.to)
            /\ acting' = [acting EXCEPT !.done = TRUE] /\ UNCHANGED failed
       ELSE acting' = None /\ failed' = TRUE /\ UNCHANGED <<cloudVars, noticeVars>>
  /\ UNCHANGED <<alertVars, wireVars, context, active, view, mode, stream, awaiting, fetches, used>>

\* The page then asks for the snapshot of the event it acted for.
AskAfterAct ==
  /\ acting # None /\ acting.done /\ Ask(<<"act", acting.event>>)
  /\ UNCHANGED <<alertVars, wireVars, cloudVars, context, active, view, mode, failed, stream,
                 awaiting, acting, noticeVars, used>>

-----------------------------------------------------------------------------
CentreInit ==
  /\ venue = [a \in Alerts |-> "NONE"] /\ changes = <<>>
  /\ delivered = {} /\ later = {} /\ tried = {} /\ flight = {} /\ stored = {}
  /\ shown = [a \in Alerts |-> 0]
  /\ control = [a \in Alerts |-> [state |-> "NONE", event |-> None]]
  /\ closed = {} /\ attempt = [o \in Orders |-> "NONE"]
  /\ roster = FirstRoster /\ lively = {}
  /\ context \in Events \cup {None}
  /\ active = None /\ view = None /\ mode = "IDLE" /\ failed = FALSE
  /\ stream = "closed" /\ news = FALSE /\ blind = FALSE /\ awaiting = FALSE /\ acting = None
  /\ fetches = [f \in Causes \X Events |-> IF f = <<"load", context>> THEN Asked(f) ELSE None]
  /\ used = 0

Forward == Send \/ Acknowledged \/ (\E i \in Rows : FallsDueAgain(i))
Request(f) == AnswerSnapshot(f) \/ SnapshotArrives(f)
Actions == {"ACKNOWLEDGED", "ASSIGNED"}

CentreNext ==
  \/ \E a \in Alerts : EdgeChange(a)
  \/ Forward \/ GiveUp \/ (\E i \in Rows : Take(i))
  \/ \E o \in Orders : Close(o) \/ Attempt(o)
  \/ \E r \in Registers :
       Synchronise(r) \/ FallsSilent(r) \/ (\E e \in Events : MoveRegister(r, e))
  \/ \E a \in Alerts, to \in Actions : OthersAct(a, to) \/ ActOnShown(a, to)
  \/ \E e \in Events : Select(e)
  \/ Rename \/ Retry \/ OpenStream \/ BreakStream \/ FollowNotice \/ Poll \/ Serve \/ AskAfterAct
  \/ \E f \in Causes \X Events : Request(f) \/ Fail(f)

\* The forwarder's timer runs every second, a rescheduled row falls due, the
\* rows of a request that is not given up are taken; a request of the page that
\* does not fail is answered and polls are repeated.
CentreFairness ==
  /\ WF_centreVars(Send) /\ WF_centreVars(Acknowledged)
  /\ WF_centreVars(\E i \in flight : Take(i)) /\ WF_centreVars(\E i \in Rows : FallsDueAgain(i))
  /\ WF_centreVars(OpenStream) /\ WF_centreVars(FollowNotice) /\ WF_centreVars(Poll)
  /\ WF_centreVars(Serve) /\ WF_centreVars(AskAfterAct)
  /\ \A f \in Causes \X Events : WF_centreVars(Request(f))

CentreSpec == CentreInit /\ [][CentreNext]_centreVars /\ CentreFairness

-----------------------------------------------------------------------------
\* Types; the page reads its stream only while it is live on an event.
CentreTypeOK ==
  /\ \A a \in Alerts : venue[a] \in {"NONE", "OPEN", "ACKNOWLEDGED", "ASSIGNED", "RESOLVED"}
                    /\ shown[a] \in 0..Len(changes)
                    /\ control[a].state \in {"NONE"} \cup Actions
                    /\ control[a].event \in Events \cup {None}
  /\ delivered \cup later \cup tried \cup flight \cup stored \subseteq Rows
  /\ closed \subseteq Orders /\ attempt \in [Orders -> Statuses]
  /\ roster \in [Registers -> Events] /\ lively \subseteq Registers
  /\ {context, active} \subseteq Events \cup {None}
  /\ mode \in {"IDLE", "CONNECTING", "LIVE", "POLLING"}
  /\ stream \in {"closed", "opening", "open"} /\ {failed, news, awaiting, blind} \subseteq BOOLEAN
  /\ (stream # "closed" => active # None) /\ (awaiting => stream = "open")
  /\ (mode = "LIVE") = (stream = "open")
  /\ DOMAIN fetches = Causes \X Events

Rank(state) == CASE state = "NONE" -> 0 [] state = "OPEN" -> 1 [] state = "ACKNOWLEDGED" -> 2
                 [] state = "ASSIGNED" -> 3 [] OTHER -> 4
\* What the command centre holds of an alert only moves forward, however the
\* rows of the Edge, late and retried, and the operators' actions interleave.
HeldNeverGoesBack ==
  [][\A a \in Alerts : LET held == Rank(EffectiveState(Base(a), Marked(a, EventOf[a])))
                       IN held <= held']_centreVars

\* The Cloud finally holds every alert as the venue has it.
CloudCatchesUp == <>[](\A a \in Alerts : Base(a) = venue[a])

\* A page may show one event while it is live on another; even so an action is
\* recorded only for an alert of the event it was sent for.
ActedOnOwnEvent == \A a \in Alerts : control[a].state # "NONE" => control[a].event = EventOf[a]

\* A page that has an event finally follows its stream or polls, and finally
\* shows the event as the Cloud has it.  Only a page on its stream may stay
\* behind, with what the token does not tell: a change that left the token as
\* it was, a register that fell silent, an answer overtaken by a newer one.
ShownIsCurrent ==
  <>[](active # None => /\ mode \in {"LIVE", "POLLING"}
                        /\ view = [event |-> active, content |-> Snapshot(active)] \/ blind)

\* The venue's alerts come to the Cloud, and the Cloud's event to the page.
CentreCatchesUp == CloudCatchesUp /\ ShownIsCurrent

\* Once no more selections and answers come, the event the page is live on, to
\* which its alert actions go, is the selected one.
SettlesOnSelected == <>[](active \in {None, context})
=============================================================================
