----------------------------- MODULE CloudSync -----------------------------
(***************************************************************************)
(* Event Edge and the Cloud.  Edge keeps the events of its registers in a  *)
(* durable outbox.  One forwarder at a time takes a batch of due rows,     *)
(* sends it with a status of every register in it and with the roster of   *)
(* all registers, and marks the rows delivered when the Cloud's answer     *)
(* covers the batch exactly; otherwise the rows are due again after a      *)
(* random delay.  The Cloud records every event once and folds the events  *)
(* of an order into one projection of it.                                  *)
(*                                                                         *)
(* A row that failed once comes back at a random time, so rows of one      *)
(* register reach the Cloud in any order.  A request the forwarder has     *)
(* given up may still arrive.  Edge may be restarted at any moment.        *)
(*                                                                         *)
(* An event is <<register, sequence>>; Edge holds one envelope per event   *)
(* and never changes it (module DeviceSync), so a repeated envelope is     *)
(* always the same one, and an order belongs to one register.  Events of   *)
(* payment attempts are recorded and not folded; they are left out.        *)
(***************************************************************************)
EXTENDS Integers, FiniteSets, SequencesExt

CONSTANTS
  Devices,        \* the registers of this Edge
  MaxSeq,         \* bound on the events of a register
  BatchSize,      \* drainOnce's limit (100 in the code)
  Locations,      \* the sales locations a register sells at
  MovesOrders,    \* may an order name two locations (legacy repair)?
  MaxLate,        \* bound on given-up requests still on their way
  MaxAssignments  \* bound on changes of a register's assignment

ASSUME CloudSyncAssumption ==
  /\ IsFiniteSet(Devices)
  /\ {MaxSeq, MaxLate, MaxAssignments} \subseteq Nat
  /\ BatchSize \in Nat \ {0}
  /\ MovesOrders \in BOOLEAN

Rows    == Devices \X (1..MaxSeq)
Orders  == Devices \X (1..MaxSeq)    \* the n-th order of a register
Types   == {"CHANGED", "CLOSED_CASH", "CLOSED_PROVIDER"}
NoOrder == [last |-> 0, type |-> "CHANGED", location |-> "none"]
Event   == [order : 1..MaxSeq, type : Types, location : Locations]

VARIABLES
  (* Event Edge's database *)
  log,         \* edge_processed_device_events, by register and sequence
  delivered,   \* rows of edge_cloud_outbox with delivered_at
  failed,      \* rows with attempts > 0
  noted,       \* events with a CLOUD_RECONCILIATION_REQUIRED exception
  assigned,    \* edge_pos_devices, as the number of its last change
  (* Event Edge's process *)
  forwarder,   \* where drainOnce stands
  (* the network *)
  request,     \* the request the forwarder waits for, at most one
  late,        \* given-up requests that may still reach the Cloud
  reply,       \* its answer on the way back, at most one
  (* the Cloud's database *)
  processed,   \* sync_processed_events
  exceptions,  \* events with a row in sync_reconciliation_exceptions
  orders,      \* sync_order_state
  status,      \* sync_device_state: last_sequence_seen, edge_backlog_count
  roster,      \* cloud_pos_device_roster.source_updated_at
  known        \* the assignments whose event and location the Cloud has

outboxVars  == <<delivered, failed, noted>>
networkVars == <<request, late, reply>>
eventVars   == <<processed, exceptions, orders, status>>
cloudVars   == <<eventVars, roster, known>>
vars == <<log, outboxVars, assigned, forwarder, networkVars, cloudVars>>

Resting == [pc |-> "idle", rows |-> <<>>]
Batch   == forwarder.rows

Init ==
  /\ log = [d \in Devices |-> <<>>]
  /\ delivered = {} /\ failed = {} /\ noted = {}
  /\ assigned = [d \in Devices |-> 0]
  /\ forwarder = Resting
  /\ request = {} /\ late = {} /\ reply = {}
  /\ processed = {} /\ exceptions = {}
  /\ orders = [o \in Orders |-> NoOrder]
  /\ status = [d \in Devices |-> [seen |-> 0, backlog |-> 0]]
  /\ roster = [d \in Devices |-> 0]
  /\ known = {<<d, 0>> : d \in Devices}

Stored == {r \in Rows : r[2] <= Len(log[r[1]])}
Queued == Stored \ delivered

-----------------------------------------------------------------------------
(* Event Edge: what its registers write                                    *)

StartsOrder(d) == log[d] = <<>> \/ Last(log[d]).type # "CHANGED"

OrderOf(d) ==
  IF log[d] = <<>> THEN 1
  ELSE Last(log[d]).order + (IF StartsOrder(d) THEN 1 ELSE 0)

(* A register's events arrive in sequence (theorem EdgeHoldsAPrefix): an   *)
(* order is opened, changed and closed once.  Its location stays, unless   *)
(* the register repaired the order after Edge had stored its first events. *)
StoreEvent(d) ==
  /\ Len(log[d]) < MaxSeq
  /\ \E t \in Types, l \in Locations :
       /\ StartsOrder(d) => t = "CHANGED"
       /\ ~StartsOrder(d) /\ ~MovesOrders => l = Last(log[d]).location
       /\ log' = [log EXCEPT ![d] =
                    Append(@, [order |-> OrderOf(d), type |-> t, location |-> l])]
  /\ UNCHANGED <<outboxVars, assigned, forwarder, networkVars, cloudVars>>

(* manage-pos-device.mjs provision, reassign and revoke.                   *)
ChangeAssignment(d) ==
  /\ assigned[d] < MaxAssignments
  /\ assigned' = [assigned EXCEPT ![d] = @ + 1]
  /\ UNCHANGED <<log, outboxVars, forwarder, networkVars, cloudVars>>

-----------------------------------------------------------------------------
(* Event Edge: the forwarder                                               *)

NeverFailedBatch(b) ==   \* mutant: a row that failed is not tried again
  /\ b # <<>>
  /\ IsInjective(b)
  /\ ToSet(b) \cap failed = {}

(* Rows that never failed are due in the order they were stored; rows that *)
(* failed are due at any time.  A batch that is not full has all the due   *)
(* ones.                                                                   *)
DueBatch(b) ==
  /\ b # <<>>
  /\ IsInjective(b)
  /\ \A i \in DOMAIN b : \A r \in Queued \ failed :
       r[1] = b[i][1] /\ r[2] < b[i][2] /\ b[i] \notin failed
         => \E j \in 1..(i - 1) : b[j] = r
  /\ Len(b) < BatchSize => Queued \ failed \subseteq ToSet(b)

SelectRows ==
  /\ forwarder.pc = "idle"
  /\ \E b \in BoundedSeq(Queued, BatchSize) :
       /\ DueBatch(b)
       /\ forwarder' = [pc |-> "selected", rows |-> b]
  /\ UNCHANGED <<log, outboxVars, assigned, networkVars, cloudVars>>

BacklogOf(d) == Cardinality({r \in Queued : r[1] = d})

StatusOfNext(d) ==   \* mutant: the next sequence for the highest one
  [seen |-> Len(log[d]) + 1, backlog |-> BacklogOf(d)]

StatusOf(d) == [seen |-> Len(log[d]), backlog |-> BacklogOf(d)]

DevicesOf(b) == {r[1] : r \in ToSet(b)}

(* The statuses and the roster are read after the rows, in queries of      *)
(* their own.                                                              *)
SendBatch ==
  /\ forwarder.pc = "selected"
  /\ forwarder' = [forwarder EXCEPT !.pc = "sending"]
  /\ request' = {[rows     |-> Batch,
                  statuses |-> [d \in DevicesOf(Batch) |-> StatusOf(d)],
                  roster   |-> assigned]}
  /\ UNCHANGED <<log, outboxVars, assigned, late, reply, cloudVars>>

RosterDueWithSales == Queued # {}   \* mutant: no sales, no roster

RosterDue == Queued = {}

(* With an empty backlog the roster is sent alone, now and then.           *)
SendRoster ==
  /\ forwarder.pc = "idle"
  /\ RosterDue
  /\ forwarder' = [pc |-> "sending", rows |-> <<>>]
  /\ request' = {[rows |-> <<>>, statuses |-> <<>>, roster |-> assigned]}
  /\ UNCHANGED <<log, outboxVars, assigned, late, reply, cloudVars>>

(* The answer covers the batch: its rows are delivered, and each conflict  *)
(* it names becomes an exception at Edge, in one transaction.              *)
HandleReply ==
  /\ forwarder.pc = "sending"
  /\ \E conflicts \in reply : noted' = noted \cup conflicts
  /\ delivered' = delivered \cup ToSet(Batch)
  /\ failed' = failed \ ToSet(Batch)
  /\ forwarder' = Resting
  /\ reply' = {}
  /\ UNCHANGED <<log, assigned, request, late, cloudVars>>

FailedAreDropped ==   \* mutant: a failed row is taken for a delivered one
  delivered \cup ToSet(Batch)

KeptAfterFailure == delivered

(* The request that is abandoned is lost or arrives later.                 *)
AbandonRequest ==
  /\ reply' = {}
  /\ request' = {}
  /\ \/ late' = late
     \/ late' = late \cup request /\ Cardinality(late') <= MaxLate

(* No answer within the timeout, or an error: the rows are due again later *)
(* (the roster alone is simply sent again).                                *)
SendFails ==
  /\ forwarder.pc = "sending"
  /\ failed' = failed \cup ToSet(Batch)
  /\ delivered' = KeptAfterFailure
  /\ forwarder' = Resting
  /\ AbandonRequest
  /\ UNCHANGED <<log, noted, assigned, cloudVars>>

(* Edge is restarted, at any point of drainOnce.                           *)
RestartEdge ==
  /\ forwarder.pc # "idle"
  /\ forwarder' = Resting
  /\ AbandonRequest
  /\ UNCHANGED <<log, outboxVars, assigned, cloudVars>>

-----------------------------------------------------------------------------
(* The Cloud                                                               *)

EventOf(r) == log[r[1]][r[2]]

Closed(order) == order.type # "CHANGED"

NothingIsLate(current, r) == FALSE   \* mutant: no comparison with last_sequence

(* An event that is not newer than the projection is taken and left out.   *)
IgnoresLate(current, r) == current.last >= r[2]

DisagreesWithAnyChange(current, event) ==   \* mutant: advances only from one state to another
  /\ current # NoOrder
  /\ \/ current.location # event.location
     \/ current.type = event.type

(* Checks of applyOrder on an event that is newer than the projection:     *)
(* another location, another way of closing, or a closed order reopened.   *)
Disagrees(current, event) ==
  /\ current # NoOrder
  /\ \/ current.location # event.location
     \/ Closed(current) /\ current.type # event.type

(* One event of a batch, applied to the projection.                        *)
Applied(acc, r) ==
  LET event   == EventOf(r)
      o       == <<r[1], event.order>>
      current == acc.orders[o]
  IN  IF IgnoresLate(current, r) THEN acc
      ELSE IF Disagrees(current, event)
        THEN [acc EXCEPT !.conflicts = @ \cup {r}]
        ELSE [acc EXCEPT !.orders[o] =
                [last |-> r[2], type |-> event.type, location |-> event.location]]

(* ingest's loop, after each of its events.  An event seen before is a     *)
(* duplicate and is not applied again.                                     *)
FoldOf(b) ==
  LET fold[i \in 0..Len(b)] ==
        IF i = 0 THEN [orders |-> orders, conflicts |-> {}]
        ELSE IF b[i] \in processed THEN fold[i - 1]
        ELSE Applied(fold[i - 1], b[i])
  IN  fold

Folded(b) == FoldOf(b)[Len(b)]

Larger(m, n) == IF m < n THEN n ELSE m

DeliveredOf(b, d) == Cardinality({r \in ToSet(b) : r[1] = d})

BacklogAsSent(b, d, backlog) == backlog   \* mutant: the batch is still counted

(* withPostDeliveryStatus: the batch itself is no longer backlog.          *)
BacklogAfter(b, d, backlog) == Larger(0, backlog - DeliveredOf(b, d))

(* Sequences only rise; the backlog is the last one received.              *)
MergedStatus(q) ==
  [d \in Devices |->
     IF d \in DOMAIN q.statuses
     THEN [seen    |-> Larger(status[d].seen, q.statuses[d].seen),
           backlog |-> BacklogAfter(q.rows, d, q.statuses[d].backlog)]
     ELSE status[d]]

LastRoster(q) == q.roster   \* mutant: no comparison of source_updated_at

(* A newer assignment replaces an older one, never the reverse.            *)
MergedRoster(q) == [d \in Devices |-> Larger(roster[d], q.roster[d])]

(* CloudSyncService.ingest, one transaction under the registers' locks.    *)
IngestEvents(q) ==
  /\ processed' = processed \cup ToSet(q.rows)
  /\ orders' = Folded(q.rows).orders
  /\ exceptions' = exceptions \cup Folded(q.rows).conflicts
  /\ status' = MergedStatus(q)

(* A location is created at the Cloud, before or after Edge puts a register *)
(* on it; it is never deleted and never changes its event.                 *)
ConfigureLocation(d) ==
  /\ \E n \in 1..MaxAssignments : <<d, n>> \notin known /\ known' = known \cup {<<d, n>>}
  /\ UNCHANGED <<log, outboxVars, assigned, forwarder, networkVars, eventVars, roster>>

RosterIsKnown(entries) == \A d \in Devices : <<d, entries[d]>> \in known

(* One unknown location refuses the whole request, whatever it carries.    *)
Authorized(q) ==
  /\ RosterIsKnown(q.roster)
  /\ DOMAIN q.statuses \subseteq DevicesOf(q.rows)

CloudRefuses ==
  /\ \E q \in request \cup late :
       ~Authorized(q) /\ request' = request \ {q} /\ late' = late \ {q}
  /\ UNCHANGED <<log, outboxVars, assigned, forwarder, reply, cloudVars>>

(* The roster is stored first, in a transaction of its own; an error after *)
(* it leaves the events out.                                               *)
CloudIngest ==
  /\ \E q \in request :
       /\ Authorized(q)
       /\ roster' = MergedRoster(q)
       /\ IngestEvents(q)
       /\ reply' = {Folded(q.rows).conflicts}
  /\ request' = {}
  /\ UNCHANGED <<log, outboxVars, assigned, forwarder, late, known>>

CloudIngestLate ==
  /\ \E q \in late :
       /\ Authorized(q)
       /\ roster' = MergedRoster(q)
       /\ IngestEvents(q)
       /\ late' = late \ {q}
  /\ UNCHANGED <<log, outboxVars, assigned, forwarder, request, reply, known>>

CloudIngestFails ==
  /\ \E q \in request : Authorized(q) /\ roster' = MergedRoster(q)
  /\ request' = {}
  /\ UNCHANGED <<log, outboxVars, assigned, forwarder, late, reply, eventVars, known>>

-----------------------------------------------------------------------------
Next ==
  \/ \E d \in Devices : StoreEvent(d) \/ ChangeAssignment(d) \/ ConfigureLocation(d)
  \/ SelectRows \/ SendBatch \/ SendRoster \/ HandleReply \/ SendFails \/ RestartEdge
  \/ CloudIngest \/ CloudIngestLate \/ CloudIngestFails \/ CloudRefuses

Spec == Init /\ [][Next]_vars

(* The forwarder's timer keeps firing, and the connection does not fail on *)
(* every attempt: requests that keep being made are answered in time again *)
(* and again.                                                              *)
Fairness ==
  /\ WF_vars(SelectRows) /\ WF_vars(SendBatch) /\ WF_vars(SendRoster)
  /\ WF_vars(SendFails)
  /\ SF_vars(SendBatch) /\ SF_vars(SendRoster)
  /\ SF_vars(CloudIngest) /\ SF_vars(HandleReply)

FairSpec == Spec /\ Fairness

-----------------------------------------------------------------------------
(* Properties                                                              *)

Counts == [seen : 0..MaxSeq, backlog : 0..MaxSeq]
Roster == [Devices -> 0..MaxAssignments]

(* A request carries stored events, the status of their registers, and the *)
(* roster.                                                                 *)
RequestOK(q) ==
  /\ q.rows \in Seq(Stored)
  /\ q.statuses \in [DevicesOf(q.rows) -> Counts]
  /\ q.roster \in Roster

(* Types; every event in the outbox, the Cloud and their exceptions is one *)
(* that Edge stored.                                                       *)
TypeOK ==
  /\ log \in [Devices -> Seq(Event)] /\ \A d \in Devices : Len(log[d]) <= MaxSeq
  /\ delivered \subseteq Stored /\ failed \subseteq Stored /\ noted \subseteq Stored
  /\ assigned \in Roster /\ roster \in Roster
  /\ forwarder \in [pc : {"idle", "selected", "sending"}, rows : Seq(Stored)]
  /\ \A q \in request \cup late : RequestOK(q)
  /\ \A conflicts \in reply : conflicts \subseteq Stored
  /\ Cardinality(request) + Cardinality(reply) <= 1 /\ Cardinality(late) <= MaxLate
  /\ processed \subseteq Stored /\ exceptions \subseteq processed
  /\ orders \in [Orders -> [last : 0..MaxSeq, type : Types, location : Locations \cup {"none"}]]
  /\ status \in [Devices -> Counts]
  /\ known \subseteq Devices \X (0..MaxAssignments)

(* What Edge gives up resending, the Cloud has: whatever is lost, delayed, *)
(* refused or restarted, delivered_at is only set on events the Cloud has  *)
(* recorded.                                                               *)
DeliveredIsProcessed == delivered \subseteq processed

EventsOf(o) == {r \in processed \ exceptions : r[1] = o[1] /\ EventOf(r).order = o[2]}

(* The projection of an order is the latest of its events the Cloud has    *)
(* taken, in whatever order, however often and in whatever batches they    *)
(* came: late and repeated events do not take it back, and a closing event *)
(* is either in it or in an exception.                                     *)
ProjectionIsLatest ==
  \A o \in Orders :
    LET taken == EventsOf(o) IN
    IF taken = {} THEN orders[o] = NoOrder
    ELSE /\ <<o[1], orders[o].last>> \in taken
         /\ \A r \in taken : r[2] <= orders[o].last
         /\ orders[o].type = EventOf(<<o[1], orders[o].last>>).type
         /\ orders[o].location = EventOf(<<o[1], orders[o].last>>).location

(* Resending, reordering and restarting never look like a conflict: only   *)
(* an order that really names two locations raises an exception.           *)
ConflictsComeFromMoves ==
  \A r \in exceptions :
    \E s \in processed : /\ s[1] = r[1] /\ EventOf(s).order = EventOf(r).order
                         /\ EventOf(s).location # EventOf(r).location

(* The Cloud's orders are the venue's, and nothing is given up too early.  *)
ProjectionIsSound == DeliveredIsProcessed /\ ProjectionIsLatest /\ ConflictsComeFromMoves

(* A closed order is never reopened at the Cloud or closed another way,    *)
(* and neither its sequence nor a register's sequence or assignment is     *)
(* taken back by an older request.                                         *)
CloudNeverGoesBack ==
  [][ /\ \A o \in Orders : /\ orders'[o].last >= orders[o].last
                           /\ Closed(orders[o]) => orders'[o].type = orders[o].type
      /\ \A d \in Devices : status'[d].seen >= status[d].seen /\ roster'[d] >= roster[d] ]_vars

AtRest == forwarder.pc = "idle" /\ request = {}

(* docs/EDGE_FIELD_DIAGNOSTICS.md: a backlog drains to zero.  Unless a       *)
(* request that was given up arrives late (the count is then taken from    *)
(* the older request, cloud-sync.service.ts:148), once everything Edge     *)
(* holds has been delivered the Cloud shows every register without one.    *)
BacklogDrains ==
  [](late = {}) => [](AtRest /\ Queued = {} => \A d \in Devices : status[d].backlog = 0)

(* What the Cloud shows of the venue is not taken back, and shows no       *)
(* backlog that has drained.                                               *)
CloudFollowsTheVenue == CloudNeverGoesBack /\ BacklogDrains

(* Once a conflict's event counts as delivered, Edge has an exception for  *)
(* it too.  No run checks it: after a lost answer the Cloud calls the      *)
(* refused event a duplicate, and it fails.                                *)
EdgeKnowsTheConflicts == exceptions \cap delivered \subseteq noted

(* Every event Edge stored is eventually delivered.                        *)
EverythingIsDelivered == \A r \in Rows : (r \in Stored) ~> (r \in delivered)

(* An assignment eventually reaches the Cloud, sales or no sales, and no   *)
(* older one that arrives late replaces it.                                *)
AssignmentsReachTheCloud ==
  \A d \in Devices, n \in 1..MaxAssignments : (assigned[d] >= n) ~> [](roster[d] >= n)

(* A request that names a location the Cloud does not have is refused      *)
(* whole, and that holds back the sales of every register of the Edge.     *)
(* Once every register is at a place the Cloud knows, the Cloud catches up *)
(* with the venue's events and assignments.                                *)
CloudCatchesUp ==
  <>[]RosterIsKnown(assigned) => EverythingIsDelivered /\ AssignmentsReachTheCloud
=============================================================================
