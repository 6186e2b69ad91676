----------------------------- MODULE DeviceSync -----------------------------
(***************************************************************************)
(* One register and Event Edge.  The register (Android POS) writes events  *)
(* to a local outbox with a gapless sequence; a background loop sends the  *)
(* events above its acknowledgement watermark in batches and raises the    *)
(* watermark to the one Edge answers.  Edge stores each event once, keeps  *)
(* an accepted watermark per device and refuses an event whose identity it *)
(* has seen with other content.                                            *)
(*                                                                         *)
(* The network between them may lose a request or an answer, delay a       *)
(* request past the register's timeout, and therefore deliver it after a   *)
(* later one.  The register may be killed at any moment.                   *)
(*                                                                         *)
(* An event is identified by its sequence (LocalOutbox creates one         *)
(* instance id per sequence); its content is reduced to the sales location *)
(* its payload names: Edge refuses a batch that names another location     *)
(* than the one the register is assigned to, and the location is the one   *)
(* thing the register ever rewrites (repairLegacyProductionSalesLocation). *)
(* Events of payment attempts name no location and are left out.           *)
(***************************************************************************)
EXTENDS Integers

CONSTANTS
  MaxSeq,          \* bound on the register's sequence
  BatchSize,       \* syncOnce's batch size (50 in the code, 1..100 allowed)
  Absent,          \* no event with this sequence
  Locations,       \* sales locations, the legacy one included
  Legacy,          \* the location old installations used ("dev-main-bar")
  NoLocation,
  LegacyRegister,  \* does the register start with the legacy location?
  SharedMenus,     \* do all locations sell from the same menu?
  MaxReassigns,    \* bound on the administrator's reassignments
  FollowRunbook    \* does he wait until all queued events have converged?

Content    == Locations
Assignable == Locations \ {Legacy}   \* validateAssignment wants a mapped location

ASSUME SyncAssumption ==
  /\ MaxSeq \in Nat
  /\ BatchSize \in Nat \ {0}
  /\ Legacy \in Locations
  /\ {Absent, NoLocation} \cap Locations = {}
  /\ {LegacyRegister, SharedMenus, FollowRunbook} \subseteq BOOLEAN
  /\ MaxReassigns \in Nat

Seqs     == 1..MaxSeq
Events   == [Seqs -> Content \cup {Absent}]
NoEvents == [s \in Seqs |-> Absent]

VARIABLES
  (* the register's database *)
  deviceSequence,  \* device_sequence
  outbox,          \* outbox_events, by sequence
  menuLocation,    \* active_menu_sales_location_id
  openLocation,    \* location of the open order, or NoLocation
  legacyOrders,    \* may pos_orders still name the legacy location?
  watermark,       \* sync_ack_watermark
  (* the register's process *)
  sync,            \* where DeviceSyncEngine.syncOnce stands
  refresh,         \* where MenuRefreshCoordinator.refreshOnce stands
  (* the network *)
  requests,        \* batches that may still reach Edge
  reply,           \* the answer on its way back to the waiting register
  (* Event Edge's process and database *)
  admitted,        \* batches past the controller's authorization
  assignment,      \* edge_pos_devices.sales_location_id
  reassigns,       \* number of reassignments so far
  stored,          \* edge_processed_device_events, by sequence
  blocking,        \* sequences with an unresolved reuse exception
  accepted         \* edge_device_watermarks.accepted_through_sequence

registerVars == <<deviceSequence, outbox, menuLocation, openLocation, legacyOrders, watermark>>
processVars  == <<sync, refresh>>
networkVars  == <<requests, reply>>
adminVars    == <<assignment, reassigns>>
edgeVars     == <<stored, blocking, accepted>>
vars == <<registerVars, processVars, networkVars, admitted, adminVars, edgeVars>>

Idle    == [pc |-> "idle", before |-> 0, highest |-> 0, batch |-> NoEvents]
NoReply == [through |-> -1, conflict |-> FALSE]
Resting == [pc |-> "idle", location |-> NoLocation, watermark |-> 0]

Init ==
  /\ deviceSequence = 0
  /\ outbox = NoEvents
  /\ menuLocation = IF LegacyRegister THEN Legacy ELSE NoLocation
  /\ openLocation = NoLocation
  /\ legacyOrders = LegacyRegister
  /\ watermark = 0
  /\ sync = Idle
  /\ refresh = Resting
  /\ requests = {}
  /\ reply = NoReply
  /\ admitted = {}
  /\ assignment \in IF LegacyRegister THEN {NoLocation} ELSE Assignable
  /\ reassigns = 0
  /\ stored = NoEvents
  /\ blocking = {}
  /\ accepted = 0

-----------------------------------------------------------------------------
(* The register: sales                                                     *)

(* A new order takes the active menu's location and keeps it.              *)
OrderLocation == IF openLocation = NoLocation THEN menuLocation ELSE openLocation

(* Opening an order appends ORDER_OPENED and ORDER_CHANGED, any other step *)
(* one event.                                                              *)
LastSequence == deviceSequence + (IF openLocation = NoLocation THEN 2 ELSE 1)

OutboxWithLastOnly ==   \* mutant: the counter moves by two for one row
  [outbox EXCEPT ![LastSequence] = OrderLocation]

OutboxWithAppended ==
  [s \in Seqs |-> IF s > deviceSequence /\ s <= LastSequence THEN OrderLocation ELSE outbox[s]]

(* addItem, clear and recordCash: the order change, the sequences and the  *)
(* outbox rows are committed in one transaction.                           *)
SaleStep ==
  /\ OrderLocation # NoLocation
  /\ LastSequence <= MaxSeq
  /\ outbox' = OutboxWithAppended
  /\ deviceSequence' = LastSequence
  /\ \/ openLocation' = OrderLocation
     \/ openLocation # NoLocation /\ openLocation' = NoLocation   \* recordCash
  /\ UNCHANGED <<menuLocation, legacyOrders, watermark, processVars, networkVars,
                 admitted, adminVars, edgeVars>>

-----------------------------------------------------------------------------
(* The register: menu refresh and the repair of legacy orders              *)

(* Edge serves a menu only to a register with a location.                  *)
FetchMenu ==
  /\ refresh.pc = "idle"
  /\ assignment # NoLocation
  /\ refresh' = [Resting EXCEPT !.pc = "fetched", !.location = assignment]
  /\ UNCHANGED <<registerVars, sync, networkVars, admitted, adminVars, edgeVars>>

(* The menus of an event are published together and carry equal versions,  *)
(* so LocalMenuStore.install accepts the menu of another location only if  *)
(* its content is the same; a legacy register has its location's menu.     *)
Installable(l) == menuLocation \in {NoLocation, Legacy, l} \/ SharedMenus

InstallMenu ==
  /\ refresh.pc = "fetched"
  /\ \/ /\ Installable(refresh.location)
        /\ menuLocation' = refresh.location
        /\ refresh' = [refresh EXCEPT !.pc = "installed"]
     \/ /\ ~Installable(refresh.location)
        /\ refresh' = Resting
        /\ UNCHANGED menuLocation
  /\ UNCHANGED <<deviceSequence, outbox, openLocation, legacyOrders, watermark, sync,
                 networkVars, admitted, adminVars, edgeVars>>

(* The repair reads the watermark before it opens its transaction ...      *)
RepairRead ==
  /\ refresh.pc = "installed"
  /\ refresh' = [refresh EXCEPT !.pc = "repairing", !.watermark = watermark]
  /\ UNCHANGED <<registerVars, sync, networkVars, admitted, adminVars, edgeVars>>

(* ... in which the legacy orders, and the payloads of their outbox rows   *)
(* above the watermark it read, move to the installed location: all at     *)
(* once, the legacy orders are taken to be of one menu.                    *)
Repaired ==
  [s \in Seqs |-> IF legacyOrders /\ s > refresh.watermark /\ outbox[s] = Legacy
                  THEN refresh.location ELSE outbox[s]]

(* If they are of another version than the installed menu, or the menu is  *)
(* the built-in one, the repair leaves them alone.                         *)
RepairCommit ==
  /\ refresh.pc = "repairing"
  /\ refresh' = Resting
  /\ \/ /\ outbox' = Repaired
        /\ openLocation' = IF openLocation = Legacy THEN refresh.location ELSE openLocation
        /\ legacyOrders' = FALSE
     \/ UNCHANGED <<outbox, openLocation, legacyOrders>>
  /\ UNCHANGED <<deviceSequence, menuLocation, watermark, sync, networkVars,
                 admitted, adminVars, edgeVars>>

-----------------------------------------------------------------------------
(* The register: synchronization                                           *)

(* syncOnce reads the watermark and the highest sequence ...               *)
SyncBegin ==
  /\ sync.pc = "idle"
  /\ sync' = [Idle EXCEPT !.pc = "reading", !.before = watermark, !.highest = deviceSequence]
  /\ UNCHANGED <<registerVars, refresh, networkVars, admitted, adminVars, edgeVars>>

PendingAfterSkips(w) ==   \* mutant: sequence > w + 1
  [s \in Seqs |-> IF s > w + 1 /\ s <= w + BatchSize THEN outbox[s] ELSE Absent]

PendingAfter(w) ==
  [s \in Seqs |-> IF s > w /\ s <= w + BatchSize THEN outbox[s] ELSE Absent]

(* ... and then, in a query of its own, the batch after the watermark.     *)
SendBatch ==
  /\ sync.pc = "reading"
  /\ PendingAfter(sync.before) # NoEvents
  /\ sync' = [sync EXCEPT !.pc = "sending", !.batch = PendingAfter(sync.before)]
  /\ requests' = requests \cup {PendingAfter(sync.before)}
  /\ reply' = NoReply
  /\ UNCHANGED <<registerVars, refresh, admitted, adminVars, edgeVars>>

(* With nothing pending it only asks for Edge's status.                    *)
PollStatus ==
  /\ sync.pc = "reading"
  /\ PendingAfter(sync.before) = NoEvents
  /\ sync' = [sync EXCEPT !.pc = "polling"]
  /\ reply' = NoReply
  /\ UNCHANGED <<registerVars, refresh, requests, admitted, adminVars, edgeVars>>

ReplyIsStrictlyBelow ==   \* mutant: < for <=
  /\ reply.through >= sync.before
  /\ reply.through < sync.highest

ReplyIsValid ==
  /\ reply.through >= sync.before
  /\ reply.through <= sync.highest

RecordedHighest ==   \* mutant: records what it has written, not what Edge accepted
  IF ReplyIsValid THEN sync.highest ELSE watermark

Recorded == IF ReplyIsValid THEN reply.through ELSE watermark

(* The answer: a watermark outside before..highest is an error and changes *)
(* nothing; a valid one is recorded even when a receipt is a conflict (the *)
(* conflict is raised afterwards).                                         *)
HandleReply ==
  /\ sync.pc \in {"sending", "polling"}
  /\ reply # NoReply
  /\ watermark' = Recorded
  /\ sync' = Idle
  /\ reply' = NoReply
  /\ UNCHANGED <<deviceSequence, outbox, menuLocation, openLocation, legacyOrders, refresh,
                 requests, admitted, adminVars, edgeVars>>

(* The connection fails or the five seconds pass: the coordinator starts   *)
(* over.  The request may still be on its way.                             *)
GiveUp ==
  /\ sync.pc \in {"sending", "polling"}
  /\ sync' = Idle
  /\ reply' = NoReply
  /\ UNCHANGED <<registerVars, refresh, requests, admitted, adminVars, edgeVars>>

(* The register's process dies; its database stays.                        *)
KillRegister ==
  /\ sync' = Idle
  /\ refresh' = Resting
  /\ reply' = NoReply
  /\ UNCHANGED <<registerVars, requests, admitted, adminVars, edgeVars>>

-----------------------------------------------------------------------------
(* The network                                                             *)

LoseRequest ==
  /\ \E r \in requests : requests' = requests \ {r}
  /\ UNCHANGED <<registerVars, processVars, reply, admitted, adminVars, edgeVars>>

(* Also an error Edge raises after its transaction: the events are stored  *)
(* and the register does not learn it.                                     *)
LoseReply ==
  /\ reply # NoReply
  /\ reply' = NoReply
  /\ UNCHANGED <<registerVars, processVars, requests, admitted, adminVars, edgeVars>>

-----------------------------------------------------------------------------
(* Event Edge                                                              *)

(* A register without a location is trusted with any.                      *)
Authorised(r) ==
  assignment = NoLocation \/ \A s \in Seqs : r[s] \in {assignment, Absent}

(* The controller authenticates the register and authorizes the batch in   *)
(* statements of their own, before ingest's transaction.  A batch with one *)
(* event of another location is refused as a whole.                        *)
Admit(r) ==
  /\ r \in requests
  /\ Authorised(r)
  /\ admitted' = admitted \cup {r}
  /\ UNCHANGED <<registerVars, processVars, networkVars, adminVars, edgeVars>>

(* manage-pos-device.mjs reassign.                                         *)
Reassign(l) ==
  /\ reassigns < MaxReassigns
  /\ l # assignment
  /\ FollowRunbook => watermark = deviceSequence
  /\ assignment' = l
  /\ reassigns' = reassigns + 1
  /\ UNCHANGED <<registerVars, processVars, networkVars, admitted, edgeVars>>

ReusedByIdentity(r) ==   \* mutant: any event seen before is a conflict
  {s \in Seqs : r[s] # Absent /\ stored[s] # Absent}

(* Identities seen before with another envelope.                           *)
Reused(r) == {s \in Seqs : r[s] # Absent /\ stored[s] # Absent /\ r[s] # stored[s]}

StoredOverwritten(r) ==   \* mutant: ON CONFLICT DO UPDATE
  [s \in Seqs |-> IF r[s] # Absent THEN r[s] ELSE stored[s]]

(* INSERT ... ON CONFLICT DO NOTHING for every event of the batch.         *)
StoredWith(r) == [s \in Seqs |-> IF stored[s] = Absent THEN r[s] ELSE stored[s]]

(* The end of the unbroken run of events in ev that starts after w.        *)
IsDurableEnd(ev, w, d) ==
  /\ \A s \in (w + 1)..d : ev[s] # Absent
  /\ d < MaxSeq => ev[d + 1] = Absent

AcceptsTheBlocked(block, d, a) ==   \* mutant: up to the blocking sequence, not before it
  /\ \A b \in block : a <= b
  /\ a < d => a \in block

(* The part of 1..d below the first blocking sequence.                     *)
IsAcceptedEnd(block, d, a) ==
  /\ \A b \in block : a < b
  /\ a < d => a + 1 \in block

(* DeviceSyncService.ingest: one transaction stores the new events, notes  *)
(* an exception for each reused identity and moves the accepted watermark. *)
(* The watermark row is locked, so two of these never overlap.             *)
EdgeIngest(r) ==
  /\ r \in admitted
  /\ admitted' = admitted \ {r}
  /\ stored' = StoredWith(r)
  /\ blocking' = blocking \cup Reused(r)
  /\ \E d \in accepted..MaxSeq : \E a \in 0..d :
       /\ IsDurableEnd(stored', accepted, d)
       /\ IsAcceptedEnd(blocking', d, a)
       /\ accepted' = a
       /\ reply' = IF sync.pc = "sending" /\ sync.batch = r
                   THEN [through |-> a, conflict |-> Reused(r) # {}]
                   ELSE reply
  /\ UNCHANGED <<registerVars, processVars, requests, adminVars>>

(* DeviceSyncService.status, which carries no receipts.                    *)
EdgeStatus ==
  /\ sync.pc = "polling"
  /\ reply = NoReply
  /\ reply' = [through |-> accepted, conflict |-> FALSE]
  /\ UNCHANGED <<registerVars, processVars, requests, admitted, adminVars, edgeVars>>

-----------------------------------------------------------------------------
Next ==
  \/ SaleStep
  \/ FetchMenu \/ InstallMenu \/ RepairRead \/ RepairCommit
  \/ SyncBegin \/ SendBatch \/ PollStatus \/ HandleReply \/ GiveUp \/ KillRegister
  \/ LoseRequest \/ LoseReply
  \/ \E r \in requests : Admit(r)
  \/ \E r \in admitted : EdgeIngest(r)
  \/ EdgeStatus
  \/ \E l \in Assignable \cup {NoLocation} : Reassign(l)

Spec == Init /\ [][Next]_vars

(* DeviceSyncCoordinator.run and MenuRefreshCoordinator.run repeat their   *)
(* rounds forever, every request has a timeout, and the register is not    *)
(* killed in the middle of every round; a network that is tried again and  *)
(* again carries, again and again, a request to Edge and an answer back.   *)
AdmitBatch  == sync.pc = "sending" /\ Admit(sync.batch)
AnswerBatch == sync.pc = "sending" /\ EdgeIngest(sync.batch)

Fairness ==
  /\ WF_vars(SyncBegin) /\ WF_vars(GiveUp)
  /\ SF_vars(SendBatch) /\ SF_vars(PollStatus) /\ SF_vars(HandleReply)
  /\ SF_vars(AdmitBatch) /\ SF_vars(AnswerBatch)
  /\ SF_vars(FetchMenu) /\ SF_vars(InstallMenu) /\ SF_vars(RepairRead) /\ SF_vars(RepairCommit)

FairSpec == Spec /\ Fairness

-----------------------------------------------------------------------------
(* Properties                                                              *)

(* Every variable keeps its shape, and the outbox has no gap: the sequence *)
(* and the row are written in one transaction (LocalOutbox.appendOrder).   *)
TypeOK ==
  /\ deviceSequence \in 0..MaxSeq
  /\ outbox \in Events
  /\ \A s \in Seqs : outbox[s] # Absent <=> s <= deviceSequence
  /\ menuLocation \in Locations \cup {NoLocation}
  /\ openLocation \in Locations \cup {NoLocation}
  /\ legacyOrders \in BOOLEAN
  /\ legacyOrders => LegacyRegister
  /\ watermark \in 0..MaxSeq
  /\ sync \in [pc : {"idle", "reading", "sending", "polling"},
               before : 0..MaxSeq, highest : 0..MaxSeq, batch : Events]
  /\ refresh \in [pc : {"idle", "fetched", "installed", "repairing"},
                  location : Locations \cup {NoLocation}, watermark : 0..MaxSeq]
  /\ refresh.pc # "idle" => refresh.location # NoLocation
  /\ requests \in SUBSET Events
  /\ admitted \in SUBSET Events
  /\ assignment \in Locations \cup {NoLocation}
  /\ reassigns \in 0..MaxReassigns
  /\ reply \in [through : -1..MaxSeq, conflict : BOOLEAN]
  /\ stored \in Events
  /\ blocking \in SUBSET Seqs
  /\ accepted \in 0..MaxSeq

(* The register never counts as delivered an event Edge does not hold,     *)
(* whatever was lost, delayed, refused or rewritten: the POS deletes       *)
(* nothing, but nothing at or below the watermark is ever sent again.      *)
AckedIsStored == \A s \in 1..watermark : stored[s] # Absent

(* A register sends from its watermark on, so what Edge holds of it is     *)
(* always a prefix of its log: the gap detection of advanceWatermark never *)
(* has a gap to wait for from this client.                                 *)
StoredIsPrefix ==
  \A s, t \in Seqs : s < t /\ stored[t] # Absent => stored[s] # Absent

(* What Edge accepts it holds, and nothing at or above a reused identity   *)
(* is accepted.                                                            *)
AcceptedIsSound ==
  /\ \A s \in 1..accepted : stored[s] # Absent
  /\ \A b \in blocking : accepted < b

(* An identity Edge refuses is one a repair has rewritten: until a repair  *)
(* commits, no retry, duplicate or delay is ever taken for a conflict.     *)
Unrepaired == LegacyRegister => legacyOrders

ConflictsComeFromRepairs == Unrepaired => blocking = {}

(* docs/OFFLINE_SYNC.md: synchronization must not fork the truth.  What    *)
(* the register counts as delivered is what Edge holds, word for word.     *)
AckedIsStoredAsWritten == Unrepaired => \A s \in 1..watermark : stored[s] = outbox[s]

(* The register's check on an answer: Edge's watermark for a device never  *)
(* falls below one it has acknowledged.                                    *)
EdgeWatermarkNeverMovesBackwards == accepted >= watermark

(* Until a repair has rewritten an event, that check never fails.          *)
KeepsUpUnlessRepaired == Unrepaired => EdgeWatermarkNeverMovesBackwards

(* The two watermarks, and what lies below them, never mislead.            *)
WatermarksAreSound == AckedIsStored /\ StoredIsPrefix /\ AcceptedIsSound

(* Until a repair rewrites an event, register and Edge never disagree:     *)
(* nothing is taken for a conflict, no answer is refused, no copy differs. *)
CopiesDoNotFork ==
  ConflictsComeFromRepairs /\ KeepsUpUnlessRepaired /\ AckedIsStoredAsWritten

(* Why the above are inductive.  Every batch that may still reach Edge,     *)
(* however late, holds written events only, and Edge holds or is being     *)
(* sent everything before each of them.                                    *)
RequestsAreSound ==
  \A r \in requests \cup admitted : \A s \in Seqs : r[s] # Absent =>
    /\ s <= deviceSequence
    /\ \A t \in Seqs : t < s => r[t] # Absent \/ stored[t] # Absent

(* Only written events are stored.                                         *)
StoredIsWritten == \A s \in Seqs : stored[s] # Absent => s <= deviceSequence

(* Only the sync loop moves the watermark, so what a round read at its     *)
(* start is still true at its end.                                         *)
RoundIsCurrent ==
  sync.pc # "idle" => sync.before = watermark /\ sync.highest <= deviceSequence

(* An answer on its way speaks of events Edge holds, and while Edge's       *)
(* watermark cannot fall it is not ahead of it.                            *)
ReplyIsSound ==
  /\ \A s \in 1..reply.through : stored[s] # Absent
  /\ Unrepaired => reply.through <= accepted

(* Until a repair commits, every copy of an event says what the outbox     *)
(* says.                                                                   *)
CopiesAgree ==
  Unrepaired =>
    \A s \in Seqs :
      /\ stored[s] \in {outbox[s], Absent}
      /\ \A r \in requests \cup admitted : r[s] \in {outbox[s], Absent}

IInv ==
  /\ TypeOK
  /\ AckedIsStored /\ StoredIsPrefix /\ AcceptedIsSound /\ ConflictsComeFromRepairs
  /\ KeepsUpUnlessRepaired
  /\ RequestsAreSound /\ StoredIsWritten /\ RoundIsCurrent /\ ReplyIsSound
  /\ CopiesAgree

(* The register keeps coming to the point where all it wrote is delivered; *)
(* the watermark never falls, so every event is.                           *)
EverythingIsAcknowledged == []<>(watermark = deviceSequence)

(* The same for a register that stays where it was assigned.               *)
AcknowledgedUnlessMoved == [](reassigns = 0) => EverythingIsAcknowledged

(* A reassignment that lasts reaches the register: it comes to sell at its  *)
(* new location.                                                           *)
MovesReachTheRegister ==
  \A l \in Assignable : (assignment = l) ~> (menuLocation = l \/ assignment # l)

(* A register converges: its events with Edge, and Edge's decision with it. *)
RegisterConverges == AcknowledgedUnlessMoved /\ MovesReachTheRegister

(* The protocol implements the reliable log: copies never change at Edge   *)
(* and the register's watermark only rises, over events Edge holds.        *)
Log == INSTANCE DurableLog WITH
  appended <- deviceSequence, held <- stored, acknowledged <- watermark
ImplementsLog == Log!LogSpec
=============================================================================
