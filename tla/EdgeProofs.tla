----------------------------- MODULE EdgeProofs -----------------------------
(***************************************************************************)
(* Proofs about two machines of Event Edge, DeviceSync and StockWatch.     *)
(*                                                                         *)
(* DeviceSync, for every log length and batch size, with and without the   *)
(* repair of legacy orders: its inductive invariant and that it implements *)
(* DurableLog.  StockWatch, for any places, figures and configurations:    *)
(* evaluations at once never leave two unresolved alerts of one risk.      *)
(***************************************************************************)
EXTENDS DeviceSync, StockWatch, TLAPS

USE SyncAssumption DEF Seqs, Content, Events, NoEvents, Unrepaired

\* The round between two rounds has its type.
LEMMA IdleIsTyped ==
  /\ NoEvents \in Events
  /\ Idle \in [pc : {"idle", "reading", "sending", "polling"},
               before : 0..MaxSeq, highest : 0..MaxSeq, batch : Events]
<1>1. NoEvents \in Events
  OBVIOUS
<1>2. 0 \in 0..MaxSeq
  OBVIOUS
<1> HIDE DEF NoEvents, Events
<1> QED BY <1>1, <1>2 DEF Idle

(* The batch read after a watermark is made of written events, and with    *)
(* what lies at or below the watermark it leaves no hole.                  *)
LEMMA PendingIsSound ==
  ASSUME TypeOK, NEW w \in 0..MaxSeq
  PROVE  /\ PendingAfter(w) \in Events
         /\ \A s \in Seqs : PendingAfter(w)[s] # Absent =>
              /\ s <= deviceSequence
              /\ PendingAfter(w)[s] = outbox[s]
              /\ \A t \in Seqs : t < s => PendingAfter(w)[t] # Absent \/ t <= w
<1>1. \A s \in Seqs :
        PendingAfter(w)[s] = IF s > w /\ s <= w + BatchSize THEN outbox[s] ELSE Absent
  BY DEF PendingAfter
<1>2. PendingAfter(w) \in Events
  BY DEF PendingAfter, TypeOK
<1>3. ASSUME NEW s \in Seqs, PendingAfter(w)[s] # Absent
      PROVE  /\ s <= deviceSequence
             /\ PendingAfter(w)[s] = outbox[s]
             /\ \A t \in Seqs : t < s => PendingAfter(w)[t] # Absent \/ t <= w
  <2>1. s > w /\ s <= w + BatchSize /\ PendingAfter(w)[s] = outbox[s] /\ outbox[s] # Absent
    BY <1>1, <1>3
  <2>2. s <= deviceSequence
    BY <2>1 DEF TypeOK
  <2>3. ASSUME NEW t \in Seqs, t < s, ~(t <= w)
        PROVE  PendingAfter(w)[t] # Absent
    <3>1. outbox[t] # Absent
      BY <2>2, <2>3 DEF TypeOK
    <3>2. t > w /\ t <= w + BatchSize
      BY <2>1, <2>3
    <3> QED BY <1>1, <3>1, <3>2
  <2> QED BY <2>1, <2>2, <2>3
<1> QED BY <1>2, <1>3

\* The invariant holds at first.
LEMMA InitIsInductive == Init => IInv
  BY DEF Init, IInv, TypeOK, Idle, NoReply, AckedIsStored, StoredIsPrefix,
     AcceptedIsSound, ConflictsComeFromRepairs, KeepsUpUnlessRepaired,
     EdgeWatermarkNeverMovesBackwards, RequestsAreSound, StoredIsWritten,
     RoundIsCurrent, ReplyIsSound, CopiesAgree, Resting, Assignable

(* A step of Edge's ingest, the only one that stores events.               *)
LEMMA IngestIsInductive ==
  ASSUME IInv, NEW r \in admitted, EdgeIngest(r)
  PROVE  IInv'
<1> USE DEF IInv
<1>1. r \in Events
  BY DEF TypeOK
<1>2. \A s \in Seqs : stored'[s] = IF stored[s] = Absent THEN r[s] ELSE stored[s]
  BY DEF EdgeIngest, StoredWith
<1>3. stored' \in Events
  BY <1>1 DEF EdgeIngest, StoredWith, TypeOK
<1>4. \A s \in Seqs : stored[s] # Absent => stored'[s] # Absent
  BY <1>2
<1>5. /\ UNCHANGED <<registerVars, sync, refresh, requests, assignment, reassigns>>
      /\ UNCHANGED <<deviceSequence, outbox, legacyOrders, watermark>>
      /\ admitted' \subseteq admitted
  BY DEF EdgeIngest, registerVars, processVars, adminVars
<1>6. blocking' = blocking \cup Reused(r) /\ Reused(r) \in SUBSET Seqs
  BY DEF EdgeIngest, Reused
<1>7. PICK d \in accepted..MaxSeq : \E a \in 0..d :
        /\ IsDurableEnd(stored', accepted, d)
        /\ IsAcceptedEnd(blocking', d, a)
        /\ accepted' = a
        /\ reply' = IF sync.pc = "sending" /\ sync.batch = r
                    THEN [through |-> a, conflict |-> Reused(r) # {}]
                    ELSE reply
  BY DEF EdgeIngest
<1>8. /\ accepted \in 0..MaxSeq /\ MaxSeq \in Nat
      /\ accepted' \in 0..d /\ accepted' \in 0..MaxSeq
      /\ \A b \in blocking' : accepted' < b
  BY <1>7 DEF TypeOK, IsAcceptedEnd
<1>9. \A s \in 1..accepted' : stored'[s] # Absent
  <2> SUFFICES ASSUME NEW s \in 1..accepted' PROVE stored'[s] # Absent
    OBVIOUS
  <2>1. s \in Seqs
    BY <1>8
  <2>2. CASE s <= accepted
    BY <2>1, <2>2, <1>4, <1>8 DEF AcceptedIsSound
  <2>3. CASE s > accepted
    <3>1. s \in (accepted + 1)..d
      BY <2>3, <1>8
    <3> QED BY <3>1, <1>7 DEF IsDurableEnd
  <2> QED BY <2>1, <2>2, <2>3, <1>8
<1>10. reply' \in {reply, [through |-> accepted', conflict |-> Reused(r) # {}]}
  BY <1>7
<1>11. TypeOK'
  <2>1. reply' \in [through : -1..MaxSeq, conflict : BOOLEAN]
    <3> DEFINE c == Reused(r) # {}
    <3>1. c \in BOOLEAN
      OBVIOUS
    <3>2. reply' \in {reply, [through |-> accepted', conflict |-> c]}
      BY <1>10
    <3> HIDE DEF c
    <3>3. [through |-> accepted', conflict |-> c] \in [through : -1..MaxSeq, conflict : BOOLEAN]
      BY <3>1, <1>8
    <3> QED BY <3>2, <3>3 DEF TypeOK
  <2>2. blocking' \in SUBSET Seqs /\ admitted' \in SUBSET Events
    BY <1>5, <1>6 DEF TypeOK
  <2> HIDE DEF Events, Seqs
  <2> QED BY <1>3, <1>5, <1>8, <2>1, <2>2 DEF TypeOK, registerVars
<1>12. StoredIsPrefix'
  BY <1>2, <1>4 DEF StoredIsPrefix, RequestsAreSound
<1>13. RequestsAreSound'
  BY <1>4, <1>5 DEF RequestsAreSound
<1>14. StoredIsWritten'
  BY <1>2, <1>5 DEF StoredIsWritten, RequestsAreSound
<1>15. AckedIsStored'
  BY <1>4, <1>5 DEF AckedIsStored, TypeOK
<1>16. AcceptedIsSound'
  BY <1>8, <1>9 DEF AcceptedIsSound
<1>20. Unrepaired => blocking' = {}
  <2> SUFFICES ASSUME Unrepaired PROVE Reused(r) = {}
    BY <1>6 DEF ConflictsComeFromRepairs
  <2>1. \A s \in Seqs : r[s] \in {outbox[s], Absent} /\ stored[s] \in {outbox[s], Absent}
    BY DEF CopiesAgree
  <2> QED BY <2>1 DEF Reused
<1>21. Unrepaired => accepted' >= accepted
  BY <1>7, <1>8, <1>20 DEF IsAcceptedEnd
<1>17. ReplyIsSound'
  <2>1. CASE reply' = reply
    BY <2>1, <1>4, <1>5, <1>8, <1>21 DEF ReplyIsSound, TypeOK
  <2>2. CASE reply' = [through |-> accepted', conflict |-> Reused(r) # {}]
    BY <2>2, <1>8, <1>9 DEF ReplyIsSound
  <2> QED BY <1>10, <2>1, <2>2
<1>22. KeepsUpUnlessRepaired'
  BY <1>5, <1>8, <1>21 DEF KeepsUpUnlessRepaired, EdgeWatermarkNeverMovesBackwards, TypeOK
<1>18. RoundIsCurrent'
  BY <1>5 DEF RoundIsCurrent
<1>19. CopiesAgree'
  BY <1>2, <1>5 DEF CopiesAgree
<1>23. ConflictsComeFromRepairs'
  BY <1>5, <1>20 DEF ConflictsComeFromRepairs
<1> QED BY <1>11, <1>12, <1>13, <1>14, <1>15, <1>16, <1>17, <1>18, <1>19, <1>22, <1>23

(* The steps that leave Edge's state alone.                                *)
LEMMA StepIsInductive ==
  ASSUME IInv, Next, \A r \in admitted : ~EdgeIngest(r)
  PROVE  IInv'
<1> USE DEF IInv
<1>1. CASE SaleStep
  <2> USE <1>1 DEF SaleStep, processVars, networkVars, adminVars, edgeVars
  <2>1. /\ OrderLocation \in Locations
        /\ LastSequence \in 0..MaxSeq /\ LastSequence > deviceSequence
    BY DEF OrderLocation, LastSequence, TypeOK
  <2>2. \A s \in Seqs : outbox'[s] = IF s > deviceSequence /\ s <= LastSequence
                                     THEN OrderLocation ELSE outbox[s]
    BY DEF OutboxWithAppended
  <2>3. \A s \in Seqs : /\ outbox'[s] # Absent <=> s <= deviceSequence'
                        /\ outbox[s] # Absent => outbox'[s] = outbox[s]
    BY <2>1, <2>2 DEF TypeOK
  <2>4. TypeOK'
    <3>1. outbox' \in Events
      <4>1. \A s \in Seqs : outbox[s] \in Content \cup {Absent}
        BY DEF TypeOK
      <4> QED BY <2>1, <4>1 DEF OutboxWithAppended
    <3>2. openLocation' \in Locations \cup {NoLocation} /\ deviceSequence' \in 0..MaxSeq
      BY <2>1
    <3> HIDE DEF Events, Seqs
    <3> QED BY <3>1, <3>2, <2>3 DEF TypeOK
  <2>5. ConflictsComeFromRepairs' /\ KeepsUpUnlessRepaired' /\ AckedIsStored' /\ StoredIsPrefix'
        /\ AcceptedIsSound' /\ ReplyIsSound'
    BY DEF ConflictsComeFromRepairs, KeepsUpUnlessRepaired, EdgeWatermarkNeverMovesBackwards,
       AckedIsStored, StoredIsPrefix, AcceptedIsSound, ReplyIsSound
  <2>6. RequestsAreSound' /\ StoredIsWritten' /\ RoundIsCurrent'
    BY <2>1 DEF RequestsAreSound, StoredIsWritten, RoundIsCurrent, TypeOK
  <2>7. CopiesAgree'
    BY <2>3 DEF CopiesAgree
  <2> QED BY <2>4, <2>5, <2>6, <2>7
<1>2. CASE FetchMenu \/ InstallMenu \/ RepairRead
  <2>1. /\ menuLocation' \in {menuLocation, refresh.location}
        /\ menuLocation' = menuLocation \/ refresh.pc = "fetched"
        /\ UNCHANGED <<deviceSequence, outbox, openLocation, legacyOrders, watermark, sync,
                       networkVars, admitted, adminVars, edgeVars>>
    BY <1>2 DEF FetchMenu, InstallMenu, RepairRead, registerVars
  <2>2. /\ refresh' \in [pc : {"idle", "fetched", "installed", "repairing"},
                         location : Locations \cup {NoLocation}, watermark : 0..MaxSeq]
        /\ refresh'.pc # "idle" => refresh'.location # NoLocation
    <3> HIDE DEF Events, Seqs, NoEvents
    <3>1. CASE FetchMenu
      <4>1. /\ refresh' = [pc |-> "fetched", location |-> assignment, watermark |-> 0]
            /\ assignment \in Locations \cup {NoLocation} /\ assignment # NoLocation
        BY <3>1 DEF FetchMenu, Resting, TypeOK
      <4>2. 0 \in 0..MaxSeq
        OBVIOUS
      <4> QED BY <4>1, <4>2
    <3>2. CASE InstallMenu
      BY <3>2 DEF InstallMenu, Resting, TypeOK
    <3>3. CASE RepairRead
      BY <3>3 DEF RepairRead, TypeOK
    <3> QED BY <1>2, <3>1, <3>2, <3>3
  <2>3. TypeOK'
    <3> HIDE DEF Events, Seqs, NoEvents
    <3> QED BY <2>1, <2>2 DEF TypeOK, networkVars, adminVars, edgeVars
  <2> QED BY <2>1, <2>3 DEF networkVars, adminVars, edgeVars, AckedIsStored,
     StoredIsPrefix, AcceptedIsSound, ConflictsComeFromRepairs, KeepsUpUnlessRepaired,
     EdgeWatermarkNeverMovesBackwards, RequestsAreSound, StoredIsWritten,
     RoundIsCurrent, ReplyIsSound, CopiesAgree
<1>3. CASE RepairCommit
  <2> USE <1>3 DEF RepairCommit, networkVars, adminVars, edgeVars
  <2>1. \A s \in Seqs : /\ outbox'[s] \in {outbox[s], refresh.location}
                        /\ outbox'[s] # Absent <=> outbox[s] # Absent
    BY DEF Repaired, TypeOK
  <2>2. TypeOK'
    <3>0. refresh.location \in Locations
      BY DEF TypeOK
    <3>1. outbox' \in Events
      <4>1. \A s \in Seqs : outbox[s] \in Content \cup {Absent}
        BY DEF TypeOK
      <4>2. Repaired \in Events
        BY <3>0, <4>1 DEF Repaired
      <4>3. outbox' = Repaired \/ outbox' = outbox
        OBVIOUS
      <4> QED BY <4>2, <4>3 DEF TypeOK
    <3>2. \A s \in Seqs : outbox'[s] # Absent <=> s <= deviceSequence
      BY <2>1 DEF TypeOK
    <3>3. /\ deviceSequence' = deviceSequence /\ watermark' = watermark /\ sync' = sync
          /\ menuLocation' = menuLocation
          /\ requests' = requests /\ reply' = reply /\ admitted' = admitted
          /\ assignment' = assignment /\ reassigns' = reassigns
          /\ stored' = stored /\ blocking' = blocking /\ accepted' = accepted
      OBVIOUS
    <3>4. /\ refresh' = Resting
          /\ openLocation' \in Locations \cup {NoLocation}
      BY <3>0 DEF TypeOK
    <3>5. legacyOrders' \in BOOLEAN /\ (legacyOrders' => legacyOrders)
      <4>1. legacyOrders' = FALSE \/ legacyOrders' = legacyOrders
        BY Zenon
      <4>2. CASE legacyOrders' = FALSE
        BY <4>2
      <4>3. CASE legacyOrders' = legacyOrders
        BY <4>3 DEF TypeOK
      <4> QED BY <4>1, <4>2, <4>3
    <3>6. /\ Resting \in [pc : {"idle", "fetched", "installed", "repairing"},
                          location : Locations \cup {NoLocation}, watermark : 0..MaxSeq]
          /\ Resting.pc = "idle"
      BY DEF Resting
    <3> HIDE DEF Events, Seqs, RepairCommit
    <3> QED BY <3>1, <3>2, <3>3, <3>4, <3>5, <3>6 DEF TypeOK
  <2>3. CopiesAgree'
    <3>1. Unrepaired' => Unrepaired
      BY DEF TypeOK
    <3>2. CASE UNCHANGED <<outbox, openLocation, legacyOrders>>
      BY <3>1, <3>2 DEF CopiesAgree
    <3>3. CASE outbox' = Repaired /\ legacyOrders' = FALSE
      <4>1. Unrepaired' => ~legacyOrders
        BY <3>3 DEF TypeOK
      <4>2. ~legacyOrders => \A s \in Seqs : outbox'[s] = outbox[s]
        BY <3>3 DEF Repaired
      <4> QED BY <3>1, <4>1, <4>2 DEF CopiesAgree
    <3> QED BY <3>2, <3>3
  <2>4. Unrepaired' => Unrepaired
    BY DEF TypeOK
  <2> QED BY <2>2, <2>3, <2>4 DEF AckedIsStored, StoredIsPrefix, AcceptedIsSound,
          ConflictsComeFromRepairs, KeepsUpUnlessRepaired, EdgeWatermarkNeverMovesBackwards,
          RequestsAreSound, StoredIsWritten, RoundIsCurrent, ReplyIsSound
<1>4. CASE SyncBegin
  <2> USE <1>4 DEF SyncBegin, registerVars, networkVars, adminVars, edgeVars
  <2>1. TypeOK'
    <3> HIDE DEF NoEvents, Events, Seqs
    <3> QED BY IdleIsTyped DEF TypeOK
  <2>2. RoundIsCurrent'
    BY DEF RoundIsCurrent, TypeOK, Idle
  <2> QED BY <2>1, <2>2 DEF AckedIsStored, StoredIsPrefix, AcceptedIsSound, ConflictsComeFromRepairs, KeepsUpUnlessRepaired,
          EdgeWatermarkNeverMovesBackwards,
          RequestsAreSound, StoredIsWritten, ReplyIsSound, CopiesAgree
<1>5. CASE SendBatch
  <2> DEFINE b == PendingAfter(sync.before)
  <2>1. /\ requests' = requests \cup {b} /\ reply' = NoReply
        /\ sync' = [sync EXCEPT !.pc = "sending", !.batch = b]
        /\ UNCHANGED <<registerVars, refresh, admitted, adminVars, edgeVars>>
    BY <1>5 DEF SendBatch
  <2>2. /\ b \in Events
        /\ \A s \in Seqs : b[s] # Absent =>
             /\ s <= deviceSequence
             /\ b[s] = outbox[s]
             /\ \A t \in Seqs : t < s => b[t] # Absent \/ t <= sync.before
    BY PendingIsSound DEF TypeOK
  <2>3. sync.before = watermark
    BY <1>5 DEF SendBatch, RoundIsCurrent
  <2> HIDE DEF b
  <2>4. TypeOK'
    <3>1. NoReply \in [through : -1..MaxSeq, conflict : BOOLEAN]
      BY DEF NoReply
    <3> HIDE DEF Events, Seqs
    <3> QED BY <2>1, <2>2, <3>1 DEF TypeOK, registerVars, adminVars, edgeVars
  <2>5. RequestsAreSound'
    <3>1. \A s \in Seqs : b[s] # Absent =>
            \A t \in Seqs : t < s => b[t] # Absent \/ stored[t] # Absent
      BY <2>2, <2>3 DEF AckedIsStored, TypeOK
    <3> QED BY <2>1, <2>2, <3>1 DEF RequestsAreSound, registerVars, adminVars, edgeVars
  <2>6. CopiesAgree'
    BY <2>1, <2>2 DEF CopiesAgree, registerVars, adminVars, edgeVars, TypeOK
  <2>7. RoundIsCurrent' /\ ReplyIsSound'
    BY <2>1, <1>5 DEF RoundIsCurrent, ReplyIsSound, NoReply, registerVars, adminVars, edgeVars, SendBatch, TypeOK
  <2> QED BY <2>1, <2>4, <2>5, <2>6, <2>7 DEF AckedIsStored, StoredIsPrefix,
          AcceptedIsSound, ConflictsComeFromRepairs, KeepsUpUnlessRepaired,
          EdgeWatermarkNeverMovesBackwards, StoredIsWritten, registerVars, adminVars, edgeVars
<1>6. CASE PollStatus
  <2>1. /\ sync.pc = "reading" /\ sync' = [sync EXCEPT !.pc = "polling"] /\ reply' = NoReply
        /\ UNCHANGED <<registerVars, refresh, requests, admitted, adminVars, edgeVars>>
    BY <1>6 DEF PollStatus
  <2>2. TypeOK'
    <3>1. NoReply \in [through : -1..MaxSeq, conflict : BOOLEAN]
      BY DEF NoReply
    <3> HIDE DEF Events, Seqs
    <3> QED BY <2>1, <3>1 DEF TypeOK, registerVars, adminVars, edgeVars
  <2>3. RoundIsCurrent' /\ ReplyIsSound'
    BY <2>1 DEF RoundIsCurrent, ReplyIsSound, NoReply, registerVars, edgeVars, TypeOK
  <2> QED BY <2>1, <2>2, <2>3 DEF registerVars, adminVars, edgeVars, AckedIsStored, StoredIsPrefix,
          AcceptedIsSound, ConflictsComeFromRepairs, KeepsUpUnlessRepaired,
          EdgeWatermarkNeverMovesBackwards, RequestsAreSound, StoredIsWritten, CopiesAgree
<1>7. CASE HandleReply
  <2> USE <1>7 DEF HandleReply, adminVars, edgeVars
  <2>1. watermark' = watermark \/ (watermark' = reply.through /\ reply.through >= sync.before)
    BY DEF Recorded, ReplyIsValid
  <2>2. TypeOK'
    <3>1. NoReply \in [through : -1..MaxSeq, conflict : BOOLEAN]
      BY DEF NoReply
    <3>2. watermark' \in 0..MaxSeq
      BY <2>1 DEF TypeOK
    <3> HIDE DEF Events, Seqs
    <3> QED BY <3>1, <3>2, IdleIsTyped DEF TypeOK
  <2>3. AckedIsStored'
    BY <2>1 DEF AckedIsStored, ReplyIsSound
  <2>4. RoundIsCurrent' /\ ReplyIsSound'
    BY DEF RoundIsCurrent, ReplyIsSound, Idle, NoReply, TypeOK
  <2>5. KeepsUpUnlessRepaired'
    BY <2>1 DEF KeepsUpUnlessRepaired, EdgeWatermarkNeverMovesBackwards, ReplyIsSound, TypeOK
  <2> QED BY <2>2, <2>3, <2>4, <2>5 DEF StoredIsPrefix, AcceptedIsSound, ConflictsComeFromRepairs,
          RequestsAreSound, StoredIsWritten, CopiesAgree
<1>8. CASE GiveUp \/ KillRegister \/ LoseReply
  <2>1. /\ sync' \in {sync, Idle} /\ refresh' \in {refresh, Resting} /\ reply' = NoReply
        /\ UNCHANGED <<registerVars, requests, admitted, adminVars, edgeVars>>
    BY <1>8 DEF GiveUp, KillRegister, LoseReply, processVars
  <2>2. TypeOK'
    <3>1. NoReply \in [through : -1..MaxSeq, conflict : BOOLEAN]
      BY DEF NoReply
    <3> HIDE DEF Events, Seqs
    <3> QED BY <2>1, <3>1, IdleIsTyped DEF TypeOK, Resting, registerVars, adminVars, edgeVars
  <2>3. RoundIsCurrent' /\ ReplyIsSound'
    BY <2>1 DEF RoundIsCurrent, ReplyIsSound, Idle, NoReply, registerVars, edgeVars, TypeOK
  <2> QED BY <2>1, <2>2, <2>3 DEF registerVars, adminVars, edgeVars, AckedIsStored, StoredIsPrefix,
          AcceptedIsSound, ConflictsComeFromRepairs, KeepsUpUnlessRepaired,
          EdgeWatermarkNeverMovesBackwards, RequestsAreSound, StoredIsWritten, CopiesAgree
<1>9. CASE LoseRequest
  <2> USE <1>9 DEF LoseRequest, registerVars, processVars, adminVars, edgeVars
  <2>1. requests' \subseteq requests
    OBVIOUS
  <2>2. TypeOK' /\ RequestsAreSound' /\ CopiesAgree'
    BY <2>1 DEF TypeOK, RequestsAreSound, CopiesAgree
  <2> QED BY <2>2 DEF AckedIsStored, StoredIsPrefix, AcceptedIsSound, ConflictsComeFromRepairs, KeepsUpUnlessRepaired,
          EdgeWatermarkNeverMovesBackwards,
          StoredIsWritten, RoundIsCurrent, ReplyIsSound
<1>10. CASE EdgeStatus
  <2> USE <1>10 DEF EdgeStatus, registerVars, processVars, adminVars, edgeVars
  <2>1. TypeOK' /\ ReplyIsSound'
    BY DEF TypeOK, ReplyIsSound, AcceptedIsSound
  <2> QED BY <2>1 DEF AckedIsStored, StoredIsPrefix, AcceptedIsSound, ConflictsComeFromRepairs,
          KeepsUpUnlessRepaired, EdgeWatermarkNeverMovesBackwards,
          RequestsAreSound, StoredIsWritten, RoundIsCurrent, CopiesAgree
<1>11. ASSUME NEW r \in requests, Admit(r) PROVE IInv'
  <2> USE <1>11 DEF Admit, registerVars, processVars, networkVars, adminVars, edgeVars
  <2>1. admitted' \subseteq requests \cup admitted
    OBVIOUS
  <2>2. admitted' \in SUBSET Events
    BY <2>1 DEF TypeOK
  <2>3. TypeOK'
    <3> HIDE DEF Events, Seqs
    <3> QED BY <2>2 DEF TypeOK
  <2>4. RequestsAreSound' /\ CopiesAgree'
    BY <2>1 DEF RequestsAreSound, CopiesAgree
  <2> QED BY <2>3, <2>4 DEF AckedIsStored, StoredIsPrefix, AcceptedIsSound,
          ConflictsComeFromRepairs, KeepsUpUnlessRepaired, EdgeWatermarkNeverMovesBackwards,
          StoredIsWritten, RoundIsCurrent, ReplyIsSound
<1>12. ASSUME NEW l \in Assignable \cup {NoLocation}, Reassign(l) PROVE IInv'
  <2> USE <1>12 DEF Reassign, registerVars, processVars, networkVars, edgeVars
  <2>1. TypeOK'
    <3> HIDE DEF Events, Seqs
    <3> QED BY DEF TypeOK, Assignable
  <2> QED BY <2>1 DEF AckedIsStored, StoredIsPrefix, AcceptedIsSound,
          ConflictsComeFromRepairs, KeepsUpUnlessRepaired, EdgeWatermarkNeverMovesBackwards,
          RequestsAreSound, StoredIsWritten, RoundIsCurrent, ReplyIsSound, CopiesAgree
<1> QED BY <1>1, <1>2, <1>3, <1>4, <1>5, <1>6, <1>7, <1>8, <1>9, <1>10, <1>11, <1>12 DEF Next

\* And when nothing happens.
LEMMA StutterIsInductive ==
  ASSUME IInv, UNCHANGED vars PROVE IInv'
  BY DEF vars, registerVars, processVars, networkVars, adminVars, edgeVars, IInv, TypeOK,
     AckedIsStored, StoredIsPrefix, AcceptedIsSound, ConflictsComeFromRepairs,
     KeepsUpUnlessRepaired, EdgeWatermarkNeverMovesBackwards, RequestsAreSound, StoredIsWritten,
     RoundIsCurrent, ReplyIsSound, CopiesAgree

(* The inductive invariant holds in every reachable state.                 *)
THEOREM SpecIsInductive == Spec => []IInv
<1>1. IInv /\ [Next]_vars => IInv'
  BY IngestIsInductive, StepIsInductive, StutterIsInductive
<1> QED BY InitIsInductive, <1>1, PTL DEF Spec

(* Types, and the gapless outbox of LocalOutbox.appendOrder.               *)
THEOREM TypeCorrect == Spec => []TypeOK
  BY SpecIsInductive, PTL DEF IInv

(* DeviceSyncEngine.syncOnce never counts as delivered an event that       *)
(* DeviceSyncService.ingest has not stored.                                *)
THEOREM AckedEventsAreStored == Spec => []AckedIsStored
  BY SpecIsInductive, PTL DEF IInv

(* What Edge holds of a register is a prefix of the register's log.        *)
THEOREM EdgeHoldsAPrefix == Spec => []StoredIsPrefix
  BY SpecIsInductive, PTL DEF IInv

(* Until a repair has rewritten an event, Edge's watermark never falls      *)
(* below the register's, so DeviceSyncEngine's check on it never fails.     *)
THEOREM EdgeKeepsUp == Spec => []KeepsUpUnlessRepaired
  BY SpecIsInductive, PTL DEF IInv

(* Edge's accepted watermark covers stored events only and stays below     *)
(* every reused identity.                                                  *)
THEOREM AcceptedWatermarkIsSound == Spec => []AcceptedIsSound
  BY SpecIsInductive, PTL DEF IInv

(* No retry, duplicate or delay alone makes Edge refuse an event.          *)
THEOREM RetriesAreNotConflicts == Spec => []ConflictsComeFromRepairs
  BY SpecIsInductive, PTL DEF IInv

(* The register deletes nothing and Edge gives nothing away below the two  *)
(* watermarks: both stand on stored events without a gap.                  *)
THEOREM WatermarksHold == Spec => []WatermarksAreSound
<1>1. IInv => WatermarksAreSound
  BY DEF IInv, WatermarksAreSound
<1> QED BY <1>1, SpecIsInductive, PTL

(* What the register counts as delivered is stored, and a stored copy that *)
(* no repair has rewritten is the one in the outbox.                       *)
LEMMA AckedCopiesAgree == IInv => AckedIsStoredAsWritten
<1> SUFFICES ASSUME IInv, Unrepaired, NEW s \in 1..watermark
             PROVE  stored[s] = outbox[s]
  BY DEF AckedIsStoredAsWritten
<1>1. s \in Seqs /\ stored[s] # Absent
  BY DEF IInv, TypeOK, AckedIsStored, Seqs
<1>2. stored[s] \in {outbox[s], Absent}
  BY <1>1 DEF IInv, CopiesAgree
<1> QED BY <1>1, <1>2

(* Register and Edge never disagree about an event until a repair of       *)
(* legacy orders rewrites one (repairLegacyProductionSalesLocation).        *)
THEOREM RegisterAndEdgeAgree == Spec => []CopiesDoNotFork
<1>1. IInv => CopiesDoNotFork
  BY AckedCopiesAgree DEF IInv, CopiesDoNotFork
<1> QED BY <1>1, SpecIsInductive, PTL

-----------------------------------------------------------------------------
(* DeviceSync implements DurableLog: appending is appending, Edge's ingest *)
(* takes copies, a handled answer acknowledges, and nothing else is seen.  *)
THEOREM DeviceSyncImplementsLog == Spec => ImplementsLog
<1>1. Init => Log!LogInit
  BY DEF Init, Log!LogInit, Log!Seqs
<1>2. ASSUME IInv, [Next]_vars
      PROVE  [Log!LogNext]_(Log!logVars)
  <2> USE DEF Log!logVars, Log!Seqs
  <2>1. CASE SaleStep
    <3>1. LastSequence \in (deviceSequence + 1)..MaxSeq
      BY <2>1, <1>2 DEF SaleStep, LastSequence, IInv, TypeOK
    <3>2. deviceSequence' = LastSequence /\ UNCHANGED <<stored, watermark>>
      BY <2>1 DEF SaleStep, edgeVars
    <3>3. \E n \in (deviceSequence + 1)..MaxSeq : deviceSequence' = n
      BY <3>1, <3>2
    <3>4. Log!AppendEntries
      BY <3>2, <3>3 DEF Log!AppendEntries
    <3> QED BY <3>4 DEF Log!LogNext
  <2>2. ASSUME NEW r \in admitted, EdgeIngest(r) PROVE Log!HoldEntries
    <3>1. r \in Events /\ stored \in Events
      BY <1>2 DEF IInv, TypeOK
    <3>2. \A s \in Seqs : stored'[s] = IF stored[s] = Absent THEN r[s] ELSE stored[s]
      BY <2>2 DEF EdgeIngest, StoredWith
    <3>3. stored' \in Events
      BY <3>1, <2>2 DEF EdgeIngest, StoredWith
    <3>4. \A s \in Seqs : /\ stored[s] # Absent => stored'[s] = stored[s]
                          /\ stored'[s] # Absent => s <= deviceSequence
      BY <3>2, <1>2 DEF IInv, RequestsAreSound, StoredIsWritten
    <3>5. UNCHANGED <<deviceSequence, watermark>>
      BY <2>2 DEF EdgeIngest, registerVars
    <3> QED BY <3>3, <3>4, <3>5 DEF Log!HoldEntries
  <2>3. CASE HandleReply
    <3>1. UNCHANGED <<deviceSequence, stored>>
      BY <2>3 DEF HandleReply, edgeVars
    <3>2. CASE ~ReplyIsValid
      BY <2>3, <3>1, <3>2 DEF HandleReply, Recorded
    <3>3. CASE ReplyIsValid
      <4>1. /\ watermark' = reply.through
            /\ reply.through \in watermark..deviceSequence
        BY <2>3, <3>3, <1>2 DEF HandleReply, Recorded, ReplyIsValid, IInv, RoundIsCurrent, TypeOK
      <4>2. \A s \in 1..reply.through : stored[s] # Absent
        BY <1>2 DEF IInv, ReplyIsSound
      <4> QED BY <3>1, <4>1, <4>2 DEF Log!LogNext, Log!Acknowledge
    <3> QED BY <3>2, <3>3
  <2>4. CASE \/ FetchMenu \/ InstallMenu \/ RepairRead \/ RepairCommit
             \/ SyncBegin \/ SendBatch \/ PollStatus \/ GiveUp \/ KillRegister
             \/ LoseRequest \/ LoseReply \/ EdgeStatus \/ UNCHANGED vars
             \/ (\E r \in requests : Admit(r))
             \/ (\E l \in Assignable \cup {NoLocation} : Reassign(l))
    BY <2>4 DEF FetchMenu, InstallMenu, RepairRead, RepairCommit, SyncBegin, SendBatch,
       PollStatus, GiveUp, KillRegister, LoseRequest, LoseReply, EdgeStatus, Admit, Reassign,
       vars, registerVars, edgeVars
  <2> QED BY <2>1, <2>2, <2>3, <2>4, <1>2 DEF Next, Log!LogNext
<1> QED BY <1>1, <1>2, SpecIsInductive, PTL DEF Spec, ImplementsLog, Log!LogSpec
-----------------------------------------------------------------------------
(* StockWatch, from here on.                                               *)

HIDE SyncAssumption DEF Seqs, Content, Events, NoEvents, Unrepaired

\* The alerts are a sequence of rows, each a key and a state.
AlertsAreRows ==
  /\ Len(alerts) \in Nat
  /\ alerts = [i \in 1..Len(alerts) |-> alerts[i]]
  /\ \A i \in 1..Len(alerts) : alerts[i] = [key |-> alerts[i].key, state |-> alerts[i].state]

\* The inductive invariant.
WatchInv == WatchTypeOK /\ AlertsAreRows /\ OneActiveAlert

\* A row appended to a sequence comes after the rows that were there.
LEMMA AppendedRow ==
  ASSUME NEW s, NEW x, Len(s) \in Nat, s = [i \in 1..Len(s) |-> s[i]]
  PROVE  /\ Len(Append(s, x)) = Len(s) + 1
         /\ Append(s, x) = [i \in 1..(Len(s) + 1) |-> Append(s, x)[i]]
         /\ DOMAIN Append(s, x) = 1..(Len(s) + 1)
         /\ DOMAIN s = 1..Len(s)
         /\ \A i \in 1..Len(s) : Append(s, x)[i] = s[i]
         /\ Append(s, x)[Len(s) + 1] = x
<1> DEFINE S == {s[i] : i \in 1..Len(s)} \cup {x}
<1>1. s \in Seq(S)
  <2>1. \A i \in 1..Len(s) : s[i] \in S
    OBVIOUS
  <2>2. s \in [1..Len(s) -> S]
    BY <2>1
  <2> QED BY <2>2
<1>2. x \in S
  OBVIOUS
<1> HIDE DEF S
<1>3. DOMAIN s = 1..Len(s)
  BY <1>1
<1>4. Append(s, x) \in Seq(S) /\ Len(Append(s, x)) = Len(s) + 1
  BY <1>1, <1>2
<1>5. DOMAIN Append(s, x) = 1..(Len(s) + 1)
  BY <1>4
<1>6. \A i \in 1..Len(s) : Append(s, x)[i] = s[i]
  BY <1>1, <1>2
<1>7. Append(s, x)[Len(s) + 1] = x
  BY <1>1, <1>2
<1>8. Append(s, x) = [i \in 1..(Len(s) + 1) |-> Append(s, x)[i]]
  <2> DEFINE t == Append(s, x)
  <2>1. t \in Seq(S) /\ Len(t) = Len(s) + 1
    BY <1>4
  <2> HIDE DEF t
  <2>2. t = [i \in 1..(Len(s) + 1) |-> t[i]]
    BY <2>1
  <2> QED BY <2>2 DEF t
<1> QED BY <1>3, <1>4, <1>5, <1>6, <1>7, <1>8

\* A row whose state is set keeps its place and its key.
LEMMA StateSet ==
  ASSUME AlertsAreRows, NEW id \in DOMAIN alerts, NEW to
  PROVE  /\ Len(SetState(id, to)) = Len(alerts)
         /\ SetState(id, to) = [i \in 1..Len(alerts) |-> SetState(id, to)[i]]
         /\ DOMAIN alerts = 1..Len(alerts)
         /\ \A i \in 1..Len(alerts) :
              SetState(id, to)[i] = IF i = id THEN [key |-> alerts[id].key, state |-> to]
                                    ELSE alerts[i]
<1>1. DOMAIN alerts = 1..Len(alerts)
  BY DEF AlertsAreRows
<1>2. alerts[id] = [key |-> alerts[id].key, state |-> alerts[id].state]
  BY <1>1 DEF AlertsAreRows
<1>3. [alerts[id] EXCEPT !.state = to] = [key |-> alerts[id].key, state |-> to]
  BY <1>2
<1>4. SetState(id, to) = [i \in 1..Len(alerts) |-> IF i = id THEN [key |-> alerts[id].key, state |-> to]
                                    ELSE alerts[i]]
  BY <1>1, <1>3 DEF SetState
<1> DEFINE t == SetState(id, to)
<1>5. DOMAIN t = 1..Len(alerts)
  BY <1>4
<1>6. Len(t) = Len(alerts)
  <2> DEFINE S == {t[i] : i \in 1..Len(alerts)}
  <2>1. t \in [1..Len(alerts) -> S]
    BY <1>4
  <2>2. t \in Seq(S)
    BY <2>1 DEF AlertsAreRows
  <2> HIDE DEF S
  <2> HIDE DEF t
  <2> QED BY <1>5, <2>2 DEF AlertsAreRows
<1> QED BY <1>1, <1>4, <1>6

\* The invariant holds at first.
LEMMA InitIsSafe == WatchInit => WatchInv
<1> SUFFICES ASSUME WatchInit PROVE WatchInv
  OBVIOUS
<1>1. Len(alerts) = 0 /\ DOMAIN alerts = {} /\ alerts = [i \in 1..Len(alerts) |-> alerts[i]]
  BY DEF WatchInit
<1>2. WatchTypeOK
  BY <1>1, LocationsAssumption, FiguresAssumption DEF WatchInit, WatchTypeOK
<1> QED BY <1>1, <1>2 DEF WatchInv, AlertsAreRows, OneActiveAlert

\* What a step does to the alerts: nothing, or it moves one that is unresolved, or
\* it inserts one that the index takes.
AlertsKept ==
  \/ alerts' = alerts
  \/ \E id \in DOMAIN alerts, to \in States \ {"OPEN"} :
       alerts[id].state # "RESOLVED" /\ alerts' = SetState(id, to)
  \/ \E key : ~Taken(key) /\ alerts' = Append(alerts, [key |-> key, state |-> "OPEN"])

\* Such a step keeps one unresolved alert of a key: an insert is refused while
\* there is one, and what is resolved stays resolved.
LEMMA AlertsStep ==
  ASSUME WatchInv, AlertsKept
  PROVE  /\ AlertsAreRows' /\ OneActiveAlert'
         /\ DOMAIN alerts \subseteq DOMAIN alerts'
         /\ \A i \in DOMAIN alerts' : alerts'[i].state \in States
<1>0. DOMAIN alerts = 1..Len(alerts) /\ \A i \in DOMAIN alerts : alerts[i].state \in States
  BY DEF WatchInv, AlertsAreRows, WatchTypeOK
<1>1. CASE alerts' = alerts
  BY <1>0, <1>1 DEF WatchInv, AlertsAreRows, OneActiveAlert
<1>2. ASSUME NEW id \in DOMAIN alerts, NEW to \in States \ {"OPEN"},
             alerts[id].state # "RESOLVED", alerts' = SetState(id, to)
      PROVE  /\ AlertsAreRows' /\ OneActiveAlert'
             /\ DOMAIN alerts \subseteq DOMAIN alerts'
             /\ \A i \in DOMAIN alerts' : alerts'[i].state \in States
  <2>1. /\ Len(alerts') = Len(alerts) /\ DOMAIN alerts' = 1..Len(alerts)
        /\ alerts' = [i \in 1..Len(alerts') |-> alerts'[i]]
        /\ \A i \in 1..Len(alerts) : /\ i # id => alerts'[i] = alerts[i]
                                     /\ i = id => alerts'[i] = [key |-> alerts[id].key, state |-> to]
    BY <1>2, StateSet DEF WatchInv
  <2>2. AlertsAreRows'
    <3>1. \A i \in 1..Len(alerts') : alerts'[i] = [key |-> alerts'[i].key, state |-> alerts'[i].state]
      BY <2>1 DEF WatchInv, AlertsAreRows
    <3> QED BY <2>1, <3>1 DEF WatchInv, AlertsAreRows
  <2>3. \A i \in 1..Len(alerts) : /\ alerts'[i].key = alerts[i].key
                                  /\ alerts'[i].state # "RESOLVED" => alerts[i].state # "RESOLVED"
                                  /\ alerts'[i].state \in States
    BY <1>0, <1>2, <2>1
  <2>4. OneActiveAlert'
    BY <1>0, <2>1, <2>3 DEF OneActiveAlert, WatchInv
  <2> QED BY <1>0, <2>1, <2>2, <2>3, <2>4
<1>3. ASSUME NEW key, ~Taken(key), alerts' = Append(alerts, [key |-> key, state |-> "OPEN"])
      PROVE  /\ AlertsAreRows' /\ OneActiveAlert'
             /\ DOMAIN alerts \subseteq DOMAIN alerts'
             /\ \A i \in DOMAIN alerts' : alerts'[i].state \in States
  <2>1. /\ Len(alerts) \in Nat
        /\ Len(alerts') = Len(alerts) + 1 /\ DOMAIN alerts' = 1..(Len(alerts) + 1)
        /\ alerts' = [i \in 1..Len(alerts') |-> alerts'[i]]
        /\ \A i \in 1..Len(alerts) : alerts'[i] = alerts[i]
        /\ alerts'[Len(alerts) + 1] = [key |-> key, state |-> "OPEN"]
    BY <1>3, AppendedRow DEF WatchInv, AlertsAreRows
  <2>2. AlertsAreRows'
    <3>1. \A i \in 1..Len(alerts') : alerts'[i] = [key |-> alerts'[i].key, state |-> alerts'[i].state]
      BY <2>1 DEF WatchInv, AlertsAreRows
    <3> QED BY <2>1, <3>1 DEF WatchInv, AlertsAreRows
  <2>3. \A i \in 1..Len(alerts) : alerts[i].key = key => alerts[i].state = "RESOLVED"
    BY <1>0, <1>3 DEF Taken, Active
  <2>4. OneActiveAlert'
    <3> SUFFICES ASSUME NEW i \in DOMAIN alerts', NEW j \in DOMAIN alerts',
                        alerts'[i].key = alerts'[j].key,
                        "RESOLVED" \notin {alerts'[i].state, alerts'[j].state}
                 PROVE  i = j
      BY DEF OneActiveAlert
    <3>1. CASE i \in 1..Len(alerts) /\ j \in 1..Len(alerts)
      BY <1>0, <2>1, <3>1 DEF OneActiveAlert, WatchInv
    <3>2. CASE i = Len(alerts) + 1 /\ j = Len(alerts) + 1
      BY <3>2
    <3>3. CASE i \in 1..Len(alerts) /\ j = Len(alerts) + 1
      BY <2>1, <2>3, <3>3
    <3>4. CASE j \in 1..Len(alerts) /\ i = Len(alerts) + 1
      BY <2>1, <2>3, <3>4
    <3> QED BY <2>1, <3>1, <3>2, <3>3, <3>4
  <2>5. \A i \in DOMAIN alerts' : alerts'[i].state \in States
    BY <1>0, <2>1 DEF States
  <2> QED BY <1>0, <2>1, <2>2, <2>4, <2>5
<1> QED BY <1>1, <1>2, <1>3 DEF AlertsKept

\* An evaluation keeps the invariant.
LEMMA EvaluateKeeps ==
  ASSUME WatchInv, NEW e \in Evaluators, Evaluate(e)
  PROVE  WatchInv'
<1>1. CASE ReadConfig(e) \/ ReadFigure(e) \/ RefreshAlert(e) \/ MissAlert(e) \/ InsertRefused(e)
  <2>1. UNCHANGED <<config, stock, inbound, rate, alerts, due, notices, heard, loop, used>>
    BY <1>1 DEF ReadConfig, ReadFigure, RefreshAlert, MissAlert, InsertRefused, stockVars, alertVars
  <2> QED BY <2>1 DEF WatchInv, WatchTypeOK, AlertsAreRows, OneActiveAlert
<1>2. CASE ClearAlert(e)
  <2>1. AlertsKept
    BY <1>2 DEF ClearAlert, AlertsKept, Active, States
  <2>2. UNCHANGED <<config, stock, inbound, rate, due, notices, heard, loop, used>>
    BY <1>2 DEF ClearAlert, stockVars
  <2> QED BY <2>1, <2>2, AlertsStep DEF WatchInv, WatchTypeOK
<1>3. CASE OpenAlert(e)
  <2> DEFINE key == Head(runs[e].todo).key
  <2>1. ~Taken(key) /\ alerts' = Append(alerts, [key |-> key, state |-> "OPEN"])
    BY <1>3 DEF OpenAlert
  <2>2. AlertsKept
    BY <2>1 DEF AlertsKept
  <2>3. Len(alerts) + 1 \in DOMAIN alerts'
    <3>1. Len(alerts) \in Nat /\ alerts = [i \in 1..Len(alerts) |-> alerts[i]]
      BY DEF WatchInv, AlertsAreRows
    <3> HIDE DEF key
    <3>2. DOMAIN alerts' = 1..(Len(alerts) + 1)
      BY <2>1, <3>1, AppendedRow
    <3> QED BY <3>1, <3>2
  <2>4. UNCHANGED <<config, stock, inbound, rate, due, heard, loop, used>>
    BY <1>3 DEF OpenAlert, stockVars
  <2>5. notices' \in {notices, Notify({Len(alerts) + 1}, "opened")}
    BY <1>3 DEF OpenAlert
  <2>6. AlertsAreRows' /\ OneActiveAlert' /\ DOMAIN alerts \subseteq DOMAIN alerts'
        /\ \A i \in DOMAIN alerts' : alerts'[i].state \in States
    BY <2>2, AlertsStep
  <2>7. notices' \cup heard' \subseteq (DOMAIN alerts') \X {"opened", "escalation"}
    BY <2>3, <2>4, <2>5, <2>6 DEF Notify, WatchInv, WatchTypeOK
  <2> QED BY <2>4, <2>6, <2>7 DEF WatchInv, WatchTypeOK
<1> QED BY <1>1, <1>2, <1>3 DEF Evaluate

\* The operations loop keeps the invariant.
LEMMA LoopKeeps ==
  ASSUME WatchInv, Loop
  PROVE  WatchInv'
<1>1. UNCHANGED <<config, stock, inbound, rate, alerts, used>>
  BY DEF Loop, LoopTick, LoopEvaluated, Escalate, Deliver, stockVars, alertVars
<1>2. loop' \in {"rest", "evaluate", "escalate", "notify"}
  BY DEF Loop, LoopTick, LoopEvaluated, Escalate, Deliver
<1>3. /\ due' \subseteq DOMAIN alerts
      /\ notices' \cup heard' \subseteq (DOMAIN alerts) \X {"opened", "escalation"}
  <2>1. CASE LoopTick \/ LoopEvaluated
    BY <2>1 DEF LoopTick, LoopEvaluated, alertVars, WatchInv, WatchTypeOK
  <2>2. CASE Escalate
    BY <2>2 DEF Escalate, Notify, WatchInv, WatchTypeOK
  <2>3. CASE Deliver
    BY <2>3 DEF Deliver, WatchInv, WatchTypeOK
  <2> QED BY <2>1, <2>2, <2>3 DEF Loop
<1> QED BY <1>1, <1>2, <1>3 DEF WatchInv, WatchTypeOK, AlertsAreRows, OneActiveAlert

\* What happens at the venue keeps the invariant.
LEMMA VenueKeeps ==
  ASSUME WatchInv, Venue
  PROVE  WatchInv'
<1>1. used' \in 0..MaxEvents
  <2>1. Use
    BY DEF Venue, Sale, Quiet, Receive, CloseCount, Dispatch, Install, FallsDue, Transition
  <2>2. used \in 0..MaxEvents
    BY DEF WatchInv, WatchTypeOK
  <2> QED BY <2>1, <2>2, FiguresAssumption DEF Use
<1>2. CASE \E id \in DOMAIN alerts : Transition(id)
  <2>1. PICK id \in DOMAIN alerts : Transition(id)
    BY <1>2
  <2>2. PICK to \in MayBecome(alerts[id].state) : alerts' = SetState(id, to)
    BY <2>1 DEF Transition
  <2>3. alerts[id].state # "RESOLVED" /\ to \in States \ {"OPEN"}
    BY <2>2 DEF MayBecome, States
  <2>4. AlertsKept
    BY <2>2, <2>3 DEF AlertsKept
  <2>5. UNCHANGED <<config, stock, inbound, rate, due, notices, heard, loop>>
    BY <2>1 DEF Transition, stockVars, evalVars
  <2> QED BY <1>1, <2>4, <2>5, AlertsStep DEF WatchInv, WatchTypeOK
<1>3. CASE \E id \in DOMAIN alerts : FallsDue(id)
  <2>1. due' \subseteq DOMAIN alerts
    BY <1>3 DEF FallsDue, WatchInv, WatchTypeOK
  <2>2. UNCHANGED <<config, stock, inbound, rate, alerts, notices, heard, loop>>
    BY <1>3 DEF FallsDue, stockVars, evalVars
  <2> QED BY <1>1, <2>1, <2>2 DEF WatchInv, WatchTypeOK, AlertsAreRows, OneActiveAlert
<1>4. CASE Install
  <2>1. UNCHANGED <<stock, inbound, rate, alerts, due, notices, heard, loop>>
    BY <1>4 DEF Install, alertVars, evalVars
  <2>2. config' \in Configurations
    BY <1>4 DEF Install
  <2> QED BY <1>1, <2>1, <2>2 DEF WatchInv, WatchTypeOK, AlertsAreRows, OneActiveAlert
<1>5. ASSUME NEW place \in Places, NEW source \in Places,
             \/ Sale(place) \/ Quiet(place) \/ Receive(place) \/ CloseCount(place)
             \/ Dispatch(source, place)
      PROVE  WatchInv'
  <2>1. UNCHANGED <<config, alerts, due, notices, heard, loop>>
    BY <1>5 DEF Sale, Quiet, Receive, CloseCount, Dispatch, Moved, alertVars
  <2>2. stock' \in [Places -> Int] /\ inbound' \in [Places -> Nat] /\ rate' \in [Places -> Rates]
    <3>0. stock \in [Places -> Int] /\ inbound \in [Places -> Nat] /\ rate \in [Places -> Rates]
      BY DEF WatchInv, WatchTypeOK
    <3>1. CASE Sale(place)
      <4>1. /\ stock' = [stock EXCEPT ![place] = stock[place] - 1]
            /\ inbound' = inbound /\ rate' \in [Places -> Rates]
        BY <3>0, <3>1 DEF Sale
      <4>2. stock[place] - 1 \in Int
        BY <3>0
      <4> QED BY <3>0, <4>1, <4>2
    <3>2. CASE Quiet(place)
      BY <3>0, <3>2, FiguresAssumption DEF Quiet
    <3>3. CASE Receive(place)
      <4>1. inbound[place] \in Nat /\ inbound[place] > 0 /\ stock[place] \in Int
        BY <3>0, <3>3 DEF Receive
      <4>2. /\ inbound' = [inbound EXCEPT ![place] = inbound[place] - 1]
            /\ stock' = [stock EXCEPT ![place] = stock[place] + 1]
            /\ rate' = rate
        BY <3>3 DEF Receive
      <4>3. inbound[place] - 1 \in Nat /\ stock[place] + 1 \in Int
        BY <4>1
      <4>4. inbound' \in [Places -> Nat]
        BY <3>0, <4>2, <4>3
      <4>5. stock' \in [Places -> Int]
        BY <3>0, <4>2, <4>3
      <4> QED BY <3>0, <4>2, <4>4, <4>5
    <3>4. CASE CloseCount(place)
      BY <3>0, <3>4 DEF CloseCount
    <3>5. CASE Dispatch(source, place)
      <4>1. stock[source] \in Int /\ inbound[place] \in Nat
        BY <3>0, <3>5 DEF Dispatch
      <4>2. /\ stock' = [stock EXCEPT ![source] = stock[source] - 1]
            /\ inbound' = [inbound EXCEPT ![place] = inbound[place] + 1]
            /\ rate' = rate
        BY <3>5 DEF Dispatch
      <4>3. stock[source] - 1 \in Int /\ inbound[place] + 1 \in Nat
        BY <4>1
      <4>4. stock' \in [Places -> Int]
        BY <3>0, <4>2, <4>3
      <4>5. inbound' \in [Places -> Nat]
        BY <3>0, <4>2, <4>3
      <4> QED BY <3>0, <4>2, <4>4, <4>5
    <3> QED BY <1>5, <3>1, <3>2, <3>3, <3>4, <3>5
  <2> QED BY <1>1, <2>1, <2>2 DEF WatchInv, WatchTypeOK, AlertsAreRows, OneActiveAlert
<1> QED BY <1>2, <1>3, <1>4, <1>5 DEF Venue

\* Every step keeps the invariant.
LEMMA StepIsSafe == WatchInv /\ [WatchNext]_watchVars => WatchInv'
<1> SUFFICES ASSUME WatchInv, [WatchNext]_watchVars PROVE WatchInv'
  OBVIOUS
<1>1. CASE UNCHANGED watchVars
  BY <1>1 DEF watchVars, stockVars, alertVars, evalVars, WatchInv, WatchTypeOK, AlertsAreRows, OneActiveAlert
<1>2. CASE WatchNext
  BY <1>2, EvaluateKeeps, LoopKeeps, VenueKeeps DEF WatchNext
<1> QED BY <1>1, <1>2

\* The invariant holds in every state, for any places, figures, configurations
\* and bound.
THEOREM WatchInvariant == WatchSpec => []WatchInv
  BY InitIsSafe, StepIsSafe, PTL DEF WatchSpec

\* Configuration, stock, alerts, escalations and notices keep their type, and
\* notices are only of alerts there are.
THEOREM WatchTypes == WatchSpec => []WatchTypeOK
<1>1. WatchInv => WatchTypeOK
  BY DEF WatchInv
<1> QED BY <1>1, WatchInvariant, PTL

\* Two evaluations at once, which look before they insert and lock nothing, never
\* leave two unresolved alerts of one risk: upsertAlert and the unique index.
THEOREM OneAlert == WatchSpec => []OneActiveAlert
<1>1. WatchInv => OneActiveAlert
  BY DEF WatchInv
<1> QED BY <1>1, WatchInvariant, PTL
=============================================================================
