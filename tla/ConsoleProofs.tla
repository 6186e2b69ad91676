---------------------------- MODULE ConsoleProofs ----------------------------
(***************************************************************************)
(* Proofs about what stands behind the web console, Access and             *)
(* CommandCentre.                                                          *)
(*                                                                         *)
(* Access, for any operators, tabs, tools and Edges and any limits: who is *)
(* served proved who they are, still may and where they asked, and an Edge *)
(* is let in only by a credential that was current from the arrival of its *)
(* request to its acceptance.  CommandCentre, for any                      *)
(* events, alerts, orders and registers: an alert is never held in an      *)
(* earlier state than before, and an action stays with its alert's event.  *)
(***************************************************************************)
EXTENDS Access, CommandCentre, FiniteSetTheorems, TLAPS

(* Access: what its inductive invariant is made of.                        *)

RequestKinds == LoginKinds \cup OperatorKinds \cup {"edge", "none", "refused"}
Requests ==
  [at : Phases, kind : RequestKinds, session : Sessions \cup {NoSession}, version : Nat, seen : Nat,
   challenge : Challenges \cup {NoChallenge}, user : Users,
   actor : Operators \cup {NoOperator}, org : Organisations \cup {NoOrganisation},
   target : Organisations \cup {NoOrganisation}, role : Roles \cup {"NONE"},
   ok : BOOLEAN, barred : BOOLEAN, held : BOOLEAN]
Commands ==
  [does : {"grant"}, actor : Operators, org : Organisations, role : Roles]
    \cup [does : {"session"}, actor : Operators]

\* The tables have their types, and so have requests and commands under way.
RecordsAreTyped ==
  TypeOK /\ request \in [Callers -> Requests] /\ command \subseteq Commands

\* A session is of an operator whom an administrator has added, and one from a
\* login is bound to the operator's user and to a challenge that is spent.
SessionIsSound(s) ==
  /\ session[s].state # "NONE" =>
       session[s].actor \in Operators /\ identity[session[s].actor].status # "NONE"
  /\ session[s].by # NoChallenge =>
       /\ session[s].state # "NONE"
       /\ challenge[session[s].by].state = "DONE"
       /\ session[s].user # NoUser
       /\ session[s].user = identity[session[s].actor].user
       /\ \A t \in Sessions : session[t].by = session[s].by => s = t

TablesAreSound ==
  /\ \A s \in Sessions : SessionIsSound(s)
  /\ \A ch \in Challenges : challenge[ch].state = "OPEN" => challenge[ch].actor \in Operators
  /\ \A x \in command : identity[x.actor].status # "NONE"
  /\ \A e \in Edges : edge[e].state = "NONE" => edge[e].version = 0
  /\ jar.session # NoSession => session[jar.session].state # "NONE"

\* What each phase of a request relies on.
PhaseIsSound(c) ==
  LET r == request[c] IN
  /\ r.at # "answering" => ~r.ok
  /\ r.kind = "begin" /\ r.at # "answering" => r.actor \in Operators
  /\ r.at \in {"proved", "selected"} => r.kind = "begin"
  /\ r.at = "sending" => r.kind \in {"begin", "resend"} /\ r.actor \in Operators
  /\ r.at \in {"verifying", "issuing"} =>
       r.kind = "verify" /\ r.actor \in Operators /\ r.challenge # NoChallenge
  /\ r.at = "issuing" => r.user # NoUser
  /\ r.at = "reading" => r.kind = "check"
  /\ r.at = "authorizing" => r.kind = "event"
  /\ r.at = "touching" => r.kind = "edge" /\ r.seen = r.version
  /\ r.at \in {"authenticating", "projecting"} =>
       r.kind \in {"check", "change", "event"} /\ r.session # NoSession
  /\ r.at \in {"projecting", "reading", "authorizing"} =>
       r.session # NoSession /\ r.actor = session[r.session].actor
  /\ r.session # NoSession => session[r.session].state # "NONE"
  /\ r.kind = "edge" => c \in Edges /\ r.version <= edge[c].version

\* A session that does not authenticate; it never will again.
IsOver(s) ==
  session[s].state # "ACTIVE" \/ identity[session[s].actor].status # "ACTIVE"

\* Whoever was locked out when a request arrived, or an Edge since then, still
\* is, and the request is in no phase that only an authenticated one reaches.
RefusalIsSound(c) ==
  LET r == request[c] IN
  r.barred =>
    /\ r.kind = "edge" => edge[c].state = "REVOKED" \/ r.version < edge[c].version
    /\ r.kind \in {"check", "change", "event"} =>
         /\ r.session # NoSession => IsOver(r.session)
         /\ r.role # "ADMIN" /\ r.at \notin {"projecting", "reading", "authorizing"}
    /\ r.at = "answering" /\ r.ok => r.kind \notin {"check", "change", "event", "edge"}

\* Whoever administers the target now, was found to, or was served in it, has
\* held the role while the request was there.
HeldIsSound(c) ==
  LET r == request[c] IN
  r.kind \in {"change", "event"} =>
    /\ /\ r.session # NoSession /\ r.target # NoOrganisation
       /\ role[session[r.session].actor][r.target] = "ADMIN"
       => r.held
    /\ r.role = "ADMIN" /\ r.org = r.target => r.held
    /\ r.at = "answering" /\ r.ok => r.held

RequestIsSound(c) == PhaseIsSound(c) /\ RefusalIsSound(c) /\ HeldIsSound(c)

AccessInv ==
  /\ RecordsAreTyped /\ TablesAreSound
  /\ \A c \in Callers : RequestIsSound(c)
  /\ InFlightIsExact

-----------------------------------------------------------------------------
(* The counters of requests under way.                                     *)

Busy(r) == r.at \notin {"idle", "admitted", "answering"}

\* Every request falls under one of the policies.
LEMMA PolicyIsKnown ==
  ASSUME NEW r
  PROVE  Policy(r) \in Policies
  BY AccessAssumptions DEF Policy

\* The requests a policy counts, and those of the other callers, are finite.
LEMMA InsideIsFinite ==
  ASSUME NEW p
  PROVE  IsFiniteSet(Inside(p)) /\ IsFiniteSet(Inside(p))'
<1>1. IsFiniteSet(Callers)
  BY AccessAssumptions DEF Callers
<1>2. Inside(p) \in SUBSET Callers /\ Inside(p)' \in SUBSET Callers
  BY DEF Inside
<1> QED BY <1>1, <1>2, FS_Subset

\* The counters stay right when no request enters or leaves a guard.
LEMMA CountIsKept ==
  ASSUME InFlightIsExact, UNCHANGED inFlight,
         \A c \in Callers : Busy(request'[c]) <=> Busy(request[c]),
         \A c \in Callers : Busy(request[c]) => Policy(request'[c]) = Policy(request[c])
  PROVE  InFlightIsExact'
<1> SUFFICES ASSUME NEW p \in Policies
             PROVE  (inFlight[p] = Cardinality(Inside(p)) /\ inFlight[p] <= MaxInFlight[p])'
  BY DEF InFlightIsExact
<1>1. \A c \in Callers : c \in Inside(p)' <=> c \in Inside(p)
  BY DEF Inside, Busy
<1>2. Inside(p)' = Inside(p)
  BY <1>1 DEF Inside
<1> QED BY <1>2 DEF InFlightIsExact

\* A request that moves on within the handler, or outside, is counted as before.
LEMMA CountOnMove ==
  ASSUME InFlightIsExact, UNCHANGED inFlight, request \in [Callers -> Requests],
         NEW c \in Callers, NEW r, Move(c, r),
         Busy(r) <=> Busy(request[c]),
         Busy(r) => Policy(r) = Policy(request[c])
  PROVE  InFlightIsExact'
<1>1. request'[c] = r /\ \A d \in Callers : d # c => request'[d] = request[d]
  BY DEF Move
<1> QED BY <1>1, CountIsKept

\* A request that enters is counted once, and the limit was not reached.
LEMMA CountOnEnter ==
  ASSUME InFlightIsExact, inFlight \in [Policies -> Nat],
         request \in [Callers -> Requests], NEW c \in Callers, NEW r, Move(c, r),
         ~Busy(request[c]), Busy(r), MayEnter(Policy(r)), Enter(Policy(r))
  PROVE  InFlightIsExact'
<1> SUFFICES ASSUME NEW p \in Policies
             PROVE  (inFlight[p] = Cardinality(Inside(p)) /\ inFlight[p] <= MaxInFlight[p])'
  BY DEF InFlightIsExact
<1>1. request'[c] = r /\ \A d \in Callers : d # c => request'[d] = request[d]
  BY DEF Move
<1>2. MaxInFlight[p] \in Nat /\ inFlight[p] \in Nat
  BY AccessAssumptions
<1>3. CASE p = Policy(r)
  <2>1. Inside(p)' = Inside(p) \cup {c} /\ c \notin Inside(p)
    BY <1>1, <1>3 DEF Inside, Busy
  <2>2. Cardinality(Inside(p)') = Cardinality(Inside(p)) + 1
    BY <2>1, InsideIsFinite, FS_AddElement
  <2>3. inFlight'[p] = inFlight[p] + 1 /\ inFlight[p] < MaxInFlight[p]
    BY <1>3 DEF Enter, MayEnter
  <2> QED BY <1>2, <2>2, <2>3 DEF InFlightIsExact
<1>4. CASE p # Policy(r)
  <2>1. Inside(p)' = Inside(p)
    BY <1>1, <1>4 DEF Inside, Busy
  <2>2. inFlight'[p] = inFlight[p]
    BY <1>4 DEF Enter
  <2> QED BY <2>1, <2>2 DEF InFlightIsExact
<1> QED BY <1>3, <1>4

\* A request that leaves is no longer counted, whichever way it leaves.
LEMMA CountOnLeave ==
  ASSUME InFlightIsExact, inFlight \in [Policies -> Nat],
         request \in [Callers -> Requests], NEW c \in Callers, NEW r, Move(c, r),
         Busy(request[c]), ~Busy(r), Leave(Policy(request[c]))
  PROVE  InFlightIsExact' /\ inFlight' \in [Policies -> Nat]
<1>1. request'[c] = r /\ \A d \in Callers : d # c => request'[d] = request[d]
  BY DEF Move
<1>2. PICK q \in Policies : q = Policy(request[c])
  BY PolicyIsKnown
<1>3. Inside(q)' = Inside(q) \ {c} /\ c \in Inside(q)
  BY <1>1, <1>2 DEF Inside, Busy
<1>4. Cardinality(Inside(q)') = Cardinality(Inside(q)) - 1 /\ Cardinality(Inside(q)') \in Nat
  BY <1>3, InsideIsFinite, FS_RemoveElement, FS_CardinalityType
<1>5. inFlight' = [inFlight EXCEPT ![q] = inFlight[q] - 1]
  BY <1>2 DEF Leave
<1>6. inFlight'[q] = Cardinality(Inside(q)') /\ inFlight'[q] \in Nat
  BY <1>2, <1>4, <1>5 DEF InFlightIsExact
<1>7. inFlight' \in [Policies -> Nat]
  BY <1>2, <1>5, <1>6
<1>8. ASSUME NEW p \in Policies
      PROVE  (inFlight[p] = Cardinality(Inside(p)) /\ inFlight[p] <= MaxInFlight[p])'
  <2>1. MaxInFlight[p] \in Nat /\ inFlight[p] \in Nat
    BY AccessAssumptions
  <2>2. CASE p = q
    <3>1. inFlight'[p] = inFlight[p] - 1 /\ inFlight[p] <= MaxInFlight[p]
      BY <1>5, <2>2 DEF InFlightIsExact
    <3> QED BY <1>6, <2>1, <2>2, <3>1
  <2>3. CASE p # q
    <3>1. Inside(p)' = Inside(p)
      BY <1>1, <1>2, <2>3 DEF Inside, Busy
    <3> QED BY <1>5, <2>3, <3>1 DEF InFlightIsExact
  <2> QED BY <2>2, <2>3
<1> QED BY <1>7, <1>8 DEF InFlightIsExact

-----------------------------------------------------------------------------
(* What a step may do to the tables under the requests that wait.          *)

SessionsAge ==
  \A s \in Sessions : session[s].state # "NONE" =>
    /\ session'[s].state # "NONE" /\ session'[s].actor = session[s].actor
    /\ session[s].state # "ACTIVE" => session'[s].state # "ACTIVE"
IdentitiesAge ==
  \A o \in Operators : identity[o].status # "NONE" =>
    /\ identity'[o].status # "NONE"
    /\ identity[o].status # "ACTIVE" => identity'[o].status # "ACTIVE"
EdgesAge ==
  \A e \in Edges :
    /\ edge[e].version <= edge'[e].version
    /\ edge[e].state = "REVOKED" => edge'[e].state = "REVOKED"
RolesFall ==
  \A o \in Operators, g \in Organisations :
    role'[o][g] = "ADMIN" => role[o][g] = "ADMIN"
TablesAge == SessionsAge /\ IdentitiesAge /\ EdgesAge /\ RolesFall

\* Tables that stay as they are have aged.
LEMMA TablesThatStayAge ==
  ASSUME RecordsAreTyped, UNCHANGED rows
  PROVE  TablesAge
<1>1. \A e \in Edges : edge[e].version \in Nat
  BY AccessAssumptions DEF RecordsAreTyped, TypeOK
<1> QED BY <1>1 DEF TablesAge, SessionsAge, IdentitiesAge, EdgesAge, RolesFall, rows

\* A request's session is a row of the table, of a known operator.
LEMMA SessionIsKnown ==
  ASSUME RecordsAreTyped, TablesAreSound, NEW c \in Callers, RequestIsSound(c),
         request[c].session # NoSession
  PROVE  /\ request[c].session \in Sessions
         /\ session[request[c].session].state # "NONE"
         /\ session[request[c].session].actor \in Operators
         /\ identity[session[request[c].session].actor].status # "NONE"
<1>1. request[c].session \in Sessions
  BY DEF RecordsAreTyped, Requests
<1>2. session[request[c].session].state # "NONE"
  BY DEF RequestIsSound, PhaseIsSound
<1> QED BY <1>1, <1>2 DEF TablesAreSound, SessionIsSound

\* Between two phases a request is about the same thing.
SameSubject(c) ==
  /\ request'[c].kind = request[c].kind /\ request'[c].session = request[c].session
  /\ request'[c].version = request[c].version /\ request'[c].org = request[c].org
  /\ request'[c].target = request[c].target /\ request'[c].role = request[c].role
  /\ request'[c].barred = request[c].barred /\ request'[c].held = request[c].held

\* An Edge's request that was barred stays so while its row ages.
LEMMA BarredEdgeStaysBarred ==
  ASSUME RecordsAreTyped, TypeOK', EdgesAge, NEW c \in Edges, NEW v \in Nat,
         edge[c].state = "REVOKED" \/ v < edge[c].version
  PROVE  edge'[c].state = "REVOKED" \/ v < edge'[c].version
<1>1. edge[c].version \in Nat /\ edge'[c].version \in Nat
  BY AccessAssumptions DEF RecordsAreTyped, TypeOK
<1> QED BY <1>1 DEF EdgesAge

\* A phase that does not answer keeps what was true of the caller, provided
\* that the phases of an authenticated caller are entered by one.
LEMMA StandingIsKept ==
  ASSUME RecordsAreTyped, TypeOK', TablesAreSound, TablesAge, NEW c \in Callers,
         RequestIsSound(c), SameSubject(c),
         request'[c].at = "answering" =>
           request[c].at = "answering" /\ request'[c].ok = request[c].ok,
         request'[c].at \in {"projecting", "reading", "authorizing"} =>
           \/ request'[c].at = request[c].at
           \/ Authenticates(request[c].session)
  PROVE  RefusalIsSound(c)' /\ HeldIsSound(c)'
<1> DEFINE s == request[c].session
<1>1. request[c].version \in Nat /\ request[c].target \in Organisations \cup {NoOrganisation}
  BY DEF RecordsAreTyped, Requests
<1>2. s # NoSession => /\ s \in Sessions /\ session[s].state # "NONE"
                       /\ session[s].actor \in Operators
                       /\ session'[s].actor = session[s].actor
  BY SessionIsKnown DEF TablesAge, SessionsAge
<1>3. s # NoSession /\ IsOver(s) => IsOver(s)'
  <2>1. SUFFICES ASSUME s # NoSession, IsOver(s)
                 PROVE  session'[s].state # "ACTIVE"
                          \/ identity'[session'[s].actor].status # "ACTIVE"
    BY DEF IsOver, SameSubject
  <2> QED BY <1>2, <2>1 DEF IsOver, TablesAreSound, SessionIsSound, TablesAge, SessionsAge, IdentitiesAge
<1>4. Authenticates(s) => s # NoSession /\ ~IsOver(s)
  BY DEF Authenticates, IsOver
<1>5. RefusalIsSound(c)'
  <2> SUFFICES ASSUME request'[c].barred
               PROVE  /\ request'[c].kind = "edge" =>
                           edge'[c].state = "REVOKED" \/ request'[c].version < edge'[c].version
                      /\ request'[c].kind \in {"check", "change", "event"} =>
                           /\ request'[c].session # NoSession => IsOver(request[c].session)'
                           /\ request'[c].role # "ADMIN"
                           /\ request'[c].at \notin {"projecting", "reading", "authorizing"}
                      /\ request'[c].at = "answering" /\ request'[c].ok =>
                           request'[c].kind \notin {"check", "change", "event", "edge"}
    BY DEF RefusalIsSound
  <2>1. request[c].barred /\ RefusalIsSound(c) /\ PhaseIsSound(c)
    BY DEF SameSubject, RequestIsSound
  <2>2. request'[c].kind = "edge" =>
          edge'[c].state = "REVOKED" \/ request'[c].version < edge'[c].version
    BY <1>1, <2>1, BarredEdgeStaysBarred DEF SameSubject, RefusalIsSound, PhaseIsSound, TablesAge
  <2>3. request'[c].kind \in {"check", "change", "event"} =>
          /\ request'[c].session # NoSession => IsOver(request[c].session)'
          /\ request'[c].role # "ADMIN"
          /\ request'[c].at \notin {"projecting", "reading", "authorizing"}
    BY <1>3, <1>4, <2>1 DEF SameSubject, RefusalIsSound
  <2>4. request'[c].at = "answering" /\ request'[c].ok =>
          request'[c].kind \notin {"check", "change", "event", "edge"}
    BY <2>1 DEF SameSubject, RefusalIsSound
  <2> QED BY <2>2, <2>3, <2>4
<1>6. HeldIsSound(c)'
  <2>1. HeldIsSound(c)
    BY DEF RequestIsSound
  <2>2. s # NoSession /\ request[c].target # NoOrganisation
          /\ role'[session'[s].actor][request[c].target] = "ADMIN" =>
        role[session[s].actor][request[c].target] = "ADMIN"
    BY <1>1, <1>2 DEF TablesAge, RolesFall
  <2> QED BY <2>1, <2>2 DEF SameSubject, HeldIsSound
<1> QED BY <1>5, <1>6

\* A request that waits while another step is taken stays sound.
LEMMA WaitingIsSound ==
  ASSUME RecordsAreTyped, TypeOK', TablesAreSound, TablesAge, NEW c \in Callers,
         RequestIsSound(c), request'[c] = request[c]
  PROVE  RequestIsSound(c)'
<1>1. RefusalIsSound(c)' /\ HeldIsSound(c)'
  BY StandingIsKept DEF SameSubject
<1>2. PhaseIsSound(c)
  BY DEF RequestIsSound
<1>3. request[c].session # NoSession =>
        /\ session'[request[c].session].state # "NONE"
        /\ session'[request[c].session].actor = session[request[c].session].actor
  BY SessionIsKnown DEF TablesAge, SessionsAge
<1>4. request[c].kind = "edge" => c \in Edges /\ request[c].version <= edge'[c].version
  <2> SUFFICES ASSUME request[c].kind = "edge"
               PROVE  c \in Edges /\ request[c].version <= edge'[c].version
    OBVIOUS
  <2>1. c \in Edges /\ request[c].version <= edge[c].version
    BY <1>2 DEF PhaseIsSound
  <2>2. edge[c].version <= edge'[c].version
    BY <2>1 DEF TablesAge, EdgesAge
  <2>3. request[c].version \in Nat /\ edge[c].version \in Nat /\ edge'[c].version \in Nat
    BY <2>1, AccessAssumptions DEF RecordsAreTyped, TypeOK, Requests
  <2> QED BY <2>1, <2>2, <2>3
<1>5. PhaseIsSound(c)'
  BY <1>2, <1>3, <1>4 DEF PhaseIsSound
<1> QED BY <1>1, <1>5 DEF RequestIsSound

\* When one request moves, the others wait.
LEMMA OneMovesOthersWait ==
  ASSUME RecordsAreTyped, TypeOK', TablesAreSound, TablesAge,
         \A c \in Callers : RequestIsSound(c),
         NEW c \in Callers, NEW r, Move(c, r), RequestIsSound(c)'
  PROVE  \A d \in Callers : RequestIsSound(d)'
<1> SUFFICES ASSUME NEW d \in Callers, d # c
             PROVE  RequestIsSound(d)'
  OBVIOUS
<1>1. request'[d] = request[d]
  BY DEF Move, RecordsAreTyped
<1> QED BY <1>1, WaitingIsSound

\* The request that moves has its type, and so do the others.
LEMMA MoveIsTyped ==
  ASSUME request \in [Callers -> Requests], NEW c \in Callers, NEW r \in Requests, Move(c, r)
  PROVE  request' \in [Callers -> Requests] /\ request'[c] = r
  BY DEF Move

\* No request and an outcome of a request are requests.
LEMMA IdleIsARequest == Idle \in Requests
  BY AccessAssumptions DEF Idle, Requests, Phases, RequestKinds, Users, NoUser

\* An answer is a request, and tells what it keeps of the one it answers.
LEMMA OutcomeIsARequest ==
  ASSUME NEW r \in Requests, NEW ok \in BOOLEAN
  PROVE  /\ Outcome(ok, r) \in Requests
         /\ Outcome(ok, r).at = "answering" /\ Outcome(ok, r).kind = r.kind
         /\ Outcome(ok, r).ok = ok
         /\ Outcome(ok, r).role = "NONE"
         /\ ok  => /\ Outcome(ok, r).session = r.session
                   /\ Outcome(ok, r).target = r.target
                   /\ Outcome(ok, r).version = r.version
                   /\ Outcome(ok, r).barred = r.barred /\ Outcome(ok, r).held = r.held
         /\ ~ok => /\ Outcome(ok, r).session = NoSession
                   /\ Outcome(ok, r).version = 0
                   /\ ~Outcome(ok, r).barred
<1>1. NoUser \in Users /\ "answering" \in Phases
  BY AccessAssumptions DEF Users, NoUser, Phases
<1>2. CASE ok
  BY <1>1, <1>2 DEF Outcome, Requests
<1>3. CASE ~ok
  <2>1. Idle \in Requests /\ Idle.session = NoSession /\ Idle.version = 0 /\ Idle.role = "NONE"
          /\ Idle.barred = FALSE /\ Idle.ok = FALSE
    BY IdleIsARequest DEF Idle
  <2>2. r.kind \in RequestKinds
    BY DEF Requests
  <2>3. Outcome(ok, r) = [Idle EXCEPT !.at = "answering", !.kind = r.kind]
    BY <1>3 DEF Outcome
  <2> QED BY <1>1, <1>3, <2>1, <2>2, <2>3 DEF Requests
<1> QED BY <1>2, <1>3

\* An answer keeps the invariant if nobody is served who is locked out or never
\* held the role.
LEMMA OutcomeIsSound ==
  ASSUME RecordsAreTyped, TypeOK', TablesAreSound, TablesAge, NEW c \in Callers,
         RequestIsSound(c), NEW ok \in BOOLEAN, request'[c] = Outcome(ok, request[c]),
         ok /\ request[c].kind \in {"check", "change", "event", "edge"} => ~request[c].barred,
         ok /\ request[c].kind \in {"change", "event"} => request[c].held
  PROVE  RequestIsSound(c)'
<1>1. request[c] \in Requests
  BY DEF RecordsAreTyped
<1>2. /\ request'[c].at = "answering" /\ request'[c].kind = request[c].kind
      /\ request'[c].ok = ok /\ request'[c].role = "NONE"
      /\ ok  => /\ request'[c].session = request[c].session
                /\ request'[c].target = request[c].target
                /\ request'[c].version = request[c].version
                /\ request'[c].barred = request[c].barred /\ request'[c].held = request[c].held
      /\ ~ok => /\ request'[c].session = NoSession
                /\ request'[c].version = 0
                /\ ~request'[c].barred
  BY <1>1, OutcomeIsARequest
<1>3. request[c].session # NoSession => session'[request[c].session].state # "NONE"
  BY SessionIsKnown DEF TablesAge, SessionsAge
<1>4. request[c].kind = "edge" =>
        /\ c \in Edges /\ 0 <= edge'[c].version
        /\ request[c].version <= edge'[c].version
  <2> SUFFICES ASSUME request[c].kind = "edge"
               PROVE  /\ c \in Edges /\ 0 <= edge'[c].version
                      /\ request[c].version <= edge'[c].version
    OBVIOUS
  <2>1. c \in Edges /\ request[c].version <= edge[c].version
    BY DEF RequestIsSound, PhaseIsSound
  <2>2. edge[c].version <= edge'[c].version
    BY <2>1 DEF TablesAge, EdgesAge
  <2>3. request[c].version \in Nat /\ edge[c].version \in Nat /\ edge'[c].version \in Nat
    BY <1>1, <2>1, AccessAssumptions DEF RecordsAreTyped, TypeOK, Requests
  <2> QED BY <2>1, <2>2, <2>3
<1>5. PhaseIsSound(c)'
  BY <1>2, <1>3, <1>4 DEF PhaseIsSound
<1>6. RefusalIsSound(c)'
  BY <1>2 DEF RefusalIsSound
<1>7. HeldIsSound(c)'
  BY <1>2 DEF HeldIsSound
<1> QED BY <1>5, <1>6, <1>7 DEF RequestIsSound

-----------------------------------------------------------------------------
(* Steps that move one request.                                            *)

\* What a step of one request must establish.
LEMMA InvariantByOne ==
  ASSUME AccessInv, NEW c \in Callers, NEW r \in Requests, Move(c, r), UNCHANGED command,
         TypeOK', TablesAreSound', TablesAge, RequestIsSound(c)', InFlightIsExact'
  PROVE  AccessInv'
<1>1. request' \in [Callers -> Requests] /\ command' \subseteq Commands
  BY MoveIsTyped DEF AccessInv, RecordsAreTyped
<1>2. \A d \in Callers : RequestIsSound(d)'
  BY OneMovesOthersWait DEF AccessInv
<1> QED BY <1>1, <1>2 DEF AccessInv, RecordsAreTyped

\* The types of the tables do not depend on the requests.
LEMMA TypesOfTables ==
  ASSUME TypeOK, request' \in [Callers -> Requests],
         UNCHANGED <<rows, browser>>,
         account' \in [Operators -> 1..MaxAccounts], code' \in [Operators -> BOOLEAN],
         inFlight' \in [Policies -> Nat], events' \in 0..MaxEvents
  PROVE  TypeOK'
<1>1. \A c \in Callers : request'[c].at \in Phases /\ request'[c].user \in Users
  BY DEF Requests
<1> QED BY <1>1 DEF TypeOK, rows, browser

\* Tables that stay as they are stay sound.
LEMMA TablesThatStayAreSound ==
  ASSUME TablesAreSound, UNCHANGED <<rows, command, jar>>
  PROVE  TablesAreSound'
<1>1. session' = session /\ identity' = identity /\ challenge' = challenge /\ edge' = edge
  BY DEF rows
<1> QED BY <1>1 DEF TablesAreSound, SessionIsSound

\* A step that leaves the tables alone.
LEMMA InvariantByRequest ==
  ASSUME AccessInv, NEW c \in Callers, NEW r \in Requests, Move(c, r),
         UNCHANGED <<rows, account, command, browser>>,
         code' \in [Operators -> BOOLEAN], events' \in 0..MaxEvents,
         TypeOK' => RequestIsSound(c)', InFlightIsExact', inFlight' \in [Policies -> Nat]
  PROVE  AccessInv'
<1>1. request' \in [Callers -> Requests]
  BY MoveIsTyped DEF AccessInv, RecordsAreTyped
<1>2. TypeOK'
  BY <1>1, TypesOfTables DEF AccessInv, RecordsAreTyped, TypeOK
<1>3. TablesAreSound' /\ TablesAge
  BY TablesThatStayAreSound, TablesThatStayAge DEF AccessInv, browser
<1> QED BY <1>2, <1>3, InvariantByOne

\* A phase of the handler that goes on to the next one.
LEMMA PhaseStep ==
  ASSUME AccessInv, NEW c \in Callers, NEW r \in Requests, Move(c, r),
         UNCHANGED <<rows, account, command, browser, events, inFlight>>,
         code' \in [Operators -> BOOLEAN],
         Busy(request[c]), Busy(r), SameSubject(c), PhaseIsSound(c)',
         r.at \in {"projecting", "reading", "authorizing"} => Authenticates(request[c].session)
  PROVE  AccessInv'
<1>1. request'[c] = r /\ r.at # "answering"
  BY MoveIsTyped DEF AccessInv, RecordsAreTyped, Busy
<1>2. Policy(r) = Policy(request[c])
  BY <1>1 DEF SameSubject, Policy
<1>3. InFlightIsExact'
  BY <1>2, CountOnMove DEF AccessInv, RecordsAreTyped
<1>4. TypeOK' => RequestIsSound(c)'
  BY <1>1, StandingIsKept, TablesThatStayAge DEF AccessInv, RequestIsSound
<1> QED BY <1>3, <1>4, InvariantByRequest DEF AccessInv, RecordsAreTyped, TypeOK

\* A phase that answers.
LEMMA AnswerStep ==
  ASSUME AccessInv, NEW c \in Callers, NEW ok \in BOOLEAN, Answer(c, ok, request[c]),
         UNCHANGED <<rows, account, command, browser, events>>,
         code' \in [Operators -> BOOLEAN],
         Busy(request[c]),
         ok /\ request[c].kind \in {"check", "change", "event", "edge"} => ~request[c].barred,
         ok /\ request[c].kind \in {"change", "event"} => request[c].held
  PROVE  AccessInv'
<1>1. Outcome(ok, request[c]) \in Requests /\ Outcome(ok, request[c]).at = "answering"
  BY OutcomeIsARequest DEF AccessInv, RecordsAreTyped
<1>2. Move(c, Outcome(ok, request[c])) /\ Leave(Policy(request[c]))
  BY DEF Answer
<1>3. request'[c] = Outcome(ok, request[c])
  BY <1>1, <1>2, MoveIsTyped DEF AccessInv, RecordsAreTyped
<1>4. InFlightIsExact' /\ inFlight' \in [Policies -> Nat]
  BY <1>1, <1>2, CountOnLeave DEF AccessInv, RecordsAreTyped, TypeOK, Busy
<1>5. TypeOK' => RequestIsSound(c)'
  BY <1>3, OutcomeIsSound, TablesThatStayAge DEF AccessInv
<1> QED BY <1>1, <1>2, <1>4, <1>5, InvariantByRequest DEF AccessInv, RecordsAreTyped, TypeOK

-----------------------------------------------------------------------------
(* Requests arrive and are admitted.                                       *)

\* A request as a caller sends it.
IsNew(c, r) ==
  /\ r.actor \in Operators \/ r.kind # "begin"
  /\ ~r.ok /\ r.role = "NONE"
  /\ r.kind = "edge" => c \in Edges /\ r.version \in 1..edge[c].version
  /\ r.session # NoSession =>
       session[r.session].state # "NONE" /\ r.kind \in {"check", "change", "event", "logout"}

\* The moment a request arrives says whether its caller is locked out and holds
\* the role in the target.
LEMMA ArriveKeepsInvariant ==
  ASSUME AccessInv, NEW c \in Callers, NEW r \in Requests, IsNew(c, r), Arrive(c, r)
  PROVE  AccessInv'
<1> DEFINE waits == r.session # NoSession /\ r.kind # "logout"
           at == IF waits THEN "authenticating" ELSE "admitted"
           new == [r EXCEPT !.at = at, !.barred = Barred(c, r), !.held = Holds(r)]
<1>1. Move(c, new) /\ request[c] = Idle /\ Happens
        /\ (IF waits THEN MayEnter(Policy(r)) /\ Enter(Policy(r)) ELSE UNCHANGED inFlight)
        /\ UNCHANGED <<rows, provider, command, browser>>
  BY DEF Arrive
<1>2. /\ new \in Requests /\ new.at = at /\ new.barred = Barred(c, r) /\ new.held = Holds(r)
      /\ new.kind = r.kind /\ new.session = r.session /\ new.version = r.version
      /\ new.actor = r.actor /\ new.org = r.org /\ new.target = r.target
      /\ new.role = r.role /\ new.ok = r.ok /\ new.challenge = r.challenge
  <2>1. Barred(c, r) \in BOOLEAN /\ Holds(r) \in BOOLEAN
    BY DEF Barred, LockedOut, Holds
  <2>2. at \in Phases
    BY DEF Phases
  <2> HIDE DEF at, waits
  <2> QED BY <2>1, <2>2 DEF Requests
<1>3. Policy(new) = Policy(r)
  BY <1>2 DEF Policy
<1>4. request[c].at = "idle"
  BY <1>1 DEF Idle
<1> HIDE DEF new
<1>5. InFlightIsExact' /\ inFlight' \in [Policies -> Nat]
  <2>1. inFlight \in [Policies -> Nat] /\ InFlightIsExact /\ request \in [Callers -> Requests]
    BY DEF AccessInv, RecordsAreTyped, TypeOK
  <2>2. CASE waits
    <3>1. ~Busy(request[c]) /\ Busy(new)
      BY <1>2, <1>4, <2>2 DEF Busy
    <3>2. MayEnter(Policy(new)) /\ Enter(Policy(new))
      BY <1>1, <1>3, <2>2
    <3>3. InFlightIsExact'
      BY <1>1, <2>1, <3>1, <3>2, CountOnEnter
    <3>4. inFlight' \in [Policies -> Nat]
      BY <2>1, <3>2, PolicyIsKnown DEF Enter
    <3> QED BY <3>3, <3>4
  <2>3. CASE ~waits
    <3>1. ~Busy(request[c]) /\ ~Busy(new)
      BY <1>2, <1>4, <2>3 DEF Busy
    <3> QED BY <1>1, <2>1, <2>3, <3>1, CountOnMove
  <2> QED BY <2>2, <2>3
<1>6. request'[c] = new
  BY <1>1, <1>2, MoveIsTyped DEF AccessInv, RecordsAreTyped
<1>7. UNCHANGED <<session, identity, role, edge>>
  BY <1>1 DEF rows
<1>8. r.kind = "edge" => /\ c \in Edges /\ r.version <= edge[c].version
                         /\ r.version \in Nat /\ edge[c].version \in Nat
                         /\ edge[c].state \in {"ACTIVE", "REVOKED"}
  <2> SUFFICES ASSUME r.kind = "edge"
               PROVE  /\ c \in Edges /\ r.version <= edge[c].version
                      /\ r.version \in Nat /\ edge[c].version \in Nat
                      /\ edge[c].state \in {"ACTIVE", "REVOKED"}
    OBVIOUS
  <2>1. c \in Edges /\ r.version \in 1..edge[c].version /\ r.version \in Nat
    BY DEF IsNew, Requests
  <2>2. edge[c].version \in Nat /\ edge[c].state \in {"NONE", "ACTIVE", "REVOKED"}
    BY <2>1, AccessAssumptions DEF AccessInv, RecordsAreTyped, TypeOK
  <2>3. edge[c].state = "NONE" => edge[c].version = 0
    BY <2>1 DEF AccessInv, TablesAreSound
  <2> QED BY <2>1, <2>2, <2>3
<1>9. PhaseIsSound(c)'
  BY <1>2, <1>6, <1>7, <1>8 DEF PhaseIsSound, IsNew
<1>10. RefusalIsSound(c)'
  <2>1. r.role # "ADMIN" /\ at \notin {"projecting", "reading", "authorizing", "answering"}
    BY DEF IsNew
  <2>2. Barred(c, r) /\ r.kind = "edge" => edge[c].state = "REVOKED" \/ r.version < edge[c].version
    BY <1>8 DEF Barred, LockedOut
  <2>3. Barred(c, r) /\ r.kind # "edge" /\ r.session # NoSession => IsOver(r.session)
    BY DEF Barred, IsOver
  <2> HIDE DEF at
  <2> QED BY <1>2, <1>6, <1>7, <2>1, <2>2, <2>3 DEF RefusalIsSound, IsOver
<1>11. HeldIsSound(c)'
  <2>1. r.role # "ADMIN" /\ at # "answering"
    BY DEF IsNew
  <2> HIDE DEF at
  <2> QED BY <1>2, <1>6, <1>7, <2>1 DEF HeldIsSound, Holds, IsNew
<1>12. events' \in 0..MaxEvents
  BY <1>1, AccessAssumptions DEF Happens, AccessInv, RecordsAreTyped, TypeOK
<1>13. code' \in [Operators -> BOOLEAN] /\ UNCHANGED account
  BY <1>1 DEF provider, AccessInv, RecordsAreTyped, TypeOK
<1> QED BY <1>1, <1>2, <1>5, <1>9, <1>10, <1>11, <1>12, <1>13, InvariantByRequest DEF RequestIsSound

\* What the tabs, the tools and the Edges send is new.
LEMMA CallersKeepInvariant ==
  ASSUME AccessInv,
         \/ \E t \in Tabs : \/ SubmitCredentials(t) \/ SubmitCode(t) \/ ResendCode(t)
                            \/ CheckSession(t) \/ SignOut(t) \/ Work(t)
         \/ \E c \in Tools : FromTool(c)
         \/ \E e \in Edges : FromEdge(e)
  PROVE  AccessInv'
<1>1. /\ jar.session \in Sessions \cup {NoSession} /\ jar.login \in Challenges \cup {NoChallenge}
      /\ jar.session # NoSession => session[jar.session].state # "NONE"
  BY DEF AccessInv, RecordsAreTyped, TypeOK, TablesAreSound
<1>2. ASSUME NEW t \in Tabs, SubmitCredentials(t)
      PROVE  AccessInv'
  <2>1. PICK o \in Operators : Arrive(t, [Idle EXCEPT !.kind = "begin", !.actor = o])
    BY <1>2 DEF SubmitCredentials
  <2>2. [Idle EXCEPT !.kind = "begin", !.actor = o] \in Requests
    BY IdleIsARequest DEF Requests, RequestKinds, LoginKinds
  <2>3. IsNew(t, [Idle EXCEPT !.kind = "begin", !.actor = o])
    BY DEF IsNew, Idle
  <2> QED BY <2>1, <2>2, <2>3, ArriveKeepsInvariant DEF Callers
<1>3. ASSUME NEW t \in Tabs, NEW kind \in {"verify", "resend"},
             Arrive(t, [Idle EXCEPT !.kind = kind, !.challenge = jar.login])
      PROVE  AccessInv'
  <2>1. [Idle EXCEPT !.kind = kind, !.challenge = jar.login] \in Requests
    BY <1>1, IdleIsARequest DEF Requests, RequestKinds, LoginKinds
  <2>2. IsNew(t, [Idle EXCEPT !.kind = kind, !.challenge = jar.login])
    BY DEF IsNew, Idle
  <2> QED BY <1>3, <2>1, <2>2, ArriveKeepsInvariant DEF Callers
<1>4. ASSUME NEW t \in Tabs, NEW kind \in {"check", "logout"},
             Arrive(t, [Idle EXCEPT !.kind = kind, !.session = jar.session])
      PROVE  AccessInv'
  <2>1. [Idle EXCEPT !.kind = kind, !.session = jar.session] \in Requests
    BY <1>1, IdleIsARequest DEF Requests, RequestKinds, OperatorKinds
  <2>2. IsNew(t, [Idle EXCEPT !.kind = kind, !.session = jar.session])
    BY <1>1 DEF IsNew, Idle
  <2> QED BY <1>4, <2>1, <2>2, ArriveKeepsInvariant DEF Callers
<1>5. ASSUME NEW c \in Callers, NEW s \in Sessions \cup {NoSession},
             s # NoSession => session[s].state # "NONE",
             Mutate(c, s)
      PROVE  AccessInv'
  <2>1. PICK kind \in {"change", "event"}, g \in Organisations \cup {NoOrganisation},
             h \in Organisations :
          Arrive(c, [Idle EXCEPT !.kind = kind, !.session = s, !.org = g, !.target = h])
    BY <1>5 DEF Mutate
  <2> DEFINE r == [Idle EXCEPT !.kind = kind, !.session = s, !.org = g, !.target = h]
  <2>2. r \in Requests
    BY IdleIsARequest DEF Requests, RequestKinds, OperatorKinds
  <2>3. IsNew(c, r)
    BY <1>5 DEF IsNew, Idle
  <2> QED BY <2>1, <2>2, <2>3, ArriveKeepsInvariant
<1>6. ASSUME NEW e \in Edges, FromEdge(e)
      PROVE  AccessInv'
  <2>1. PICK v \in 1..edge[e].version : Arrive(e, [Idle EXCEPT !.kind = "edge", !.version = v])
    BY <1>6 DEF FromEdge
  <2>2. v \in Nat
    BY <2>1, AccessAssumptions DEF AccessInv, RecordsAreTyped, TypeOK
  <2>3. [Idle EXCEPT !.kind = "edge", !.version = v] \in Requests
    BY <2>2, IdleIsARequest DEF Requests, RequestKinds
  <2>4. IsNew(e, [Idle EXCEPT !.kind = "edge", !.version = v])
    BY DEF IsNew, Idle
  <2> QED BY <2>1, <2>3, <2>4, ArriveKeepsInvariant DEF Callers
<1> QED BY <1>1, <1>2, <1>3, <1>4, <1>5, <1>6
        DEF SubmitCode, ResendCode, CheckSession, SignOut, Work, FromTool, Callers

\* What the invariant says of the request of one caller.
LEMMA RequestOf ==
  ASSUME AccessInv, NEW c \in Callers
  PROVE  /\ request[c] \in Requests
         /\ PhaseIsSound(c) /\ RefusalIsSound(c) /\ HeldIsSound(c)
         /\ RecordsAreTyped /\ TypeOK /\ TablesAreSound
  BY DEF AccessInv, RecordsAreTyped, RequestIsSound

\* A session that authenticates names an operator.
LEMMA AuthenticatedIsKnown ==
  ASSUME AccessInv, NEW c \in Callers, Authenticates(request[c].session)
  PROVE  /\ request[c].session \in Sessions /\ request[c].session # NoSession
         /\ session[request[c].session].actor \in Operators
         /\ ~IsOver(request[c].session)
<1>1. request[c].session # NoSession
  BY DEF Authenticates
<1> QED BY <1>1, SessionIsKnown DEF AccessInv, Authenticates, IsOver

\* Leaving the guard for the queue of the handler: nothing is answered yet.
LEMMA AdmitStep ==
  ASSUME AccessInv, NEW c \in Callers, NEW r \in Requests, Move(c, r),
         Busy(request[c]), r.at = "admitted", Leave(Policy(request[c])),
         RequestIsSound(c)', UNCHANGED <<rows, provider, command, browser, events>>
  PROVE  AccessInv'
<1>1. InFlightIsExact' /\ inFlight' \in [Policies -> Nat]
  BY CountOnLeave DEF Busy, AccessInv, RecordsAreTyped, TypeOK
<1> QED BY <1>1, InvariantByRequest DEF provider, AccessInv, RecordsAreTyped, TypeOK

\* The guard lets a request past only while its session authenticates.
LEMMA AuthenticateKeepsInvariant ==
  ASSUME AccessInv, NEW c \in Callers, Authenticate(c)
  PROVE  AccessInv'
<1> DEFINE r == request[c]
           actor == session[r.session].actor
           at == IF r.org = NoOrganisation THEN "admitted" ELSE "projecting"
           new == [r EXCEPT !.actor = actor, !.at = at]
<1>1. r \in Requests /\ r.at = "authenticating" /\ PhaseIsSound(c) /\ Busy(r)
        /\ UNCHANGED <<rows, provider, command, browser, events>>
  BY RequestOf DEF Authenticate, At, Busy
<1>2. CASE ~Authenticates(r.session)
  BY <1>1, <1>2, AnswerStep DEF Authenticate, provider, AccessInv, RecordsAreTyped, TypeOK
<1>3. CASE Authenticates(r.session)
  <2>1. actor \in Operators /\ r.session # NoSession
    BY <1>3, AuthenticatedIsKnown
  <2>2. Move(c, new)
          /\ IF r.org = NoOrganisation THEN Leave(Policy(r)) ELSE UNCHANGED inFlight
    BY <1>3 DEF Authenticate
  <2>3. /\ new \in Requests /\ new.at = at /\ new.actor = actor
        /\ new.kind = r.kind /\ new.session = r.session /\ new.version = r.version
        /\ new.org = r.org /\ new.target = r.target /\ new.role = r.role /\ new.ok = r.ok
        /\ new.barred = r.barred /\ new.held = r.held /\ new.challenge = r.challenge
    <3>1. at \in Phases
      BY DEF Phases
    <3> HIDE DEF at
    <3> QED BY <1>1, <2>1, <3>1 DEF Requests
  <2>4. request'[c] = new
    BY <2>2, <2>3, MoveIsTyped DEF AccessInv, RecordsAreTyped
  <2> HIDE DEF new, actor
  <2>5. SameSubject(c)
    BY <2>3, <2>4 DEF SameSubject
  <2>6. PhaseIsSound(c)'
    <3>1. UNCHANGED <<session, edge>>
      BY <1>1 DEF rows
    <3> QED BY <1>1, <2>1, <2>3, <2>4, <3>1 DEF PhaseIsSound, actor
  <2>7. CASE r.org = NoOrganisation
    <3>1. new.at = "admitted"
      BY <2>3, <2>7
    <3>2. TypeOK' => RequestIsSound(c)'
      BY <1>1, <2>4, <2>5, <2>6, <3>1, StandingIsKept, TablesThatStayAge
         DEF AccessInv, RequestIsSound
    <3>3. InFlightIsExact' /\ inFlight' \in [Policies -> Nat]
      BY <1>1, <2>2, <2>7, <3>1, CountOnLeave DEF Busy, AccessInv, RecordsAreTyped, TypeOK
    <3> QED BY <1>1, <2>2, <2>3, <2>7, <3>2, <3>3, InvariantByRequest
            DEF provider, AccessInv, RecordsAreTyped, TypeOK
  <2>8. CASE r.org # NoOrganisation
    <3>1. new.at = "projecting" /\ Busy(new)
      BY <2>3, <2>8 DEF Busy
    <3>2. Move(c, new) /\ UNCHANGED inFlight
      BY <2>2, <2>8
    <3>3. code' \in [Operators -> BOOLEAN] /\ UNCHANGED account
      BY <1>1 DEF provider, AccessInv, RecordsAreTyped, TypeOK
    <3> QED BY <1>1, <1>3, <2>3, <2>5, <2>6, <3>1, <3>2, <3>3, PhaseStep
  <2> QED BY <2>7, <2>8
<1> QED BY <1>2, <1>3

\* The role that is read in the selected organisation is held if that is the
\* target.
LEMMA ProjectKeepsInvariant ==
  ASSUME AccessInv, NEW c \in Callers, Project(c)
  PROVE  AccessInv'
<1> DEFINE r == request[c]
           found == Membership(r.actor, r.org)
           new == [r EXCEPT !.role = found, !.at = "admitted"]
<1>1. /\ r \in Requests /\ r.at = "projecting" /\ Busy(r)
      /\ PhaseIsSound(c) /\ RefusalIsSound(c) /\ HeldIsSound(c)
      /\ UNCHANGED <<rows, provider, command, browser, events>>
      /\ Move(c, new) /\ Leave(Policy(r))
  BY RequestOf DEF Project, At, Busy
<1>2. r.session # NoSession /\ r.actor = session[r.session].actor /\ ~r.barred
        /\ r.kind \in {"check", "change", "event"} /\ ~r.ok
  BY <1>1 DEF PhaseIsSound, RefusalIsSound
<1>3. r.actor \in Operators
  BY <1>2, SessionIsKnown DEF AccessInv
<1>4. found \in Roles \cup {"NONE"}
  BY <1>1, <1>3 DEF Membership, Requests, AccessInv, RecordsAreTyped, TypeOK
<1>5. found = "ADMIN" => r.org # NoOrganisation /\ role[r.actor][r.org] = "ADMIN"
  BY DEF Membership
<1> HIDE DEF found
<1>6. /\ new \in Requests /\ new.at = "admitted" /\ new.role = found
      /\ new.actor = r.actor
      /\ new.kind = r.kind /\ new.session = r.session /\ new.version = r.version
      /\ new.org = r.org /\ new.target = r.target /\ new.ok = r.ok
      /\ new.barred = r.barred /\ new.held = r.held /\ new.challenge = r.challenge
  BY <1>1, <1>4 DEF Requests, Phases
<1> HIDE DEF new
<1>7. request'[c] = new /\ UNCHANGED <<session, identity, role, edge>>
  BY <1>1, <1>6, MoveIsTyped DEF AccessInv, RecordsAreTyped, rows
<1>8. PhaseIsSound(c)'
  BY <1>1, <1>2, <1>6, <1>7 DEF PhaseIsSound
<1>9. RefusalIsSound(c)'
  BY <1>2, <1>6, <1>7 DEF RefusalIsSound
<1>10. HeldIsSound(c)'
  BY <1>1, <1>2, <1>5, <1>6, <1>7 DEF HeldIsSound
<1> QED BY <1>1, <1>6, <1>8, <1>9, <1>10, AdmitStep DEF RequestIsSound

\* The interceptor lets a request in below the limit, or refuses it.
LEMMA InterceptKeepsInvariant ==
  ASSUME AccessInv, NEW c \in Callers, Intercept(c)
  PROVE  AccessInv'
<1> DEFINE r == request[c]
           new == [r EXCEPT !.at = "handling"]
           refused == [Idle EXCEPT !.at = "answering", !.kind = "refused"]
<1>1. r \in Requests /\ r.at = "admitted" /\ PhaseIsSound(c) /\ ~Busy(r)
        /\ UNCHANGED <<rows, provider, command, browser, events>>
  BY RequestOf DEF Intercept, At, Busy
<1>2. CASE MayEnter(Policy(r))
  <2>1. Move(c, new) /\ Enter(Policy(r))
    BY <1>2 DEF Intercept
  <2>2. /\ new \in Requests /\ new.at = "handling" /\ new.role = r.role
        /\ new.actor = r.actor /\ new.kind = r.kind /\ new.session = r.session
        /\ new.version = r.version /\ new.org = r.org /\ new.target = r.target /\ new.ok = r.ok
        /\ new.barred = r.barred /\ new.held = r.held /\ new.challenge = r.challenge
    BY <1>1 DEF Requests, Phases
  <2> HIDE DEF new
  <2>3. request'[c] = new /\ UNCHANGED <<session, edge>>
    BY <1>1, <2>1, <2>2, MoveIsTyped DEF AccessInv, RecordsAreTyped, rows
  <2>4. PhaseIsSound(c)'
    BY <1>1, <2>2, <2>3 DEF PhaseIsSound
  <2>5. TypeOK' => RequestIsSound(c)'
    BY <1>1, <2>2, <2>3, <2>4, StandingIsKept, TablesThatStayAge
       DEF AccessInv, RequestIsSound, SameSubject
  <2>6. Policy(new) = Policy(r) /\ Busy(new)
    BY <2>2 DEF Policy, Busy
  <2>7. InFlightIsExact'
    BY <1>1, <1>2, <2>1, <2>6, CountOnEnter DEF AccessInv, RecordsAreTyped, TypeOK
  <2>8. inFlight' \in [Policies -> Nat]
    BY <2>1, PolicyIsKnown DEF Enter, AccessInv, RecordsAreTyped, TypeOK
  <2> QED BY <1>1, <2>1, <2>2, <2>5, <2>7, <2>8, InvariantByRequest
          DEF provider, AccessInv, RecordsAreTyped, TypeOK
<1>3. CASE ~MayEnter(Policy(r))
  <2>1. Move(c, refused) /\ UNCHANGED inFlight
    BY <1>3 DEF Intercept
  <2>2. /\ refused \in Requests /\ refused.at = "answering" /\ refused.kind = "refused"
        /\ refused.session = NoSession /\ ~refused.barred /\ ~refused.ok
    BY IdleIsARequest DEF Requests, Phases, RequestKinds, Idle
  <2> HIDE DEF refused
  <2>3. request'[c] = refused
    BY <2>1, <2>2, MoveIsTyped DEF AccessInv, RecordsAreTyped
  <2>4. RequestIsSound(c)'
    BY <2>2, <2>3 DEF RequestIsSound, PhaseIsSound, RefusalIsSound, HeldIsSound
  <2>5. ~Busy(refused)
    BY <2>2 DEF Busy
  <2>6. InFlightIsExact'
    BY <1>1, <2>1, <2>5, CountOnMove DEF AccessInv, RecordsAreTyped
  <2> QED BY <1>1, <2>1, <2>2, <2>4, <2>6, InvariantByRequest
          DEF provider, AccessInv, RecordsAreTyped, TypeOK
<1> QED BY <1>2, <1>3

-----------------------------------------------------------------------------
(* Phases of the handlers that only read the tables.                       *)

\* A request that goes on to another phase with the same subject.
Continues(c, r) ==
  /\ r.kind = request[c].kind /\ r.session = request[c].session
  /\ r.version = request[c].version /\ r.org = request[c].org /\ r.target = request[c].target
  /\ r.role = request[c].role /\ r.barred = request[c].barred /\ r.held = request[c].held
  /\ r.ok = request[c].ok

\* What the phases of the handlers require of a request, by itself.
FitsItsPhase(r) ==
  /\ r.at \in {"proved", "selected", "sending", "verifying", "issuing", "reading",
               "authorizing", "touching"}
  /\ r.kind = "begin" => r.actor \in Operators
  /\ r.at \in {"proved", "selected"} => r.kind = "begin"
  /\ r.at = "sending" => r.kind \in {"begin", "resend"} /\ r.actor \in Operators
  /\ r.at \in {"verifying", "issuing"} =>
       r.kind = "verify" /\ r.actor \in Operators /\ r.challenge # NoChallenge
  /\ r.at = "issuing" => r.user # NoUser
  /\ r.at = "reading" => r.kind = "check"
  /\ r.at = "authorizing" => r.kind = "event"
  /\ r.at = "touching" => r.kind = "edge" /\ r.seen = r.version
  /\ r.at \in {"reading", "authorizing"} =>
       Authenticates(r.session) /\ r.actor = session[r.session].actor

\* A phase of the handler fits its request while the tables stay.
LEMMA ContinuedIsSound ==
  ASSUME AccessInv, NEW c \in Callers, Busy(request[c]), request[c].at # "authenticating",
         NEW r, Continues(c, r), FitsItsPhase(r), request'[c] = r,
         TypeOK', TablesAge, UNCHANGED <<session, edge>>
  PROVE  RequestIsSound(c)'
<1>1. PhaseIsSound(c) /\ request[c].at # "answering"
  BY RequestOf DEF Busy
<1>2. PhaseIsSound(c)'
  BY <1>1 DEF PhaseIsSound, Continues, FitsItsPhase, Authenticates
<1>3. SameSubject(c)
  BY DEF Continues, SameSubject
<1>4. r.at \notin {"answering", "projecting"}
        /\ (r.at \in {"reading", "authorizing"} => Authenticates(request[c].session))
  BY DEF FitsItsPhase, Continues
<1>5. RefusalIsSound(c)' /\ HeldIsSound(c)'
  BY <1>3, <1>4, StandingIsKept DEF AccessInv
<1> QED BY <1>2, <1>5 DEF RequestIsSound

\* The same, for a step that leaves the tables alone.
LEMMA ContinueStep ==
  ASSUME AccessInv, NEW c \in Callers, request[c].at # "authenticating", Busy(request[c]),
         NEW r \in Requests, Continues(c, r), FitsItsPhase(r), Move(c, r),
         UNCHANGED <<rows, account, command, browser, events, inFlight>>,
         code' \in [Operators -> BOOLEAN]
  PROVE  AccessInv'
<1>1. request'[c] = r
  BY MoveIsTyped DEF AccessInv, RecordsAreTyped
<1>2. TypeOK' => RequestIsSound(c)'
  BY <1>1, ContinuedIsSound, TablesThatStayAge DEF AccessInv, rows
<1>3. Busy(r) /\ Policy(r) = Policy(request[c])
  BY DEF FitsItsPhase, Continues, Policy, Busy
<1>4. InFlightIsExact'
  BY <1>3, CountOnMove DEF AccessInv, RecordsAreTyped
<1> QED BY <1>2, <1>4, InvariantByRequest DEF AccessInv, RecordsAreTyped, TypeOK

\* What a handler starts from when it reads the tables and writes none.
LEMMA HandlerStarts ==
  ASSUME AccessInv, NEW c \in Callers, UNCHANGED <<rows, provider, command, browser, events>>
  PROVE  /\ request[c] \in Requests /\ PhaseIsSound(c) /\ RefusalIsSound(c) /\ HeldIsSound(c)
         /\ UNCHANGED <<rows, account, command, browser, events>>
         /\ code' \in [Operators -> BOOLEAN]
         /\ account \in [Operators -> Users] /\ \A o \in Operators : account[o] # NoUser
         /\ \A ch \in Challenges : challenge[ch].state = "OPEN" => challenge[ch].actor \in Operators
<1>1. account \in [Operators -> 1..MaxAccounts] /\ code \in [Operators -> BOOLEAN]
  BY RequestOf DEF TypeOK
<1>2. account \in [Operators -> Users] /\ \A o \in Operators : account[o] # NoUser
  BY <1>1, AccessAssumptions DEF Users, NoUser
<1> QED BY <1>1, <1>2, RequestOf DEF provider, TablesAreSound

\* The handlers that sign in.
LEMMA SignInPhasesKeepInvariant ==
  ASSUME AccessInv, NEW c \in Callers,
         ProvePassword(c) \/ SelectIdentity(c) \/ ReadChallenge(c)
  PROVE  AccessInv'
<1> DEFINE r == request[c]
<1>1. UNCHANGED <<rows, provider, command, browser, events>>
  BY DEF ProvePassword, SelectIdentity, ReadChallenge
<1>2. /\ r \in Requests /\ PhaseIsSound(c)
      /\ UNCHANGED <<rows, account, command, browser, events>>
      /\ code' \in [Operators -> BOOLEAN]
  BY <1>1, HandlerStarts
<1>3. r.at \in {"handling", "proved"} /\ r.kind \in {"begin", "verify"}
        /\ Busy(r) /\ r.at # "authenticating"
  BY DEF ProvePassword, SelectIdentity, ReadChallenge, At, Busy
<1>4. CASE Answer(c, FALSE, r)
  BY <1>2, <1>3, <1>4, AnswerStep
<1>5. CASE UNCHANGED inFlight /\ Move(c, [r EXCEPT !.at = "proved", !.user = account[r.actor]])
            /\ r.kind = "begin"
  <2> DEFINE new == [r EXCEPT !.at = "proved", !.user = account[r.actor]]
  <2>1. r.actor \in Operators
    BY <1>2, <1>3, <1>5 DEF PhaseIsSound
  <2>2. account[r.actor] \in Users
    BY <1>1, <2>1, HandlerStarts
  <2>3. new \in Requests /\ new.at = "proved" /\ Continues(c, new) /\ new.actor = r.actor
    BY <1>2, <2>2 DEF Requests, Continues, Phases
  <2> HIDE DEF new
  <2>4. FitsItsPhase(new)
    BY <1>5, <2>1, <2>3 DEF FitsItsPhase, Continues
  <2> QED BY <1>2, <1>3, <1>5, <2>3, <2>4, ContinueStep DEF new
<1>6. CASE UNCHANGED inFlight /\ Move(c, [r EXCEPT !.at = "selected"]) /\ r.kind = "begin"
  <2> DEFINE new == [r EXCEPT !.at = "selected"]
  <2>1. r.actor \in Operators
    BY <1>2, <1>3, <1>6 DEF PhaseIsSound
  <2>2. new \in Requests /\ new.at = "selected" /\ Continues(c, new) /\ new.actor = r.actor
    BY <1>2 DEF Requests, Continues, Phases
  <2> HIDE DEF new
  <2>3. FitsItsPhase(new)
    BY <1>6, <2>1, <2>2 DEF FitsItsPhase, Continues
  <2> QED BY <1>2, <1>3, <1>6, <2>2, <2>3, ContinueStep DEF new
<1>7. CASE /\ UNCHANGED inFlight /\ IsOpen(r.challenge) /\ r.kind = "verify"
           /\ Move(c, [r EXCEPT !.at = "verifying", !.actor = challenge[r.challenge].actor])
  <2> DEFINE new == [r EXCEPT !.at = "verifying", !.actor = challenge[r.challenge].actor]
  <2>1. r.challenge \in Challenges /\ r.challenge # NoChallenge
    BY <1>2, <1>7 DEF IsOpen, Requests
  <2>2. challenge[r.challenge].actor \in Operators
    BY <1>1, <1>7, <2>1, HandlerStarts DEF IsOpen
  <2>3. new \in Requests /\ new.at = "verifying" /\ Continues(c, new)
          /\ new.actor \in Operators /\ new.challenge = r.challenge
    BY <1>2, <2>2 DEF Requests, Continues, Phases
  <2> HIDE DEF new
  <2>4. FitsItsPhase(new)
    BY <1>7, <2>1, <2>3 DEF FitsItsPhase, Continues
  <2> QED BY <1>2, <1>3, <1>7, <2>3, <2>4, ContinueStep DEF new
<1>8. CASE ProvePassword(c)
  BY <1>4, <1>5, <1>8 DEF ProvePassword
<1>9. CASE SelectIdentity(c)
  BY <1>4, <1>6, <1>9 DEF SelectIdentity
<1>10. CASE ReadChallenge(c)
  BY <1>4, <1>7, <1>10 DEF ReadChallenge
<1> QED BY <1>8, <1>9, <1>10

\* The handlers that serve operators: each decides again, or trusts what the
\* guard has found since the request arrived.
LEMMA ServingPhasesKeepInvariant ==
  ASSUME AccessInv, NEW c \in Callers,
         \/ Check(c) \/ ReadProfile(c) \/ Change(c)
         \/ ContextForEvent(c) \/ AuthorizeOrganisation(c)
  PROVE  AccessInv'
<1> DEFINE r == request[c]
<1>1. UNCHANGED <<rows, provider, command, browser, events>>
  BY DEF Check, ReadProfile, Change, ContextForEvent, AuthorizeOrganisation
<1>2. /\ r \in Requests /\ PhaseIsSound(c) /\ RefusalIsSound(c) /\ HeldIsSound(c)
      /\ UNCHANGED <<rows, account, command, browser, events>>
      /\ code' \in [Operators -> BOOLEAN]
  BY <1>1, HandlerStarts
<1>3. Busy(r) /\ r.at # "authenticating"
  BY DEF Check, ReadProfile, Change, ContextForEvent, AuthorizeOrganisation, At, Busy
<1>4. ASSUME NEW at \in {"reading", "authorizing"}, UNCHANGED inFlight,
             Authenticates(r.session),
             at = "reading" => r.kind = "check", at = "authorizing" => r.kind = "event",
             Move(c, [r EXCEPT !.at = at, !.actor = session[r.session].actor])
      PROVE  AccessInv'
  <2> DEFINE new == [r EXCEPT !.at = at, !.actor = session[r.session].actor]
  <2>1. session[r.session].actor \in Operators
    BY <1>4, AuthenticatedIsKnown
  <2>2. new \in Requests /\ new.at = at /\ Continues(c, new)
          /\ new.actor = session[r.session].actor
    BY <1>2, <2>1 DEF Requests, Continues, Phases
  <2> HIDE DEF new
  <2>3. FitsItsPhase(new)
    BY <1>4, <2>1, <2>2 DEF FitsItsPhase, Continues
  <2> QED BY <1>2, <1>3, <1>4, <2>2, <2>3, ContinueStep DEF new
<1>5. CASE Answer(c, FALSE, r)
  BY <1>2, <1>3, <1>5, AnswerStep
<1>6. CASE Check(c)
  BY <1>4, <1>5, <1>6 DEF Check
<1>7. CASE ContextForEvent(c)
  BY <1>4, <1>5, <1>7 DEF ContextForEvent
<1>8. CASE ReadProfile(c)
  <2>1. Answer(c, identity[r.actor].status = "ACTIVE", r) /\ r.at = "reading"
    BY <1>8 DEF ReadProfile, At
  <2>2. r.kind = "check" /\ ~r.barred
    BY <1>2, <2>1 DEF PhaseIsSound, RefusalIsSound
  <2> QED BY <1>2, <1>3, <2>1, <2>2, AnswerStep
<1>9. CASE Change(c)
  <2>1. Answer(c, AdminOfTarget(r), r) /\ r.kind = "change"
    BY <1>9 DEF Change
  <2>2. AdminOfTarget(r) => ~r.barred /\ r.held
    BY <1>2, <2>1 DEF AdminOfTarget, RefusalIsSound, HeldIsSound
  <2>3. AdminOfTarget(r) \in BOOLEAN
    BY DEF AdminOfTarget
  <2> QED BY <1>2, <1>3, <2>1, <2>2, <2>3, AnswerStep
<1>10. CASE AuthorizeOrganisation(c)
  <2>1. Answer(c, Membership(r.actor, r.target) = "ADMIN", r) /\ r.at = "authorizing"
    BY <1>10 DEF AuthorizeOrganisation, AdminThere, At
  <2>2. r.kind = "event" /\ ~r.barred
    BY <1>2, <2>1 DEF PhaseIsSound, RefusalIsSound
  <2>3. r.session # NoSession /\ r.actor = session[r.session].actor
    BY <1>2, <2>1 DEF PhaseIsSound
  <2>4. Membership(r.actor, r.target) = "ADMIN" => r.held
    BY <1>2, <2>2, <2>3 DEF Membership, HeldIsSound
  <2> QED BY <1>2, <1>3, <2>1, <2>2, <2>4, AnswerStep
<1> QED BY <1>6, <1>7, <1>8, <1>9, <1>10

\* An Edge is let in by the credential it has when its row is touched.
LEMMA CredentialPhasesKeepInvariant ==
  ASSUME AccessInv, NEW e \in Edges, ReadCredential(e) \/ TouchCredential(e)
  PROVE  AccessInv'
<1> DEFINE r == request[e]
<1>1. UNCHANGED <<rows, provider, command, browser, events>> /\ e \in Callers
  BY DEF ReadCredential, TouchCredential, Callers
<1>2. /\ r \in Requests /\ PhaseIsSound(e) /\ RefusalIsSound(e)
      /\ UNCHANGED <<rows, account, command, browser, events>>
      /\ code' \in [Operators -> BOOLEAN]
  BY <1>1, HandlerStarts
<1>3. Busy(r) /\ r.at # "authenticating" /\ r.kind = "edge"
  BY <1>2 DEF ReadCredential, TouchCredential, At, Busy, PhaseIsSound
<1>4. CASE Answer(e, FALSE, r)
  BY <1>1, <1>2, <1>3, <1>4, AnswerStep
<1>5. CASE /\ Move(e, [r EXCEPT !.at = "touching", !.seen = edge[e].version])
           /\ UNCHANGED inFlight /\ edge[e].version = r.version
  <2> DEFINE new == [r EXCEPT !.at = "touching", !.seen = edge[e].version]
  <2>1. /\ new \in Requests /\ new.at = "touching" /\ Continues(e, new)
        /\ new.seen = new.version
    BY <1>2, <1>5 DEF Requests, Continues, Phases
  <2> HIDE DEF new
  <2>2. FitsItsPhase(new)
    BY <1>3, <2>1 DEF FitsItsPhase, Continues
  <2> QED BY <1>1, <1>2, <1>3, <1>5, <2>1, <2>2, ContinueStep DEF new
<1>6. CASE ReadCredential(e)
  BY <1>4, <1>5, <1>6 DEF ReadCredential, Matches
<1>7. CASE TouchCredential(e)
  <2>1. Answer(e, IsCurrent(e, r.seen), r) /\ IsCurrent(e, r.seen) \in BOOLEAN
    BY <1>7 DEF TouchCredential, IsCurrent
  <2>2. IsCurrent(e, r.seen) => ~r.barred
    <3>1. edge[e].version \in Nat
      BY AccessAssumptions DEF AccessInv, RecordsAreTyped, TypeOK
    <3>2. r.seen = r.version
      BY <1>2, <1>7 DEF TouchCredential, At, PhaseIsSound
    <3> QED BY <1>2, <1>3, <3>1, <3>2 DEF IsCurrent, RefusalIsSound
  <2> QED BY <1>1, <1>2, <1>3, <2>1, <2>2, AnswerStep
<1> QED BY <1>6, <1>7

-----------------------------------------------------------------------------
(* Handlers that write the tables.                                         *)

ChallengeRecords ==
  [state : {"NONE", "OPEN", "DONE"}, user : Users,
   actor : Operators \cup {NoOperator}, waited : BOOLEAN]
SessionRecords ==
  [state : {"NONE", "ACTIVE", "EXPIRED", "REVOKED"}, actor : Operators \cup {NoOperator},
   user : Users, by : Challenges \cup {NoChallenge}]

\* A challenge that is spent stays spent, and none is of a stranger.
ChallengesAge ==
  /\ challenge' \in [Challenges -> ChallengeRecords]
  /\ \A ch \in Challenges :
       /\ challenge[ch].state = "DONE" => challenge'[ch].state = "DONE"
       /\ challenge'[ch].state = "OPEN" => challenge'[ch].actor \in Operators

\* Challenges that age leave the tables sound.
LEMMA ChallengesThatAge ==
  ASSUME AccessInv, ChallengesAge, UNCHANGED <<identity, role, session, edge, command, jar>>
  PROVE  TablesAreSound' /\ TablesAge
<1>1. /\ TablesAreSound /\ session \in [Sessions -> SessionRecords]
      /\ \A e \in Edges : edge[e].version \in Nat
  BY AccessAssumptions DEF AccessInv, RecordsAreTyped, TypeOK, SessionRecords
<1>2. \A s \in Sessions : session[s].by \in Challenges \cup {NoChallenge}
  BY <1>1 DEF SessionRecords
<1>3. TablesAreSound'
  BY <1>1, <1>2 DEF TablesAreSound, SessionIsSound, ChallengesAge
<1>4. TablesAge
  BY <1>1 DEF TablesAge, SessionsAge, IdentitiesAge, EdgesAge, RolesFall
<1> QED BY <1>3, <1>4

\* Types of the tables when challenges and sessions change.
LEMMA TypesOfChanges ==
  ASSUME TypeOK, request' \in [Callers -> Requests],
         identity' \in [Operators -> [status : {"NONE", "ACTIVE", "REVOKED"}, user : Users]],
         challenge' \in [Challenges -> ChallengeRecords],
         session' \in [Sessions -> SessionRecords],
         UNCHANGED <<role, edge, browser, account>>,
         code' \in [Operators -> BOOLEAN], inFlight' \in [Policies -> Nat],
         events' \in 0..MaxEvents
  PROVE  TypeOK'
<1>1. \A c \in Callers : request'[c].at \in Phases /\ request'[c].user \in Users
  BY DEF Requests
<1> QED BY <1>1 DEF TypeOK, browser, ChallengeRecords, SessionRecords

\* What a challenge becomes when one field of it changes.
LEMMA ChangedChallenge ==
  ASSUME AccessInv, NEW ch \in Challenges, NEW state \in {"OPEN", "DONE"},
         NEW waited \in BOOLEAN,
         challenge[ch].state = "DONE" => state = "DONE",
         state = "OPEN" => challenge[ch].state = "OPEN",
         challenge' \in {[challenge EXCEPT ![ch].state = state],
                         [challenge EXCEPT ![ch].waited = waited]}
  PROVE  ChallengesAge
<1>1. challenge \in [Challenges -> ChallengeRecords]
        /\ \A k \in Challenges : challenge[k].state = "OPEN" => challenge[k].actor \in Operators
  BY DEF AccessInv, RecordsAreTyped, TypeOK, ChallengeRecords, TablesAreSound
<1>2. /\ [challenge[ch] EXCEPT !.state = state] \in ChallengeRecords
      /\ [challenge[ch] EXCEPT !.state = state].state = state
      /\ [challenge[ch] EXCEPT !.state = state].actor = challenge[ch].actor
      /\ [challenge[ch] EXCEPT !.waited = waited] \in ChallengeRecords
      /\ [challenge[ch] EXCEPT !.waited = waited].state = challenge[ch].state
      /\ [challenge[ch] EXCEPT !.waited = waited].actor = challenge[ch].actor
  BY <1>1 DEF ChallengeRecords
<1>3. PICK new \in ChallengeRecords :
        /\ challenge' = [challenge EXCEPT ![ch] = new]
        /\ new.actor = challenge[ch].actor /\ new.state \in {state, challenge[ch].state}
  BY <1>2
<1> QED BY <1>1, <1>3 DEF ChallengesAge

\* A new login draws a challenge that nobody has used.
LEMMA InsertChallengeKeepsInvariant ==
  ASSUME AccessInv, NEW c \in Callers, InsertChallenge(c)
  PROVE  AccessInv'
<1> DEFINE r == request[c]
<1>1. PICK ch \in Challenges :
        /\ challenge[ch].state = "NONE"
        /\ challenge' = [challenge EXCEPT ![ch] =
             [state |-> "OPEN", actor |-> r.actor, user |-> r.user, waited |-> FALSE]]
        /\ Move(c, [r EXCEPT !.at = "sending", !.challenge = ch])
  BY DEF InsertChallenge
<1>2. /\ r \in Requests /\ PhaseIsSound(c) /\ r.at = "selected"
      /\ UNCHANGED <<identity, role, session, edge, provider, command, browser, inFlight, events>>
  BY RequestOf DEF InsertChallenge, At
<1>3. r.kind = "begin" /\ r.actor \in Operators /\ r.user \in Users
  BY <1>2 DEF PhaseIsSound, Requests
<1> DEFINE new == [r EXCEPT !.at = "sending", !.challenge = ch]
<1>4. new \in Requests /\ new.at = "sending" /\ Continues(c, new) /\ new.actor = r.actor
        /\ new.challenge = ch
  BY <1>2 DEF Requests, Continues, Phases
<1>5. Move(c, new)
  BY <1>1
<1> HIDE DEF new
<1>6. ChallengesAge
  <2>1. challenge \in [Challenges -> ChallengeRecords]
          /\ \A k \in Challenges : challenge[k].state = "OPEN" => challenge[k].actor \in Operators
    BY DEF AccessInv, RecordsAreTyped, TypeOK, ChallengeRecords, TablesAreSound
  <2>2. [state |-> "OPEN", actor |-> r.actor, user |-> r.user, waited |-> FALSE]
          \in ChallengeRecords
    BY <1>3 DEF ChallengeRecords
  <2> QED BY <1>1, <1>3, <2>1, <2>2 DEF ChallengesAge
<1>7. TablesAreSound' /\ TablesAge
  BY <1>2, <1>6, ChallengesThatAge DEF browser
<1>8. TypeOK /\ code' \in [Operators -> BOOLEAN] /\ UNCHANGED account
        /\ session \in [Sessions -> SessionRecords] /\ inFlight' \in [Policies -> Nat]
        /\ identity \in [Operators -> [status : {"NONE", "ACTIVE", "REVOKED"}, user : Users]]
        /\ events' \in 0..MaxEvents
  BY <1>2 DEF provider, AccessInv, RecordsAreTyped, TypeOK, SessionRecords
<1>9. request' \in [Callers -> Requests] /\ request'[c] = new
  BY <1>4, <1>5, MoveIsTyped DEF AccessInv, RecordsAreTyped
<1>10. TypeOK'
  BY <1>2, <1>6, <1>8, <1>9, TypesOfChanges DEF ChallengesAge
<1>11. FitsItsPhase(new)
  BY <1>3, <1>4 DEF FitsItsPhase, Continues
<1>12. RequestIsSound(c)'
  BY <1>2, <1>4, <1>7, <1>9, <1>10, <1>11, ContinuedIsSound DEF Busy
<1>13. Busy(new) /\ Policy(new) = Policy(r) /\ Busy(r)
  BY <1>2, <1>4 DEF Busy, Policy, Continues
<1>14. InFlightIsExact'
  BY <1>2, <1>5, <1>13, CountOnMove DEF AccessInv, RecordsAreTyped
<1> QED BY <1>2, <1>4, <1>5, <1>7, <1>10, <1>12, <1>14, InvariantByOne

\* An answer that is not about serving, after a change of the challenges.
LEMMA AnswerAfterChallenge ==
  ASSUME AccessInv, NEW c \in Callers, NEW ok \in BOOLEAN, Answer(c, ok, request[c]),
         Busy(request[c]), request[c].kind \in LoginKinds, ChallengesAge,
         UNCHANGED <<identity, role, session, edge, account, command, browser, events>>,
         code' \in [Operators -> BOOLEAN]
  PROVE  AccessInv'
<1>1. Outcome(ok, request[c]) \in Requests /\ Outcome(ok, request[c]).at = "answering"
  BY OutcomeIsARequest DEF AccessInv, RecordsAreTyped
<1>2. Move(c, Outcome(ok, request[c])) /\ Leave(Policy(request[c]))
  BY DEF Answer
<1>3. request'[c] = Outcome(ok, request[c]) /\ request' \in [Callers -> Requests]
  BY <1>1, <1>2, MoveIsTyped DEF AccessInv, RecordsAreTyped
<1>4. InFlightIsExact' /\ inFlight' \in [Policies -> Nat]
  BY <1>1, <1>2, CountOnLeave DEF AccessInv, RecordsAreTyped, TypeOK, Busy
<1>5. TablesAreSound' /\ TablesAge
  BY ChallengesThatAge DEF browser
<1>6. TypeOK /\ session \in [Sessions -> SessionRecords] /\ events' \in 0..MaxEvents
        /\ identity \in [Operators -> [status : {"NONE", "ACTIVE", "REVOKED"}, user : Users]]
  BY DEF AccessInv, RecordsAreTyped, TypeOK, SessionRecords
<1>7. TypeOK'
  BY <1>3, <1>4, <1>6, TypesOfChanges DEF ChallengesAge
<1>8. request[c].kind \notin {"check", "change", "event", "edge"}
  BY DEF LoginKinds
<1>9. RequestIsSound(c)'
  BY <1>3, <1>5, <1>7, <1>8, OutcomeIsSound DEF AccessInv
<1> QED BY <1>1, <1>2, <1>4, <1>5, <1>7, <1>9, InvariantByOne

\* A session stays or ends; nothing else of its row changes.
SessionsEnd ==
  /\ session' \in [Sessions -> SessionRecords]
  /\ \A s \in Sessions :
       /\ session'[s].actor = session[s].actor /\ session'[s].by = session[s].by
       /\ session'[s].user = session[s].user
       /\ \/ session'[s].state = session[s].state
          \/ session'[s].state \in {"EXPIRED", "REVOKED"} /\ session[s].state # "NONE"

\* One session that ends is a step of that kind.
LEMMA EndedSession ==
  ASSUME AccessInv, NEW s \in Sessions, session[s].state # "NONE",
         NEW state \in {"EXPIRED", "REVOKED"},
         session' = [session EXCEPT ![s].state = state]
  PROVE  SessionsEnd
<1>1. session \in [Sessions -> SessionRecords] /\ session[s].actor \in Operators
  BY DEF AccessInv, RecordsAreTyped, TypeOK, SessionRecords, TablesAreSound, SessionIsSound
<1> DEFINE new == [session[s] EXCEPT !.state = state]
<1>2. /\ new \in SessionRecords /\ new.state = state /\ new.actor = session[s].actor
      /\ new.by = session[s].by /\ new.user = session[s].user
  BY <1>1 DEF SessionRecords
<1>3. session' = [session EXCEPT ![s] = new]
  OBVIOUS
<1> HIDE DEF new
<1> QED BY <1>1, <1>2, <1>3 DEF SessionsEnd

\* Sessions that end leave the tables sound.
LEMMA SessionsThatEnd ==
  ASSUME AccessInv, SessionsEnd, UNCHANGED <<identity, role, challenge, edge, command, jar>>
  PROVE  TablesAreSound' /\ TablesAge
<1>1. TablesAreSound /\ TypeOK /\ \A e \in Edges : edge[e].version \in Nat
  BY AccessAssumptions DEF AccessInv, RecordsAreTyped, TypeOK
<1>2. \A s \in Sessions : session[s].state # "NONE" => session'[s].state # "NONE"
  BY DEF SessionsEnd
<1>3. SessionsAge
  BY <1>2 DEF SessionsEnd, SessionsAge
<1>4. TablesAge
  BY <1>1, <1>3 DEF TablesAge, IdentitiesAge, EdgesAge, RolesFall
<1>5. \A s \in Sessions : SessionIsSound(s)'
  BY <1>1, <1>2 DEF SessionsEnd, TablesAreSound, SessionIsSound
<1>6. jar.session # NoSession => jar.session \in Sessions
  BY <1>1 DEF TypeOK
<1>7. TablesAreSound'
  BY <1>1, <1>2, <1>5, <1>6 DEF TablesAreSound
<1> QED BY <1>4, <1>7
\* A new login's challenge ends when its code cannot be sent; one that waits for
\* a code sent again stays open.
LEMMA SendCodeKeepsInvariant ==
  ASSUME AccessInv, NEW c \in Callers, SendCode(c)
  PROVE  AccessInv'
<1> DEFINE r == request[c]
<1>1. /\ r \in Requests /\ PhaseIsSound(c) /\ r.at = "sending" /\ Busy(r)
      /\ UNCHANGED <<identity, role, session, edge, account, command, browser, events>>
  BY RequestOf DEF SendCode, At, Busy
<1>2. r.kind \in LoginKinds /\ code \in [Operators -> BOOLEAN]
        /\ challenge \in [Challenges -> ChallengeRecords]
        /\ \A k \in Challenges : challenge[k].state = "OPEN" => challenge[k].actor \in Operators
  BY <1>1 DEF PhaseIsSound, LoginKinds, AccessInv, RecordsAreTyped, TypeOK, ChallengeRecords,
              TablesAreSound
<1>3. CASE code' = [code EXCEPT ![r.actor] = TRUE] /\ Answer(c, TRUE, r) /\ UNCHANGED challenge
  <2>1. ChallengesAge /\ code' \in [Operators -> BOOLEAN]
    BY <1>2, <1>3 DEF ChallengesAge
  <2> QED BY <1>1, <1>2, <1>3, <2>1, AnswerAfterChallenge
<1>4. CASE /\ challenge' = [challenge EXCEPT ![r.challenge].state =
                              IF r.kind = "begin" THEN "DONE" ELSE @]
           /\ Answer(c, FALSE, r) /\ UNCHANGED code
  <2>1. ASSUME NEW k \in Challenges
        PROVE  /\ [challenge[k] EXCEPT !.state = "DONE"] \in ChallengeRecords
               /\ [challenge[k] EXCEPT !.state = "DONE"].state = "DONE"
               /\ [challenge[k] EXCEPT !.state = challenge[k].state] = challenge[k]
    BY <1>2 DEF ChallengeRecords
  <2>2. \A k \in Challenges :
          \/ challenge'[k] = challenge[k]
          \/ challenge'[k] \in ChallengeRecords /\ challenge'[k].state = "DONE"
    BY <1>2, <1>4, <2>1
  <2>3. DOMAIN challenge' = Challenges /\ challenge' = [k \in Challenges |-> challenge'[k]]
    BY <1>2, <1>4
  <2>4. ChallengesAge
    <3>1. \A k \in Challenges : challenge'[k] \in ChallengeRecords
      BY <1>2, <2>2
    <3> QED BY <1>2, <2>2, <2>3, <3>1 DEF ChallengesAge
  <2> QED BY <1>1, <1>2, <1>4, <2>4, AnswerAfterChallenge
<1> QED BY <1>3, <1>4 DEF SendCode

\* A resend spends the minute that has passed and waits for the provider.
LEMMA ResendKeepsInvariant ==
  ASSUME AccessInv, NEW c \in Callers, Resend(c)
  PROVE  AccessInv'
<1> DEFINE r == request[c]
<1>1. /\ r \in Requests /\ PhaseIsSound(c) /\ r.at = "handling" /\ r.kind = "resend" /\ Busy(r)
      /\ UNCHANGED <<identity, role, session, edge, provider, command, browser, events>>
  BY RequestOf DEF Resend, At, Busy
<1>2. TypeOK /\ code' \in [Operators -> BOOLEAN] /\ UNCHANGED account
        /\ session \in [Sessions -> SessionRecords] /\ inFlight \in [Policies -> Nat]
        /\ identity \in [Operators -> [status : {"NONE", "ACTIVE", "REVOKED"}, user : Users]]
        /\ events' \in 0..MaxEvents
  BY <1>1 DEF provider, AccessInv, RecordsAreTyped, TypeOK, SessionRecords
<1>3. CASE IsOpen(r.challenge) /\ challenge[r.challenge].waited
  <2> DEFINE ch == r.challenge
             new == [r EXCEPT !.at = "sending", !.actor = challenge[ch].actor]
  <2>1. /\ challenge' = [challenge EXCEPT ![ch].waited = FALSE]
        /\ Move(c, new) /\ UNCHANGED inFlight
    BY <1>3 DEF Resend
  <2>2. ch \in Challenges /\ challenge[ch].state = "OPEN"
    BY <1>1, <1>3 DEF IsOpen, Requests
  <2>3. challenge[ch].actor \in Operators
    BY <2>2 DEF AccessInv, TablesAreSound
  <2>4. new \in Requests /\ new.at = "sending" /\ Continues(c, new) /\ new.actor \in Operators
    BY <1>1, <2>3 DEF Requests, Continues, Phases
  <2> HIDE DEF new
  <2>5. ChallengesAge
    BY <2>1, <2>2, ChangedChallenge
  <2>6. TablesAreSound' /\ TablesAge
    BY <1>1, <2>5, ChallengesThatAge DEF browser
  <2>7. request' \in [Callers -> Requests] /\ request'[c] = new
    BY <2>1, <2>4, MoveIsTyped DEF AccessInv, RecordsAreTyped
  <2>8. TypeOK'
    BY <1>1, <1>2, <2>1, <2>5, <2>7, TypesOfChanges DEF ChallengesAge
  <2>9. FitsItsPhase(new)
    BY <1>1, <2>4 DEF FitsItsPhase, Continues
  <2>10. RequestIsSound(c)'
    BY <1>1, <2>4, <2>6, <2>7, <2>8, <2>9, ContinuedIsSound
  <2>11. Busy(new) /\ Policy(new) = Policy(r)
    BY <2>4 DEF Busy, Policy, Continues
  <2>12. InFlightIsExact'
    BY <1>1, <2>1, <2>11, CountOnMove DEF AccessInv, RecordsAreTyped
  <2> QED BY <1>1, <2>1, <2>4, <2>6, <2>8, <2>10, <2>12, InvariantByOne
<1>4. CASE ~(IsOpen(r.challenge) /\ challenge[r.challenge].waited)
  <2>1. Answer(c, FALSE, r) /\ UNCHANGED rows
    BY <1>1, <1>4 DEF Resend, rows
  <2> QED BY <1>1, <1>2, <2>1, AnswerStep
<1> QED BY <1>3, <1>4

\* Verifying the code spends it at the provider.
LEMMA VerifyCodeKeepsInvariant ==
  ASSUME AccessInv, NEW c \in Callers, VerifyCode(c)
  PROVE  AccessInv'
<1> DEFINE r == request[c]
<1>1. /\ r \in Requests /\ PhaseIsSound(c) /\ r.at = "verifying" /\ Busy(r)
      /\ UNCHANGED <<rows, account, command, browser, events>>
      /\ account \in [Operators -> 1..MaxAccounts] /\ code \in [Operators -> BOOLEAN]
  BY RequestOf DEF VerifyCode, At, Busy, TypeOK
<1>2. r.kind = "verify" /\ r.actor \in Operators /\ r.challenge # NoChallenge
  BY <1>1 DEF PhaseIsSound
<1>3. code' \in [Operators -> BOOLEAN]
  BY <1>1 DEF VerifyCode
<1>4. CASE Answer(c, FALSE, r)
  BY <1>1, <1>3, <1>4, AnswerStep
<1>5. CASE UNCHANGED inFlight /\ Move(c, [r EXCEPT !.at = "issuing", !.user = account[r.actor]])
  <2> DEFINE new == [r EXCEPT !.at = "issuing", !.user = account[r.actor]]
  <2>1. account[r.actor] \in Users /\ account[r.actor] # NoUser
    BY <1>1, <1>2, AccessAssumptions DEF Users, NoUser
  <2>2. new \in Requests /\ new.at = "issuing" /\ Continues(c, new)
          /\ new.actor = r.actor /\ new.user = account[r.actor] /\ new.challenge = r.challenge
    BY <1>1, <2>1 DEF Requests, Continues, Phases
  <2> HIDE DEF new
  <2>3. FitsItsPhase(new)
    BY <1>2, <2>1, <2>2 DEF FitsItsPhase, Continues
  <2> QED BY <1>1, <1>3, <1>5, <2>2, <2>3, ContinueStep DEF new
<1> QED BY <1>4, <1>5 DEF VerifyCode

\* The transaction finds the challenge open, so no session has come from it, and
\* the operator unbound or bound to the user whom the code has proved.
LEMMA IssueSessionKeepsInvariant ==
  ASSUME AccessInv, NEW c \in Callers, IssueSession(c)
  PROVE  AccessInv'
<1> DEFINE r == request[c]
           ch == r.challenge
           actor == r.actor
           user == r.user
<1>1. /\ r \in Requests /\ PhaseIsSound(c) /\ r.at = "issuing" /\ Busy(r)
      /\ UNCHANGED <<role, edge, provider, command, browser, events>>
  BY RequestOf DEF IssueSession, At, Busy
<1>2. r.kind = "verify" /\ actor \in Operators /\ ch # NoChallenge /\ user \in Users
        /\ user # NoUser
  BY <1>1 DEF PhaseIsSound, Requests
<1>3. /\ TypeOK /\ TablesAreSound /\ UNCHANGED account
      /\ code' \in [Operators -> BOOLEAN] /\ events' \in 0..MaxEvents
      /\ inFlight \in [Policies -> Nat]
      /\ session \in [Sessions -> SessionRecords]
      /\ challenge \in [Challenges -> ChallengeRecords]
      /\ identity \in [Operators -> [status : {"NONE", "ACTIVE", "REVOKED"}, user : Users]]
      /\ \A e \in Edges : edge[e].version \in Nat
  BY <1>1, AccessAssumptions
     DEF provider, AccessInv, RecordsAreTyped, TypeOK, SessionRecords, ChallengeRecords
<1>4. CASE ~MayIssue(r)
  <2>1. Answer(c, FALSE, r) /\ UNCHANGED rows
    BY <1>1, <1>4 DEF IssueSession, rows
  <2> QED BY <1>1, <1>3, <2>1, AnswerStep
<1>5. CASE MayIssue(r)
  <2>1. PICK s \in Sessions :
          /\ session[s].state = "NONE"
          /\ session' = [session EXCEPT ![s] =
               [state |-> "ACTIVE", actor |-> actor, user |-> user, by |-> ch]]
          /\ challenge' = [challenge EXCEPT ![ch].state = "DONE"]
          /\ identity' = [identity EXCEPT ![actor].user = IF @ = NoUser THEN user ELSE @]
          /\ Answer(c, TRUE, [r EXCEPT !.session = s])
    BY <1>5 DEF IssueSession
  <2>2. /\ ch \in Challenges /\ challenge[ch].state = "OPEN"
        /\ identity[actor].status = "ACTIVE" /\ identity[actor].user \in {NoUser, user}
    BY <1>1, <1>5 DEF MayIssue, IsOpen, Requests
  <2>3. ChallengesAge /\ challenge'[ch].state = "DONE"
    <3>1. ChallengesAge
      BY <2>1, <2>2, ChangedChallenge
    <3> QED BY <1>3, <2>1, <2>2, <3>1
  <2> DEFINE added == [state |-> "ACTIVE", actor |-> actor, user |-> user, by |-> ch]
             bound == [identity[actor] EXCEPT !.user = user]
  <2>4. /\ added \in SessionRecords
        /\ added.state = "ACTIVE" /\ added.actor = actor /\ added.user = user /\ added.by = ch
    BY <1>2, <2>2 DEF SessionRecords
  <2>5. /\ bound \in [status : {"NONE", "ACTIVE", "REVOKED"}, user : Users]
        /\ bound.status = identity[actor].status /\ bound.user = user
    BY <1>2, <1>3
  <2>6. identity' = [identity EXCEPT ![actor] = bound]
    <3>1. (IF identity[actor].user = NoUser THEN user ELSE identity[actor].user) = user
      BY <2>2
    <3> QED BY <1>2, <1>3, <2>1, <3>1
  <2>7. session' = [session EXCEPT ![s] = added]
    BY <2>1
  <2> HIDE DEF added, bound
  <2>8. /\ session' \in [Sessions -> SessionRecords] /\ session'[s] = added
        /\ \A t \in Sessions : t # s => session'[t] = session[t]
    BY <1>3, <2>1, <2>4, <2>7
  <2>9. /\ identity' \in [Operators -> [status : {"NONE", "ACTIVE", "REVOKED"}, user : Users]]
        /\ identity'[actor].user = user
        /\ \A o \in Operators : /\ identity'[o].status = identity[o].status
                                /\ identity[o].user # NoUser => identity'[o].user = identity[o].user
    BY <1>2, <1>3, <2>2, <2>5, <2>6
  <2>10. \A t \in Sessions : session[t].by # ch
    BY <1>2, <1>3, <2>2 DEF TablesAreSound, SessionIsSound
  <2>11. \A t \in Sessions : SessionIsSound(t)'
    <3> SUFFICES ASSUME NEW t \in Sessions
                 PROVE  SessionIsSound(t)'
      OBVIOUS
    <3>1. CASE t = s
      <4>1. session'[t].actor \in Operators /\ identity'[session'[t].actor].status # "NONE"
        BY <1>2, <2>2, <2>4, <2>8, <2>9, <3>1
      <4>2. /\ session'[t].state # "NONE" /\ challenge'[session'[t].by].state = "DONE"
            /\ session'[t].user # NoUser
            /\ session'[t].user = identity'[session'[t].actor].user
        BY <1>2, <2>3, <2>4, <2>8, <2>9, <3>1
      <4>3. \A u \in Sessions : session'[u].by = session'[t].by => t = u
        BY <2>4, <2>8, <2>10, <3>1
      <4> QED BY <4>1, <4>2, <4>3 DEF SessionIsSound
    <3>2. CASE t # s
      <4>1. session'[t] = session[t] /\ SessionIsSound(t)
        BY <1>3, <2>8, <3>2 DEF TablesAreSound
      <4>2. session[t].by # NoChallenge =>
              /\ session[t].by \in Challenges /\ session[t].actor \in Operators
        BY <1>3, <4>1 DEF SessionIsSound, SessionRecords
      <4>3. session[t].by # NoChallenge => challenge'[session[t].by].state = "DONE"
        BY <2>3, <4>1, <4>2 DEF SessionIsSound, ChallengesAge
      <4>4. \A u \in Sessions : session'[u].by = session[t].by => session[u].by = session[t].by
        BY <2>4, <2>8, <2>10
      <4> QED BY <2>9, <4>1, <4>2, <4>3, <4>4 DEF SessionIsSound
    <3> QED BY <3>1, <3>2
  <2>12. TablesAge
    <3>1. SessionsAge
      BY <2>1, <2>8 DEF SessionsAge
    <3>2. IdentitiesAge
      BY <2>9 DEF IdentitiesAge
    <3>3. EdgesAge /\ RolesFall
      BY <1>1, <1>3 DEF EdgesAge, RolesFall
    <3> QED BY <3>1, <3>2, <3>3 DEF TablesAge
  <2>13. TablesAreSound'
    <3>1. \A x \in command : x.actor \in Operators
      BY DEF AccessInv, RecordsAreTyped, Commands
    <3>2. \A x \in command' : identity'[x.actor].status # "NONE"
      BY <1>1, <1>3, <2>9, <3>1 DEF TablesAreSound
    <3>3. jar.session # NoSession => jar.session \in Sessions
      BY <1>3 DEF TypeOK
    <3>4. (jar.session # NoSession => session[jar.session].state # "NONE")'
      BY <1>1, <1>3, <2>12, <3>3 DEF TablesAge, SessionsAge, TablesAreSound, browser
    <3>5. \A e \in Edges : edge'[e].state = "NONE" => edge'[e].version = 0
      BY <1>1, <1>3 DEF TablesAreSound
    <3> QED BY <2>3, <2>11, <3>2, <3>4, <3>5 DEF TablesAreSound, ChallengesAge
  <2> DEFINE asked == [r EXCEPT !.session = s]
             new == Outcome(TRUE, asked)
  <2>14. asked \in Requests /\ asked.kind = r.kind /\ asked.session = s
    BY <1>1 DEF Requests
  <2> HIDE DEF asked
  <2>15. new \in Requests /\ new.at = "answering" /\ new.kind = r.kind /\ new.session = s
    BY <2>14, OutcomeIsARequest
  <2>16. Move(c, new) /\ Leave(Policy(asked)) /\ Policy(asked) = Policy(r)
    <3>1. Move(c, new) /\ Leave(Policy(asked))
      BY <2>1 DEF Answer, asked
    <3>2. Policy(asked) = "LOGIN" /\ Policy(r) = "LOGIN"
      BY <1>2, <2>14 DEF Policy, LoginKinds
    <3> QED BY <3>1, <3>2
  <2> HIDE DEF new
  <2>17. request'[c] = new /\ request' \in [Callers -> Requests]
    BY <2>15, <2>16, MoveIsTyped DEF AccessInv, RecordsAreTyped
  <2>18. InFlightIsExact' /\ inFlight' \in [Policies -> Nat]
    BY <1>1, <1>3, <2>15, <2>16, CountOnLeave DEF AccessInv, RecordsAreTyped, Busy
  <2>19. TypeOK'
    BY <1>1, <1>3, <2>3, <2>8, <2>9, <2>17, <2>18, TypesOfChanges DEF ChallengesAge
  <2>20. RequestIsSound(c)'
    <3>1. new.kind = "verify" /\ session'[s].state = "ACTIVE"
      BY <1>2, <2>4, <2>8, <2>15
    <3> QED BY <2>15, <2>17, <3>1
            DEF RequestIsSound, PhaseIsSound, RefusalIsSound, HeldIsSound
  <2> QED BY <1>1, <2>12, <2>13, <2>15, <2>16, <2>18, <2>19, <2>20, InvariantByOne
<1> QED BY <1>4, <1>5

\* Whoever signs out is out, whatever the session was.
LEMMA LogoutKeepsInvariant ==
  ASSUME AccessInv, NEW c \in Callers, Logout(c)
  PROVE  AccessInv'
<1> DEFINE r == request[c]
<1>1. /\ r \in Requests /\ PhaseIsSound(c) /\ r.at = "handling" /\ r.kind = "logout" /\ Busy(r)
      /\ UNCHANGED <<identity, role, challenge, edge, provider, command, browser, events>>
      /\ Answer(c, TRUE, r)
  BY RequestOf DEF Logout, At, Busy
<1>2. /\ TypeOK /\ TablesAreSound /\ UNCHANGED account
      /\ code' \in [Operators -> BOOLEAN] /\ events' \in 0..MaxEvents
      /\ inFlight \in [Policies -> Nat]
      /\ session \in [Sessions -> SessionRecords]
      /\ challenge \in [Challenges -> ChallengeRecords]
      /\ identity \in [Operators -> [status : {"NONE", "ACTIVE", "REVOKED"}, user : Users]]
  BY <1>1 DEF provider, AccessInv, RecordsAreTyped, TypeOK, SessionRecords, ChallengeRecords
<1>3. r.session # NoSession => r.session \in Sessions /\ session[r.session].state # "NONE"
  BY <1>1 DEF PhaseIsSound, Requests
<1>4. SessionsEnd
  <2>1. CASE r.session = NoSession
    BY <1>1, <1>2, <2>1 DEF Logout, SessionsEnd
  <2>2. CASE r.session # NoSession
    BY <1>1, <1>2, <1>3, <2>2, EndedSession DEF Logout
  <2> QED BY <2>1, <2>2
<1>5. TablesAreSound' /\ TablesAge
  BY <1>1, <1>4, SessionsThatEnd DEF browser
<1>6. Outcome(TRUE, r) \in Requests /\ Outcome(TRUE, r).at = "answering"
  BY <1>1, OutcomeIsARequest
<1>7. Move(c, Outcome(TRUE, r)) /\ Leave(Policy(r))
  BY <1>1 DEF Answer
<1>8. request'[c] = Outcome(TRUE, r) /\ request' \in [Callers -> Requests]
  BY <1>6, <1>7, MoveIsTyped DEF AccessInv, RecordsAreTyped
<1>9. InFlightIsExact' /\ inFlight' \in [Policies -> Nat]
  BY <1>1, <1>2, <1>6, <1>7, CountOnLeave DEF AccessInv, RecordsAreTyped, Busy
<1>10. TypeOK'
  BY <1>1, <1>2, <1>4, <1>8, <1>9, TypesOfChanges DEF SessionsEnd
<1>11. RequestIsSound(c)'
  BY <1>1, <1>5, <1>8, <1>10, OutcomeIsSound DEF AccessInv
<1> QED BY <1>1, <1>5, <1>6, <1>7, <1>9, <1>10, <1>11, InvariantByOne

\* The answer reaches its caller, who keeps the session it names.
LEMMA ReceiveKeepsInvariant ==
  ASSUME AccessInv, NEW c \in Callers, Receive(c)
  PROVE  AccessInv'
<1> DEFINE r == request[c]
<1>1. /\ r \in Requests /\ PhaseIsSound(c) /\ r.at = "answering" /\ ~Busy(r)
      /\ Move(c, Idle) /\ UNCHANGED <<rows, provider, command, inFlight, events>>
      /\ TypeOK /\ TablesAreSound
  BY RequestOf DEF Receive, At, Busy
<1>2. /\ Idle \in Requests /\ Idle.at = "idle" /\ Idle.kind = "none" /\ Idle.session = NoSession
      /\ ~Idle.ok /\ ~Idle.barred
  BY IdleIsARequest DEF Idle
<1>3. request'[c] = Idle /\ request' \in [Callers -> Requests]
  BY <1>1, <1>2, MoveIsTyped DEF AccessInv, RecordsAreTyped
<1>4. RequestIsSound(c)'
  BY <1>2, <1>3 DEF RequestIsSound, PhaseIsSound, RefusalIsSound, HeldIsSound
<1>5. InFlightIsExact'
  BY <1>1, <1>2, CountOnMove DEF AccessInv, RecordsAreTyped, Busy
<1>6. UNCHANGED <<identity, role, challenge, session, edge, account, code>>
  BY <1>1 DEF rows, provider
<1>7. /\ jar \in [login : Challenges \cup {NoChallenge}, session : Sessions \cup {NoSession}]
      /\ r.challenge \in Challenges \cup {NoChallenge} /\ r.session \in Sessions \cup {NoSession}
      /\ r.session # NoSession => session[r.session].state # "NONE"
      /\ jar.session # NoSession => session[jar.session].state # "NONE"
  BY <1>1 DEF TypeOK, Requests, PhaseIsSound, TablesAreSound
<1>8. jar' \in {jar, [jar EXCEPT !.login = r.challenge],
                [login |-> NoChallenge, session |-> r.session],
                [login |-> NoChallenge, session |-> NoSession]}
  BY DEF Receive
<1>9. /\ jar' \in [login : Challenges \cup {NoChallenge}, session : Sessions \cup {NoSession}]
      /\ jar'.session \in {jar.session, r.session, NoSession}
  BY <1>7, <1>8
<1>10. page' \in [Tabs -> {"credentials", "verify", "home"}]
  <2>1. page \in [Tabs -> {"credentials", "verify", "home"}]
    BY <1>1 DEF TypeOK
  <2>2. \/ UNCHANGED page
        \/ \E to \in {"credentials", "verify", "home"} : page' = [page EXCEPT ![c] = to]
    <3>1. CASE c \notin Tabs
      BY <3>1 DEF Receive
    <3>2. CASE c \in Tabs
      <4>1. page[c] \in {"credentials", "verify", "home"}
        BY <2>1, <3>2
      <4>2. page' = [page EXCEPT ![c] =
              CASE r.kind = "begin" /\ r.ok -> "verify"
                [] r.kind \in {"verify", "check"} /\ r.ok -> "home"
                [] r.kind = "check" /\ ~r.ok -> "credentials"
                [] r.kind = "logout" /\ r.ok -> "credentials"
                [] OTHER -> page[c]]
        BY <3>2 DEF Receive
      <4> DEFINE to == CASE r.kind = "begin" /\ r.ok -> "verify"
                         [] r.kind \in {"verify", "check"} /\ r.ok -> "home"
                         [] r.kind = "check" /\ ~r.ok -> "credentials"
                         [] r.kind = "logout" /\ r.ok -> "credentials"
                         [] OTHER -> page[c]
      <4>3. to \in {"credentials", "verify", "home"}
        BY <4>1
      <4> HIDE DEF to
      <4> QED BY <4>2, <4>3 DEF to
    <3> QED BY <3>1, <3>2
  <2> QED BY <2>1, <2>2
<1>11. TypeOK'
  <2>1. \A d \in Callers : request'[d].at \in Phases /\ request'[d].user \in Users
    BY <1>3 DEF Requests
  <2> QED BY <1>1, <1>6, <1>9, <1>10, <2>1 DEF TypeOK
<1>12. TablesAreSound'
  BY <1>1, <1>6, <1>7, <1>9 DEF TablesAreSound, SessionIsSound
<1>13. TablesAge
  BY <1>1, TablesThatStayAge DEF AccessInv
<1> QED BY <1>1, <1>2, <1>4, <1>5, <1>11, <1>12, <1>13, InvariantByOne

-----------------------------------------------------------------------------
(* Steps that move no request: administrators, time, the provider.         *)

\* What such a step must establish.
LEMMA InvariantByTables ==
  ASSUME AccessInv, UNCHANGED <<request, inFlight>>, TypeOK', TablesAreSound', TablesAge,
         command' \subseteq Commands
  PROVE  AccessInv'
<1>1. \A c \in Callers : RequestIsSound(c)'
  BY WaitingIsSound DEF AccessInv
<1>2. InFlightIsExact'
  BY DEF AccessInv, InFlightIsExact, Inside
<1> QED BY <1>1, <1>2 DEF AccessInv, RecordsAreTyped

\* What the invariant says before such a step.
LEMMA TablesBefore ==
  ASSUME AccessInv
  PROVE  /\ TypeOK /\ TablesAreSound /\ command \subseteq Commands
         /\ request \in [Callers -> Requests] /\ inFlight \in [Policies -> Nat]
         /\ session \in [Sessions -> SessionRecords]
         /\ challenge \in [Challenges -> ChallengeRecords]
         /\ identity \in [Operators -> [status : {"NONE", "ACTIVE", "REVOKED"}, user : Users]]
         /\ role \in [Operators -> [Organisations -> Roles \cup {"NONE"}]]
         /\ edge \in [Edges -> [state : {"NONE", "ACTIVE", "REVOKED"}, version : 0..MaxVersion]]
         /\ \A e \in Edges : edge[e].version \in Nat
         /\ \A x \in command : x.actor \in Operators
         /\ code \in [Operators -> BOOLEAN] /\ account \in [Operators -> 1..MaxAccounts]
         /\ events \in 0..MaxEvents /\ MaxEvents \in Nat
         /\ jar.session # NoSession => jar.session \in Sessions
  BY AccessAssumptions
     DEF AccessInv, RecordsAreTyped, TypeOK, Commands, SessionRecords, ChallengeRecords

\* The bound on events keeps its type.
LEMMA EventIsCounted ==
  ASSUME AccessInv, Happens
  PROVE  events' \in 0..MaxEvents
  BY TablesBefore DEF Happens

\* An administrator adds an operator; nobody is bound or signed in as them yet.
LEMMA CreateIdentityKeepsInvariant ==
  ASSUME AccessInv, NEW o \in Operators, CreateIdentity(o)
  PROVE  AccessInv'
<1>1. /\ identity[o].status = "NONE"
      /\ identity' = [identity EXCEPT ![o].status = "ACTIVE"]
      /\ UNCHANGED <<role, challenge, session, edge, provider, command, browser,
                     request, inFlight, events>>
  BY DEF CreateIdentity, FirstStatus
<1> DEFINE added == [identity[o] EXCEPT !.status = "ACTIVE"]
<1>2. added \in [status : {"NONE", "ACTIVE", "REVOKED"}, user : Users]
        /\ added.status = "ACTIVE" /\ added.user = identity[o].user
  BY TablesBefore
<1>3. identity' = [identity EXCEPT ![o] = added]
  BY <1>1
<1> HIDE DEF added
<1>4. /\ identity' \in [Operators -> [status : {"NONE", "ACTIVE", "REVOKED"}, user : Users]]
      /\ \A p \in Operators : /\ identity'[p].user = identity[p].user
                              /\ identity'[p].status \in {identity[p].status, "ACTIVE"}
                              /\ identity[p].status # "NONE" =>
                                   identity'[p].status = identity[p].status
  BY <1>1, <1>2, <1>3, TablesBefore
<1>5. TypeOK'
  BY <1>1, <1>4, TablesBefore, TypesOfChanges DEF provider
<1>6. TablesAreSound'
  <2>1. \A s \in Sessions : SessionIsSound(s)'
    <3> SUFFICES ASSUME NEW s \in Sessions
                 PROVE  SessionIsSound(s)'
      OBVIOUS
    <3>1. SessionIsSound(s)
      BY TablesBefore DEF TablesAreSound
    <3> QED BY <1>1, <1>4, <3>1 DEF SessionIsSound
  <2>2. \A x \in command' : identity'[x.actor].status # "NONE"
    BY <1>1, <1>4, TablesBefore DEF TablesAreSound
  <2> QED BY <1>1, <2>1, <2>2, TablesBefore DEF TablesAreSound, browser
<1>7. TablesAge
  BY <1>1, <1>4, TablesBefore DEF TablesAge, SessionsAge, IdentitiesAge, EdgesAge, RolesFall
<1> QED BY <1>1, <1>5, <1>6, <1>7, TablesBefore, InvariantByTables

\* A command looks at its operator, who is active then.
LEMMA BeginCommandKeepsInvariant ==
  ASSUME AccessInv, NEW o \in Operators, BeginCommand(o)
  PROVE  AccessInv'
<1>1. PICK new \in [does : {"grant"}, actor : {o}, org : Organisations, role : Roles]
                     \cup [does : {"session"}, actor : {o}] :
        command' = command \cup {new}
  BY DEF BeginCommand
<1>2. /\ identity[o].status = "ACTIVE" /\ Happens
      /\ UNCHANGED <<rows, provider, browser, request, inFlight>>
  BY DEF BeginCommand
<1>3. new \in Commands /\ new.actor = o
  BY <1>1 DEF Commands
<1>4. command' \subseteq Commands
  BY <1>1, <1>3, TablesBefore
<1>5. TypeOK'
  BY <1>2, TablesBefore, EventIsCounted, TypesOfTables DEF provider
<1>6. TablesAreSound'
  <2>1. UNCHANGED <<identity, challenge, session, edge, jar>>
    BY <1>2 DEF rows, browser
  <2>2. \A x \in command' : identity'[x.actor].status # "NONE"
    BY <1>1, <1>2, <1>3, <2>1, TablesBefore DEF TablesAreSound
  <2> QED BY <2>1, <2>2, TablesBefore DEF TablesAreSound, SessionIsSound
<1>7. TablesAge
  BY <1>2, TablesThatStayAge DEF AccessInv
<1> QED BY <1>2, <1>4, <1>5, <1>6, <1>7, InvariantByTables

\* A command adds a session without a login.
LEMMA CreateSessionKeepsInvariant ==
  ASSUME AccessInv, NEW x \in command, CreateSession(x)
  PROVE  AccessInv'
<1> DEFINE added == [state |-> "ACTIVE", actor |-> x.actor, user |-> NoUser, by |-> NoChallenge]
<1>1. PICK s \in Sessions :
        session[s].state = "NONE" /\ session' = [session EXCEPT ![s] = added]
  BY DEF CreateSession
<1>2. /\ command' = command \ {x}
      /\ UNCHANGED <<identity, role, challenge, edge, provider, browser, request, inFlight, events>>
  BY DEF CreateSession
<1>3. x.actor \in Operators /\ identity[x.actor].status # "NONE"
  BY TablesBefore DEF TablesAreSound
<1>4. /\ added \in SessionRecords /\ added.state = "ACTIVE" /\ added.actor = x.actor
      /\ added.by = NoChallenge
  BY <1>3, AccessAssumptions DEF SessionRecords, Users, NoUser
<1> HIDE DEF added
<1>5. /\ session' \in [Sessions -> SessionRecords] /\ session'[s] = added
      /\ \A t \in Sessions : t # s => session'[t] = session[t]
  BY <1>1, <1>4, TablesBefore
<1>6. TypeOK'
  BY <1>2, <1>5, TablesBefore, TypesOfChanges DEF provider
<1>7. \A t \in Sessions : SessionIsSound(t)'
  <2> SUFFICES ASSUME NEW t \in Sessions
               PROVE  SessionIsSound(t)'
    OBVIOUS
  <2>1. CASE t = s
    BY <1>2, <1>3, <1>4, <1>5, <2>1 DEF SessionIsSound
  <2>2. CASE t # s
    <3>1. session'[t] = session[t] /\ SessionIsSound(t)
      BY <1>5, <2>2, TablesBefore DEF TablesAreSound
    <3>2. \A u \in Sessions : session[t].by # NoChallenge /\ session'[u].by = session[t].by =>
            session[u].by = session[t].by
      BY <1>4, <1>5
    <3> QED BY <1>2, <3>1, <3>2 DEF SessionIsSound
  <2> QED BY <2>1, <2>2
<1>8. SessionsAge
  BY <1>1, <1>5 DEF SessionsAge
<1>9. TablesAge
  BY <1>2, <1>8, TablesBefore DEF TablesAge, IdentitiesAge, EdgesAge, RolesFall
<1>10. TablesAreSound'
  <2>1. (jar.session # NoSession => session[jar.session].state # "NONE")'
    BY <1>2, <1>8, TablesBefore DEF SessionsAge, TablesAreSound, browser
  <2>2. \A y \in command' : identity'[y.actor].status # "NONE"
    BY <1>2, TablesBefore DEF TablesAreSound
  <2> QED BY <1>2, <1>7, <2>1, <2>2, TablesBefore DEF TablesAreSound
<1> QED BY <1>2, <1>6, <1>9, <1>10, TablesBefore, InvariantByTables

\* A role is granted after its operator may have been revoked; whoever waits for
\* the target has held the role from now on.
LEMMA GrantMembershipKeepsInvariant ==
  ASSUME AccessInv, NEW x \in command, GrantMembership(x)
  PROVE  AccessInv'
<1>1. /\ role' = [role EXCEPT ![x.actor][x.org] = x.role]
      /\ request' = [c \in Callers |->
           IF /\ request[c].session # NoSession /\ session[request[c].session].actor = x.actor
              /\ request[c].target = x.org /\ x.role = "ADMIN"
           THEN [request[c] EXCEPT !.held = TRUE] ELSE request[c]]
      /\ command' = command \ {x} /\ x.does = "grant"
      /\ UNCHANGED <<identity, challenge, session, edge, provider, browser, inFlight, events>>
  BY DEF GrantMembership
<1>2. x.actor \in Operators /\ x.org \in Organisations /\ x.role \in Roles
  BY <1>1, TablesBefore DEF Commands
<1>3. role' \in [Operators -> [Organisations -> Roles \cup {"NONE"}]]
  BY <1>1, <1>2, TablesBefore
<1>4. \A o \in Operators, g \in Organisations :
        role'[o][g] = "ADMIN" =>
          role[o][g] = "ADMIN" \/ (o = x.actor /\ g = x.org /\ x.role = "ADMIN")
  BY <1>1, <1>2, TablesBefore
<1>5. ASSUME NEW c \in Callers
      PROVE  /\ request'[c] \in Requests /\ request'[c].at = request[c].at
             /\ request'[c].kind = request[c].kind /\ request'[c].session = request[c].session
             /\ request'[c].version = request[c].version /\ request'[c].actor = request[c].actor
             /\ request'[c].seen = request[c].seen
             /\ request'[c].challenge = request[c].challenge /\ request'[c].user = request[c].user
             /\ request'[c].org = request[c].org /\ request'[c].target = request[c].target
             /\ request'[c].role = request[c].role /\ request'[c].ok = request[c].ok
             /\ request'[c].barred = request[c].barred
             /\ request[c].held => request'[c].held
             /\ (/\ request[c].session # NoSession
                 /\ session[request[c].session].actor = x.actor
                 /\ request[c].target = x.org /\ x.role = "ADMIN") => request'[c].held
  <2>1. request[c] \in Requests
    BY TablesBefore
  <2>2. request'[c] \in {request[c], [request[c] EXCEPT !.held = TRUE]}
    BY <1>1
  <2>3. request'[c].held = TRUE \/ request'[c] = request[c]
    BY <2>1, <2>2 DEF Requests
  <2>4. (/\ request[c].session # NoSession
         /\ session[request[c].session].actor = x.actor
         /\ request[c].target = x.org /\ x.role = "ADMIN") => request'[c].held
    BY <1>1, <2>1 DEF Requests
  <2> QED BY <2>1, <2>2, <2>3, <2>4 DEF Requests
<1>6. request' \in [Callers -> Requests]
  BY <1>1, <1>5
<1>7. TypeOK'
  <2>1. \A c \in Callers : request'[c].at \in Phases /\ request'[c].user \in Users
    BY <1>6 DEF Requests
  <2> QED BY <1>1, <1>3, <2>1, TablesBefore DEF TypeOK, provider, browser
<1>8. TablesAreSound'
  BY <1>1, TablesBefore DEF TablesAreSound, SessionIsSound, browser
<1>9. \A c \in Callers : RequestIsSound(c)'
  <2> SUFFICES ASSUME NEW c \in Callers
               PROVE  RequestIsSound(c)'
    OBVIOUS
  <2>1. PhaseIsSound(c) /\ RefusalIsSound(c) /\ HeldIsSound(c) /\ request[c] \in Requests
    BY RequestOf
  <2>2. PhaseIsSound(c)'
    BY <1>1, <1>5, <2>1 DEF PhaseIsSound
  <2>3. RefusalIsSound(c)'
    BY <1>1, <1>5, <2>1 DEF RefusalIsSound, IsOver
  <2>4. HeldIsSound(c)'
    <3>1. request[c].session # NoSession => session[request[c].session].actor \in Operators
      BY SessionIsKnown DEF AccessInv
    <3>2. request[c].target \in Organisations \cup {NoOrganisation}
      BY <2>1 DEF Requests
    <3>3. (/\ request[c].session # NoSession /\ request[c].target # NoOrganisation
           /\ role'[session[request[c].session].actor][request[c].target] = "ADMIN"
           /\ request[c].kind \in {"change", "event"})
          => request'[c].held
      BY <1>4, <1>5, <2>1, <3>1, <3>2 DEF HeldIsSound
    <3> QED BY <1>1, <1>5, <2>1, <3>3 DEF HeldIsSound
  <2> QED BY <2>2, <2>3, <2>4 DEF RequestIsSound
<1>10. InFlightIsExact'
  <2>1. \A c \in Callers : Policy(request'[c]) = Policy(request[c])
    BY <1>5 DEF Policy
  <2> QED BY <1>1, <1>5, <2>1, CountIsKept DEF Busy, AccessInv
<1> QED BY <1>1, <1>6, <1>7, <1>8, <1>9, <1>10, TablesBefore DEF AccessInv, RecordsAreTyped

\* A role that is taken away is taken from the table only.
LEMMA RevokeMembershipKeepsInvariant ==
  ASSUME AccessInv, NEW o \in Operators, RevokeMembership(o)
  PROVE  AccessInv'
<1>1. PICK g \in Organisations : role' = [role EXCEPT ![o][g] = "NONE"]
  BY DEF RevokeMembership
<1>2. /\ Happens
      /\ UNCHANGED <<identity, challenge, session, edge, provider, command, browser,
                     request, inFlight>>
  BY DEF RevokeMembership
<1>3. role' \in [Operators -> [Organisations -> Roles \cup {"NONE"}]] /\ RolesFall
  BY <1>1, TablesBefore DEF RolesFall
<1>4. TypeOK'
  BY <1>2, <1>3, TablesBefore, EventIsCounted DEF TypeOK, provider, browser
<1>5. TablesAreSound'
  BY <1>2, TablesBefore DEF TablesAreSound, SessionIsSound, browser
<1>6. TablesAge
  BY <1>2, <1>3, TablesBefore DEF TablesAge, SessionsAge, IdentitiesAge, EdgesAge
<1> QED BY <1>2, <1>4, <1>5, <1>6, TablesBefore, InvariantByTables

\* A session that ends, by a command or by time.
LEMMA EndingKeepsInvariant ==
  ASSUME AccessInv, SessionsEnd, Happens,
         UNCHANGED <<identity, role, challenge, edge, provider, command, browser,
                     request, inFlight>>
  PROVE  AccessInv'
<1>1. TablesAreSound' /\ TablesAge
  BY SessionsThatEnd DEF browser
<1>2. TypeOK'
  BY TablesBefore, EventIsCounted, TypesOfChanges DEF SessionsEnd, provider
<1> QED BY <1>1, <1>2, TablesBefore, InvariantByTables

\* A challenge that ends or grows older.
LEMMA AgeingKeepsInvariant ==
  ASSUME AccessInv, ChallengesAge, Happens,
         UNCHANGED <<identity, role, session, edge, provider, command, browser,
                     request, inFlight>>
  PROVE  AccessInv'
<1>1. TablesAreSound' /\ TablesAge
  BY ChallengesThatAge DEF browser
<1>2. TypeOK'
  BY TablesBefore, EventIsCounted, TypesOfChanges DEF ChallengesAge, provider
<1> QED BY <1>1, <1>2, TablesBefore, InvariantByTables

\* An administrator ends a session.
LEMMA RevokeSessionKeepsInvariant ==
  ASSUME AccessInv, NEW s \in Sessions, RevokeSession(s)
  PROVE  AccessInv'
  BY EndedSession, EndingKeepsInvariant DEF RevokeSession

\* Time ends a session or a challenge.
LEMMA ExpireKeepsInvariant ==
  ASSUME AccessInv, Expire
  PROVE  AccessInv'
<1>1. /\ Happens
      /\ UNCHANGED <<identity, role, edge, provider, command, browser, request, inFlight>>
  BY DEF Expire
<1>2. CASE /\ \E s \in Sessions : session[s].state = "ACTIVE"
                                    /\ session' = [session EXCEPT ![s].state = "EXPIRED"]
           /\ UNCHANGED challenge
  BY <1>1, <1>2, EndedSession, EndingKeepsInvariant
<1>3. CASE /\ \E ch \in Challenges : challenge[ch].state = "OPEN"
                                       /\ challenge' = [challenge EXCEPT ![ch].state = "DONE"]
           /\ UNCHANGED session
  <2>1. ChallengesAge
    BY <1>3, ChangedChallenge
  <2> QED BY <1>1, <1>3, <2>1, AgeingKeepsInvariant
<1> QED BY <1>2, <1>3 DEF Expire

\* A minute passes over a challenge, which stays open.
LEMMA MinutePassesKeepsInvariant ==
  ASSUME AccessInv, MinutePasses
  PROVE  AccessInv'
<1>1. PICK ch \in Challenges : challenge' = [challenge EXCEPT ![ch].waited = TRUE]
  BY DEF MinutePasses
<1>2. ChallengesAge
  BY <1>1, ChangedChallenge
<1> QED BY <1>2, AgeingKeepsInvariant DEF MinutePasses

\* An operator is revoked together with the roles and the sessions of theirs.
LEMMA RevokeIdentityKeepsInvariant ==
  ASSUME AccessInv, NEW o \in Operators, RevokeIdentity(o)
  PROVE  AccessInv'
<1>1. /\ Happens /\ identity[o].status = "ACTIVE"
      /\ identity' = [identity EXCEPT ![o].status = "REVOKED"]
      /\ session' = [s \in Sessions |->
           IF session[s].actor = o /\ session[s].state # "REVOKED"
           THEN [session[s] EXCEPT !.state = "REVOKED"] ELSE session[s]]
      /\ role' = [role EXCEPT ![o] = [g \in Organisations |-> "NONE"]]
      /\ UNCHANGED <<challenge, edge, provider, command, browser, request, inFlight>>
  BY DEF RevokeIdentity
<1> DEFINE gone == [identity[o] EXCEPT !.status = "REVOKED"]
<1>2. gone \in [status : {"NONE", "ACTIVE", "REVOKED"}, user : Users]
        /\ gone.status = "REVOKED" /\ gone.user = identity[o].user
  BY TablesBefore
<1>3. identity' = [identity EXCEPT ![o] = gone]
  BY <1>1
<1> HIDE DEF gone
<1>4. /\ identity' \in [Operators -> [status : {"NONE", "ACTIVE", "REVOKED"}, user : Users]]
      /\ identity'[o].status = "REVOKED"
      /\ \A p \in Operators : /\ identity'[p].user = identity[p].user
                              /\ identity'[p].status \in {identity[p].status, "REVOKED"}
  BY <1>2, <1>3, TablesBefore
<1>5. ASSUME NEW s \in Sessions
      PROVE  /\ session'[s] \in SessionRecords
             /\ session'[s].actor = session[s].actor /\ session'[s].by = session[s].by
             /\ session'[s].user = session[s].user
             /\ \/ session'[s].state = session[s].state
                \/ session'[s].state = "REVOKED" /\ session[s].actor = o
  <2>1. session[s] \in SessionRecords
    BY TablesBefore
  <2>2. CASE session[s].actor = o /\ session[s].state # "REVOKED"
    <3>1. session'[s] = [session[s] EXCEPT !.state = "REVOKED"]
      BY <1>1, <2>2
    <3> QED BY <2>1, <2>2, <3>1 DEF SessionRecords
  <2>3. CASE ~(session[s].actor = o /\ session[s].state # "REVOKED")
    BY <1>1, <2>1, <2>3
  <2> QED BY <2>2, <2>3
<1>6. session' \in [Sessions -> SessionRecords]
  BY <1>1, <1>5
<1>7. role' \in [Operators -> [Organisations -> Roles \cup {"NONE"}]] /\ RolesFall
  BY <1>1, TablesBefore DEF RolesFall
<1>8. TypeOK'
  <2>1. \A c \in Callers : request'[c].at \in Phases /\ request'[c].user \in Users
    BY <1>1, TablesBefore DEF TypeOK
  <2> QED BY <1>1, <1>4, <1>6, <1>7, <2>1, TablesBefore, EventIsCounted
          DEF TypeOK, provider, browser, SessionRecords
<1>9. \A s \in Sessions : SessionIsSound(s)'
  <2> SUFFICES ASSUME NEW s \in Sessions
               PROVE  SessionIsSound(s)'
    OBVIOUS
  <2>1. SessionIsSound(s)
    BY TablesBefore DEF TablesAreSound
  <2>2. session'[s].state # "NONE" =>
          session'[s].actor \in Operators /\ identity'[session'[s].actor].status # "NONE"
    BY <1>4, <1>5, <2>1 DEF SessionIsSound
  <2>3. session'[s].by # NoChallenge =>
          /\ session'[s].state # "NONE" /\ challenge'[session'[s].by].state = "DONE"
          /\ session'[s].user # NoUser
          /\ session'[s].user = identity'[session'[s].actor].user
    BY <1>1, <1>4, <1>5, <2>1 DEF SessionIsSound
  <2>4. \A t \in Sessions : session'[s].by # NoChallenge /\ session'[t].by = session'[s].by =>
          s = t
    BY <1>5, <2>1 DEF SessionIsSound
  <2> QED BY <2>2, <2>3, <2>4 DEF SessionIsSound
<1>10. SessionsAge
  BY <1>5 DEF SessionsAge
<1>11. TablesAge
  BY <1>1, <1>4, <1>7, <1>10, TablesBefore DEF TablesAge, IdentitiesAge, EdgesAge
<1>12. TablesAreSound'
  <2>1. (jar.session # NoSession => session[jar.session].state # "NONE")'
    BY <1>1, <1>10, TablesBefore DEF SessionsAge, TablesAreSound, browser
  <2>2. \A x \in command' : identity'[x.actor].status # "NONE"
    BY <1>1, <1>4, TablesBefore DEF TablesAreSound
  <2> QED BY <1>1, <1>9, <2>1, <2>2, TablesBefore DEF TablesAreSound
<1> QED BY <1>1, <1>8, <1>11, <1>12, TablesBefore, InvariantByTables

\* Versions of a credential only grow, and one that is revoked stays revoked: a
\* request that is locked out on its way stays so.
LEMMA ManageEdgeKeepsInvariant ==
  ASSUME AccessInv, NEW e \in Edges, ManageEdge(e)
  PROVE  AccessInv'
<1>1. /\ Happens
      /\ UNCHANGED <<identity, role, challenge, session, provider, command, browser,
                     inFlight>>
      /\ request' = [request EXCEPT ![e].barred =
           request[e].barred \/ /\ request[e].kind = "edge" /\ ~At(e, "answering")
                                /\ LockedOut(edge'[e], request[e].version)]
  BY DEF ManageEdge
<1>2. /\ edge[e].version \in 0..MaxVersion /\ MaxVersion \in Nat \ {0}
      /\ edge[e].state \in {"NONE", "ACTIVE", "REVOKED"}
      /\ edge[e].state = "NONE" => edge[e].version = 0
  BY TablesBefore, AccessAssumptions DEF TablesAreSound
<1>3. PICK row \in [state : {"ACTIVE", "REVOKED"}, version : 0..MaxVersion] :
        /\ edge' = [edge EXCEPT ![e] = row]
        /\ edge[e].version <= row.version /\ edge[e].state # "REVOKED"
  <2>1. CASE edge[e].state = "NONE"
               /\ edge' = [edge EXCEPT ![e] = [state |-> "ACTIVE", version |-> 1]]
    <3> DEFINE next == [state |-> "ACTIVE", version |-> 1]
    <3>1. next \in [state : {"ACTIVE", "REVOKED"}, version : 0..MaxVersion]
            /\ edge[e].version <= next.version
      BY <1>2, <2>1
    <3>2. edge' = [edge EXCEPT ![e] = next]
      BY <2>1
    <3> HIDE DEF next
    <3> QED BY <2>1, <3>1, <3>2
  <2>2. CASE /\ edge[e].state = "ACTIVE" /\ edge[e].version < MaxVersion
             /\ edge' = [edge EXCEPT ![e].version = @ + 1]
    <3> DEFINE next == [edge[e] EXCEPT !.version = edge[e].version + 1]
    <3>1. next \in [state : {"ACTIVE", "REVOKED"}, version : 0..MaxVersion]
            /\ edge[e].version <= next.version
      BY <1>2, <2>2, TablesBefore
    <3>2. edge' = [edge EXCEPT ![e] = next]
      BY <2>2
    <3> HIDE DEF next
    <3> QED BY <2>2, <3>1, <3>2
  <2>3. CASE edge[e].state = "ACTIVE" /\ edge' = [edge EXCEPT ![e].state = "REVOKED"]
    <3> DEFINE next == [edge[e] EXCEPT !.state = "REVOKED"]
    <3>1. next \in [state : {"ACTIVE", "REVOKED"}, version : 0..MaxVersion]
            /\ edge[e].version <= next.version
      BY <1>2, <2>3, TablesBefore
    <3>2. edge' = [edge EXCEPT ![e] = next]
      BY <2>3
    <3> HIDE DEF next
    <3> QED BY <2>3, <3>1, <3>2
  <2> QED BY <2>1, <2>2, <2>3 DEF ManageEdge
<1>4. edge' \in [Edges -> [state : {"NONE", "ACTIVE", "REVOKED"}, version : 0..MaxVersion]]
        /\ EdgesAge /\ edge'[e].state \in {"ACTIVE", "REVOKED"}
  BY <1>3, TablesBefore DEF EdgesAge
<1>6. \A d \in Edges : edge'[d].state = "NONE" => edge'[d].version = 0
  BY <1>3, TablesBefore DEF TablesAreSound
<1>7. TablesAreSound'
  BY <1>1, <1>6, TablesBefore DEF TablesAreSound, SessionIsSound, browser
<1>8. TablesAge
  BY <1>1, <1>4 DEF TablesAge, SessionsAge, IdentitiesAge, RolesFall
<1> DEFINE now == request[e].barred \/ /\ request[e].kind = "edge" /\ ~At(e, "answering")
                                       /\ LockedOut(edge'[e], request[e].version)
           new == [request[e] EXCEPT !.barred = now]
<1>9. /\ e \in Callers /\ request[e] \in Requests /\ now \in BOOLEAN
      /\ request' = [request EXCEPT ![e] = new]
      /\ PhaseIsSound(e) /\ RefusalIsSound(e) /\ HeldIsSound(e)
  BY <1>1, RequestOf DEF Callers
<1>10. /\ new \in Requests /\ new.barred = now
       /\ new.at = request[e].at /\ new.kind = request[e].kind
       /\ new.session = request[e].session /\ new.version = request[e].version
       /\ new.seen = request[e].seen /\ new.challenge = request[e].challenge
       /\ new.user = request[e].user /\ new.actor = request[e].actor
       /\ new.org = request[e].org /\ new.target = request[e].target
       /\ new.role = request[e].role /\ new.ok = request[e].ok /\ new.held = request[e].held
  <2> HIDE DEF now
  <2> QED BY <1>9 DEF Requests
<1> HIDE DEF new, now
<1>11. /\ request' \in [Callers -> Requests] /\ request'[e] = new
       /\ \A d \in Callers : d # e => request'[d] = request[d]
  BY <1>9, <1>10, TablesBefore
<1>12. TypeOK'
  <2>1. \A c \in Callers : request'[c].at \in Phases /\ request'[c].user \in Users
    BY <1>11 DEF Requests
  <2> QED BY <1>1, <1>4, <2>1, TablesBefore, EventIsCounted DEF TypeOK, provider, browser
<1>13. RequestIsSound(e)'
  <2>1. /\ request[e].version \in Nat /\ edge[e].version \in Nat /\ edge'[e].version \in Nat
        /\ edge[e].version <= edge'[e].version
    BY <1>4, <1>9, TablesBefore, AccessAssumptions DEF Requests, EdgesAge
  <2>2. request[e].kind = "edge" => request[e].version <= edge'[e].version
    BY <1>9, <2>1 DEF PhaseIsSound
  <2>3. PhaseIsSound(e)'
    BY <1>1, <1>9, <1>10, <1>11, <2>2 DEF PhaseIsSound
  <2>4. HeldIsSound(e)'
    BY <1>1, <1>9, <1>10, <1>11 DEF HeldIsSound
  <2>5. CASE request[e].barred
    <3>1. request[e].kind = "edge" =>
            edge'[e].state = "REVOKED" \/ request[e].version < edge'[e].version
      BY <1>4, <1>9, <1>12, <2>1, <2>5, BarredEdgeStaysBarred DEF RefusalIsSound, AccessInv
    <3>2. RefusalIsSound(e)'
      BY <1>1, <1>9, <1>10, <1>11, <2>5, <3>1 DEF RefusalIsSound, IsOver
    <3> QED BY <2>3, <2>4, <3>2 DEF RequestIsSound
  <2>6. CASE ~request[e].barred
    <3>1. now => /\ request[e].kind = "edge" /\ request[e].at # "answering"
                 /\ edge'[e].state = "REVOKED" \/ request[e].version < edge'[e].version
      BY <1>4, <2>1, <2>2, <2>6 DEF now, At, LockedOut
    <3>2. RefusalIsSound(e)'
      BY <1>10, <1>11, <3>1 DEF RefusalIsSound
    <3> QED BY <2>3, <2>4, <3>2 DEF RequestIsSound
  <2> QED BY <2>5, <2>6
<1>14. \A c \in Callers : RequestIsSound(c)'
  <2> SUFFICES ASSUME NEW c \in Callers, c # e
               PROVE  RequestIsSound(c)'
    BY <1>13
  <2> QED BY <1>8, <1>11, <1>12, WaitingIsSound DEF AccessInv
<1>15. InFlightIsExact'
  <2>1. \A c \in Callers : /\ Busy(request'[c]) <=> Busy(request[c])
                           /\ Policy(request'[c]) = Policy(request[c])
    BY <1>10, <1>11 DEF Busy, Policy
  <2> QED BY <1>1, <2>1, CountIsKept DEF AccessInv
<1> QED BY <1>1, <1>7, <1>11, <1>12, <1>14, <1>15, TablesBefore DEF AccessInv, RecordsAreTyped

\* Another account at the provider is none of the tables' business.
LEMMA ReplaceAccountKeepsInvariant ==
  ASSUME AccessInv, NEW o \in Operators, ReplaceAccount(o)
  PROVE  AccessInv'
<1>1. /\ Happens /\ account[o] < MaxAccounts
      /\ account' = [account EXCEPT ![o] = @ + 1] /\ code' = [code EXCEPT ![o] = FALSE]
      /\ UNCHANGED <<rows, command, browser, request, inFlight>>
  BY DEF ReplaceAccount
<1>2. account[o] + 1 \in 1..MaxAccounts
  BY <1>1, TablesBefore, AccessAssumptions
<1>3. account' \in [Operators -> 1..MaxAccounts] /\ code' \in [Operators -> BOOLEAN]
  BY <1>1, <1>2, TablesBefore
<1>4. TypeOK'
  BY <1>1, <1>3, TablesBefore, EventIsCounted, TypesOfTables
<1>5. TablesAreSound' /\ TablesAge
  BY <1>1, TablesThatStayAreSound, TablesThatStayAge DEF AccessInv, browser
<1> QED BY <1>1, <1>4, <1>5, TablesBefore, InvariantByTables

\* A tab that goes back shows another page.
LEMMA BackKeepsInvariant ==
  ASSUME AccessInv, NEW t \in Tabs, Back(t)
  PROVE  AccessInv'
<1>1. /\ page' = [page EXCEPT ![t] = "credentials"]
      /\ UNCHANGED <<rows, provider, command, jar, request, inFlight, events>>
  BY DEF Back
<1>2. TypeOK'
  BY <1>1, TablesBefore DEF TypeOK, rows, provider
<1>3. TablesAreSound' /\ TablesAge
  BY <1>1, TablesThatStayAreSound, TablesThatStayAge DEF AccessInv
<1> QED BY <1>1, <1>2, <1>3, TablesBefore, InvariantByTables

-----------------------------------------------------------------------------
(* The specification.                                                      *)

\* The invariant holds at first.
LEMMA InitIsSound == Init => AccessInv
<1> SUFFICES ASSUME Init
             PROVE  AccessInv
  OBVIOUS
<1>1. Idle \in Requests /\ Idle.at = "idle" /\ Idle.kind = "none" /\ Idle.session = NoSession
        /\ ~Idle.ok /\ ~Idle.barred
  BY IdleIsARequest DEF Idle
<1>2. request \in [Callers -> Requests] /\ \A c \in Callers : request[c] = Idle
  BY <1>1 DEF Init
<1>3. 0 \in Users /\ 1 \in 1..MaxAccounts /\ 0 \in 0..MaxVersion /\ 0 \in 0..MaxEvents
  BY AccessAssumptions DEF Users, NoUser
<1>4. TypeOK
  <2>1. \A c \in Callers : request[c].at \in Phases /\ request[c].user \in Users
    BY <1>2 DEF Requests
  <2> QED BY <1>3, <2>1 DEF Init, TypeOK, NoUser
<1>5. TablesAreSound
  BY DEF Init, TablesAreSound, SessionIsSound
<1>6. \A c \in Callers : RequestIsSound(c)
  BY <1>1, <1>2 DEF RequestIsSound, PhaseIsSound, RefusalIsSound, HeldIsSound
<1>7. InFlightIsExact
  <2> SUFFICES ASSUME NEW p \in Policies
               PROVE  inFlight[p] = Cardinality(Inside(p)) /\ inFlight[p] <= MaxInFlight[p]
    BY DEF InFlightIsExact
  <2>1. Inside(p) = {}
    BY <1>1, <1>2 DEF Inside
  <2>2. Cardinality(Inside(p)) = 0
    BY <2>1, FS_EmptySet
  <2>3. MaxInFlight[p] \in Nat
    BY AccessAssumptions
  <2> QED BY <2>2, <2>3 DEF Init
<1> QED BY <1>2, <1>4, <1>5, <1>6, <1>7 DEF Init, AccessInv, RecordsAreTyped

\* A stuttering step keeps the invariant.
LEMMA StutterIsSound ==
  ASSUME AccessInv, UNCHANGED vars
  PROVE  AccessInv'
<1>1. UNCHANGED <<rows, provider, command, browser, request, inFlight, events>>
  BY DEF vars
<1>2. TypeOK'
  BY <1>1, TablesBefore, TypesOfTables DEF provider
<1>3. TablesAreSound' /\ TablesAge
  BY <1>1, TablesThatStayAreSound, TablesThatStayAge DEF AccessInv, browser
<1> QED BY <1>1, <1>2, <1>3, TablesBefore, InvariantByTables

\* Every step keeps the invariant.
LEMMA NextIsSound == AccessInv /\ [Next]_vars => AccessInv'
<1> SUFFICES ASSUME AccessInv, [Next]_vars
             PROVE  AccessInv'
  OBVIOUS
<1>1. ASSUME NEW c \in Callers, Handle(c)
      PROVE  AccessInv'
  BY <1>1, AuthenticateKeepsInvariant, ProjectKeepsInvariant, InterceptKeepsInvariant,
     SignInPhasesKeepInvariant, InsertChallengeKeepsInvariant, SendCodeKeepsInvariant,
     ResendKeepsInvariant, VerifyCodeKeepsInvariant, IssueSessionKeepsInvariant,
     ServingPhasesKeepInvariant, LogoutKeepsInvariant, ReceiveKeepsInvariant DEF Handle
<1>2. CASE Administer
  BY <1>2, CreateIdentityKeepsInvariant, BeginCommandKeepsInvariant,
     RevokeMembershipKeepsInvariant, RevokeIdentityKeepsInvariant,
     GrantMembershipKeepsInvariant, CreateSessionKeepsInvariant,
     RevokeSessionKeepsInvariant, ManageEdgeKeepsInvariant DEF Administer
<1>3. CASE Expire \/ MinutePasses \/ \E o \in Operators : ReplaceAccount(o)
  BY <1>3, ExpireKeepsInvariant, MinutePassesKeepsInvariant, ReplaceAccountKeepsInvariant
<1>4. CASE \/ \E t \in Tabs : \/ SubmitCredentials(t) \/ SubmitCode(t) \/ ResendCode(t)
                              \/ CheckSession(t) \/ SignOut(t) \/ Work(t)
           \/ \E c \in Tools : FromTool(c)
           \/ \E e \in Edges : FromEdge(e)
  BY <1>4, CallersKeepInvariant
<1>5. CASE \E t \in Tabs : Back(t)
  BY <1>5, BackKeepsInvariant
<1>6. CASE \E e \in Edges : ReadCredential(e) \/ TouchCredential(e)
  BY <1>6, CredentialPhasesKeepInvariant
<1>7. CASE UNCHANGED vars
  BY <1>7, StutterIsSound
<1> QED BY <1>1, <1>2, <1>3, <1>4, <1>5, <1>6, <1>7 DEF Next

\* The inductive invariant holds in every state.
THEOREM AccessInvariant == Spec => []AccessInv
<1> QED BY InitIsSound, NextIsSound, PTL DEF Spec

\* The tables, the cookies and the requests under way have their types.
THEOREM AccessTypes == Spec => []TypeOK
<1>1. AccessInv => TypeOK
  BY DEF AccessInv, RecordsAreTyped
<1> QED BY <1>1, AccessInvariant, PTL

\* Nobody is served who is locked out, outside the organisations they
\* administered meanwhile, or with a session that their login has not proved;
\* and the counters that admit requests are exact.
THEOREM WhoIsServedDeservesIt == Spec => []ServiceIsDeserved
<1>1. AccessInv => ServiceIsDeserved
  <2> SUFFICES ASSUME AccessInv
               PROVE  ServiceIsDeserved
    OBVIOUS
  <2>1. SessionsAreProved
    BY TablesBefore DEF TablesAreSound, SessionIsSound, SessionsAreProved
  <2>2. LockedOutIsRefused /\ ServedInOrganisation
    BY RequestOf
       DEF LockedOutIsRefused, ServedInOrganisation, Served, At, RefusalIsSound, HeldIsSound
  <2> QED BY <2>1, <2>2 DEF AccessInv, ServiceIsDeserved
<1> QED BY <1>1, AccessInvariant, PTL

\* An Edge is let in only if its credential was the current one from the arrival
\* of the request, over the reading of its row, to the acceptance: versions only
\* grow and revocation is final, so one that was replaced on the way stays
\* replaced when the row is touched.
THEOREM EdgesEnterByTheCurrentCredential == Spec => []AcceptedEdgesAreCurrent
<1>1. AccessInv => AcceptedEdgesAreCurrent
  BY RequestOf DEF AcceptedEdgesAreCurrent, Served, At, RefusalIsSound
<1> QED BY <1>1, AccessInvariant, PTL

-----------------------------------------------------------------------------
(* CommandCentre: what its inductive invariant is made of.                 *)

\* The states of an alert, and the rows that tell of them.
AlertStates == {"OPEN", "ACKNOWLEDGED", "ASSIGNED", "RESOLVED"}
Changes == [alert : Alerts, state : AlertStates]

\* The venue's rows of an alert move forward, up to the state it has.
RowsMoveForward ==
  /\ venue \in [Alerts -> {"NONE"} \cup AlertStates]
  /\ changes \in Seq(Changes)
  /\ \A i \in Rows : Rank(changes[i].state) <= Rank(venue[changes[i].alert])
  /\ \A i, j \in Rows : i <= j /\ changes[i].alert = changes[j].alert =>
       Rank(changes[i].state) <= Rank(changes[j].state)

\* The projection of an alert is on one of its rows.
ShownIsARow ==
  /\ shown \in [Alerts -> 0..Len(changes)]
  /\ \A a \in Alerts : shown[a] # 0 => changes[shown[a]].alert = a

\* A mark is an action of the control, of one event.
MarksAreTyped ==
  control \in [Alerts -> [state : {"NONE"} \cup Actions, event : Events \cup {None}]]

\* What the page shows, what it fetches and what it does is of alerts.
OfAlerts(content) == DOMAIN content.risks \subseteq Alerts
PageIsSound ==
  /\ \A f \in Causes \X Events : fetches[f] # None => OfAlerts(fetches[f].content)
  /\ view # None => OfAlerts(view.content)
  /\ acting # None => acting \in [alert : Alerts, to : Actions, event : Events, done : BOOLEAN]

\* The inductive invariant.
CentreInv ==
  /\ CentreTypeOK /\ RowsMoveForward /\ ShownIsARow /\ MarksAreTyped /\ PageIsSound
  /\ ActedOnOwnEvent

-----------------------------------------------------------------------------
(* Ranks and effective states.                                             *)

\* The states have ranks from 0 to 4.
LEMMA RankIsNat ==
  ASSUME NEW s \in {"NONE"} \cup AlertStates
  PROVE  Rank(s) \in 0..4
  BY DEF Rank, AlertStates

\* What staff or an evaluation makes of an alert is no step back.
LEMMA BecomesLater ==
  ASSUME NEW from \in {"NONE"} \cup AlertStates, NEW to \in MayBecome(from)
  PROVE  to \in AlertStates /\ Rank(from) <= Rank(to)
  BY DEF MayBecome, Rank, AlertStates

\* A later state of the alert is held as a later one, whatever the mark.
LEMMA EffectiveIsMonotone ==
  ASSUME NEW b \in {"NONE"} \cup AlertStates, NEW c \in {"NONE"} \cup AlertStates,
         Rank(b) <= Rank(c), NEW mark \in {"NONE"} \cup Actions
  PROVE  Rank(EffectiveState(b, mark)) <= Rank(EffectiveState(c, mark))
  BY DEF Rank, AlertStates, EffectiveState, Actions

\* A mark that is allowed is no step back either.
LEMMA MarkMovesForward ==
  ASSUME NEW b \in AlertStates, NEW mark \in {"NONE"} \cup Actions, NEW to \in Actions,
         EffectiveState(b, mark) # "RESOLVED",
         ~(to = "ACKNOWLEDGED" /\ EffectiveState(b, mark) = "ASSIGNED")
  PROVE  Rank(EffectiveState(b, mark)) <= Rank(EffectiveState(b, to))
  BY DEF Rank, AlertStates, EffectiveState, Actions

\* The snapshot of an event lists risks of alerts.
LEMMA SnapshotIsOfAlerts ==
  ASSUME NEW e
  PROVE  /\ OfAlerts(Snapshot(e))
         /\ Snapshot(e)["risks"] = Snapshot(e).risks
  BY DEF OfAlerts, Snapshot, Risks, Of

\* The rows are numbered from 1, and each is of an alert.
LEMMA RowsAreTyped ==
  ASSUME RowsMoveForward
  PROVE  /\ Len(changes) \in Nat /\ Rows = 1..Len(changes)
         /\ \A i \in Rows : changes[i].alert \in Alerts /\ changes[i].state \in AlertStates
<1>1. changes \in Seq(Changes)
  BY DEF RowsMoveForward
<1>2. Len(changes) \in Nat /\ Rows = 1..Len(changes)
  BY <1>1 DEF Rows
<1>3. \A i \in Rows : changes[i] \in Changes
  BY <1>1, <1>2
<1> QED BY <1>2, <1>3 DEF Changes

-----------------------------------------------------------------------------
(* Who writes what.                                                        *)

\* Only a change at the venue writes an alert and its rows.
LEMMA VenueWriters ==
  ASSUME CentreNext
  PROVE  UNCHANGED alertVars \/ \E a \in Alerts : EdgeChange(a)
  BY DEF CentreNext, Forward, Request, Send, Take, Acknowledged, GiveUp, FallsDueAgain, Close,
     Attempt, Synchronise, FallsSilent, MoveRegister, OthersAct, Select, Rename, Retry,
     AnswerSnapshot, SnapshotArrives, Fail, OpenStream, BreakStream, FollowNotice, Poll,
     ActOnShown, Serve, AskAfterAct, Blank

\* Only a row that is taken moves the projection.
LEMMA ProjectionWriters ==
  ASSUME CentreNext
  PROVE  UNCHANGED <<shown, stored>> \/ \E i \in Rows : Take(i)
  BY DEF CentreNext, Forward, Request, Send, EdgeChange, Acknowledged, GiveUp, FallsDueAgain, Close,
     Attempt, Synchronise, FallsSilent, MoveRegister, OthersAct, Select, Rename, Retry,
     AnswerSnapshot, SnapshotArrives, Fail, OpenStream, BreakStream, FollowNotice, Poll,
     ActOnShown, Serve, AskAfterAct, Blank, Record, cloudVars

\* A mark is only recorded for an alert that was found and allowed.
Marks(a, e, to) ==
  /\ Allowed(a, e, to)
  /\ control' = [control EXCEPT ![a] = [state |-> to, event |-> e]]

\* Only an action that is allowed leaves a mark.
LEMMA MarkWriters ==
  ASSUME CentreInv, CentreNext
  PROVE  \/ UNCHANGED control
         \/ \E a \in Alerts, e \in Events, to \in Actions : Marks(a, e, to)
<1>1. CASE Serve
  <2>1. CASE Allowed(acting.alert, acting.event, acting.to)
    <3>1. acting \in [alert : Alerts, to : Actions, event : Events, done : BOOLEAN]
      BY <1>1 DEF Serve, CentreInv, PageIsSound
    <3>2. Marks(acting.alert, acting.event, acting.to)
      BY <1>1, <2>1 DEF Serve, Record, Marks
    <3> QED BY <3>1, <3>2
  <2>2. CASE ~Allowed(acting.alert, acting.event, acting.to)
    BY <1>1, <2>2 DEF Serve, cloudVars
  <2> QED BY <2>1, <2>2
<1>2. CASE \E a \in Alerts, to \in Actions : OthersAct(a, to)
  <2>1. PICK a \in Alerts, to \in Actions : OthersAct(a, to)
    BY <1>2
  <2>2. Marks(a, EventOf[a], to)
    BY <2>1 DEF OthersAct, Record, Marks
  <2>3. EventOf[a] \in Events
    BY CommandCentreAssumption DEF CommandCentreAssumption
  <2> QED BY <2>2, <2>3
<1>3. CASE ~Serve /\ ~(\E a \in Alerts, to \in Actions : OthersAct(a, to))
  BY <1>3 DEF CentreNext, Forward, Request, Send, EdgeChange, Take, Acknowledged, GiveUp,
     FallsDueAgain, Close, Attempt, Synchronise, FallsSilent, MoveRegister, Select, Rename, Retry,
     AnswerSnapshot, SnapshotArrives, Fail, OpenStream, BreakStream, FollowNotice, Poll,
     ActOnShown, AskAfterAct, Blank, cloudVars
<1> QED BY <1>1, <1>2, <1>3

-----------------------------------------------------------------------------
(* The rows and the projection.                                            *)

\* Rows are only added, each of a state no earlier than those before it.
LEMMA RowsAreKept ==
  ASSUME CentreInv, CentreNext
  PROVE  /\ RowsMoveForward' /\ Len(changes) <= Len(changes') /\ Rows \subseteq Rows'
         /\ \A i \in Rows : changes'[i] = changes[i]
<1>1. CASE UNCHANGED alertVars
  <2>1. venue' = venue /\ changes' = changes /\ Len(changes) \in Nat
    BY <1>1 DEF alertVars, CentreInv, RowsMoveForward
  <2> QED BY <2>1 DEF CentreInv, RowsMoveForward, Rows
<1>2. ASSUME NEW a \in Alerts, EdgeChange(a)
      PROVE  /\ RowsMoveForward' /\ Len(changes) <= Len(changes') /\ Rows \subseteq Rows'
             /\ \A i \in Rows : changes'[i] = changes[i]
  <2>1. PICK to \in MayBecome(venue[a]) :
          /\ venue' = [venue EXCEPT ![a] = to]
          /\ changes' = Append(changes, [alert |-> a, state |-> to])
    BY <1>2 DEF EdgeChange
  <2>2. venue \in [Alerts -> {"NONE"} \cup AlertStates] /\ changes \in Seq(Changes)
    BY DEF CentreInv, RowsMoveForward
  <2>3. to \in AlertStates /\ Rank(venue[a]) <= Rank(to)
    BY <2>1, <2>2, BecomesLater
  <2> DEFINE row == [alert |-> a, state |-> to]
  <2>4. row \in Changes /\ row.alert = a /\ row.state = to
    BY <2>3 DEF Changes
  <2> HIDE DEF row
  <2>5. /\ changes' \in Seq(Changes) /\ Len(changes') = Len(changes) + 1 /\ Len(changes) \in Nat
        /\ Rows = 1..Len(changes) /\ Rows' = 1..(Len(changes) + 1)
        /\ \A i \in Rows : changes'[i] = changes[i]
        /\ changes'[Len(changes) + 1] = row
    BY <2>1, <2>2, <2>4 DEF row, Rows
  <2>6. /\ venue' \in [Alerts -> {"NONE"} \cup AlertStates] /\ venue'[a] = to
        /\ \A b \in Alerts : b # a => venue'[b] = venue[b]
    BY <2>1, <2>2, <2>3
  <2>7. \A i \in Rows : /\ changes[i].alert \in Alerts /\ changes[i].state \in AlertStates
                        /\ Rank(changes[i].state) \in 0..4
                        /\ Rank(venue[changes[i].alert]) \in 0..4
                        /\ Rank(changes[i].state) <= Rank(venue[changes[i].alert])
    <3> SUFFICES ASSUME NEW i \in Rows
                 PROVE  /\ changes[i].alert \in Alerts /\ changes[i].state \in AlertStates
                        /\ Rank(changes[i].state) \in 0..4
                        /\ Rank(venue[changes[i].alert]) \in 0..4
                        /\ Rank(changes[i].state) <= Rank(venue[changes[i].alert])
      OBVIOUS
    <3>1. changes[i].alert \in Alerts /\ changes[i].state \in AlertStates
      BY RowsAreTyped DEF CentreInv
    <3>2. venue[changes[i].alert] \in {"NONE"} \cup AlertStates
      BY <2>2, <3>1
    <3> QED BY <3>1, <3>2, RankIsNat DEF CentreInv, RowsMoveForward
  <2>8. Rank(to) \in 0..4 /\ Rank(venue[a]) \in 0..4
    BY <2>2, <2>3, RankIsNat
  <2>9. \A i \in Rows : changes[i].alert = a => Rank(changes[i].state) <= Rank(to)
    BY <2>3, <2>7, <2>8
  <2>10. \A i \in Rows' : Rank(changes'[i].state) <= Rank(venue'[changes'[i].alert])
    <3> SUFFICES ASSUME NEW i \in Rows'
                 PROVE  Rank(changes'[i].state) <= Rank(venue'[changes'[i].alert])
      OBVIOUS
    <3>1. CASE i \in Rows /\ changes[i].alert = a
      BY <2>5, <2>6, <2>9, <3>1
    <3>2. CASE i \in Rows /\ changes[i].alert # a
      BY <2>5, <2>6, <2>7, <3>2
    <3>3. CASE i = Len(changes) + 1
      BY <2>4, <2>5, <2>6, <2>8, <3>3
    <3> QED BY <2>5, <3>1, <3>2, <3>3
  <2>11. \A i, j \in Rows' : i <= j /\ changes'[i].alert = changes'[j].alert =>
           Rank(changes'[i].state) <= Rank(changes'[j].state)
    <3> SUFFICES ASSUME NEW i \in Rows', NEW j \in Rows', i <= j,
                        changes'[i].alert = changes'[j].alert
                 PROVE  Rank(changes'[i].state) <= Rank(changes'[j].state)
      OBVIOUS
    <3>1. CASE j \in Rows
      <4>1. i \in Rows
        BY <2>5, <3>1
      <4> QED BY <2>5, <3>1, <4>1 DEF CentreInv, RowsMoveForward
    <3>2. CASE i \in Rows /\ j = Len(changes) + 1
      BY <2>4, <2>5, <2>9, <3>2
    <3>3. CASE i = Len(changes) + 1 /\ j = Len(changes) + 1
      BY <2>4, <2>5, <2>8, <3>3
    <3> QED BY <2>5, <3>1, <3>2, <3>3
  <2>12. RowsMoveForward'
    BY <2>5, <2>6, <2>10, <2>11 DEF RowsMoveForward
  <2> QED BY <2>5, <2>12
<1> QED BY <1>1, <1>2, VenueWriters

\* The projection of an alert only goes to a later row of that alert.
LEMMA ShownIsKept ==
  ASSUME CentreInv, CentreNext
  PROVE  /\ ShownIsARow'
         /\ \A a \in Alerts : shown'[a] = shown[a] \/ (shown'[a] \in Rows /\ shown[a] <= shown'[a]
                                                        /\ changes[shown'[a]].alert = a)
<1>1. /\ \A i \in Rows : changes'[i] = changes[i]
      /\ Len(changes) \in Nat /\ Len(changes') \in Nat /\ Len(changes) <= Len(changes')
      /\ Rows = 1..Len(changes)
      /\ \A i \in Rows : changes[i].alert \in Alerts
  <2>1. Len(changes') \in Nat
    BY RowsAreKept DEF RowsMoveForward
  <2> QED BY <2>1, RowsAreKept, RowsAreTyped DEF CentreInv
<1>2. /\ shown \in [Alerts -> 0..Len(changes)]
      /\ \A a \in Alerts : shown[a] # 0 => changes[shown[a]].alert = a
  BY DEF CentreInv, ShownIsARow
<1>3. CASE UNCHANGED <<shown, stored>>
  <2>1. shown' = shown
    BY <1>3
  <2>2. shown' \in [Alerts -> 0..Len(changes')]
    BY <1>1, <1>2, <2>1
  <2>3. \A a \in Alerts : shown'[a] # 0 => changes'[shown'[a]].alert = a
    BY <1>1, <1>2, <2>1
  <2> QED BY <2>1, <2>2, <2>3 DEF ShownIsARow
<1>4. ASSUME NEW i \in Rows, Take(i)
      PROVE  /\ ShownIsARow'
             /\ \A a \in Alerts : shown'[a] = shown[a] \/ (shown'[a] \in Rows /\ shown[a] <= shown'[a]
                                                            /\ changes[shown'[a]].alert = a)
  <2> DEFINE a == changes[i].alert
  <2>1. \/ shown' = shown
        \/ shown' = [shown EXCEPT ![a] = i] /\ shown[a] <= i
    BY <1>4 DEF Take, Follows
  <2>2. a \in Alerts
    BY <1>1
  <2>3. \A b \in Alerts : \/ shown'[b] = shown[b]
                          \/ shown'[b] = i /\ shown[b] <= i /\ changes[i].alert = b
    BY <1>2, <2>1, <2>2
  <2>4. shown' \in [Alerts -> 0..Len(changes')]
    BY <1>1, <1>2, <2>1, <2>2
  <2>5. \A b \in Alerts : shown'[b] # 0 => changes'[shown'[b]].alert = b
    BY <1>1, <1>2, <2>3
  <2> QED BY <2>3, <2>4, <2>5 DEF ShownIsARow
<1> QED BY <1>3, <1>4, ProjectionWriters

\* The marks: an alert's mark is for its own event.
LEMMA MarksAreKept ==
  ASSUME CentreInv, CentreNext
  PROVE  MarksAreTyped' /\ ActedOnOwnEvent'
<1>1. CASE UNCHANGED control
  BY <1>1 DEF CentreInv, MarksAreTyped, ActedOnOwnEvent
<1>2. ASSUME NEW a \in Alerts, NEW e \in Events, NEW to \in Actions, Marks(a, e, to)
      PROVE  MarksAreTyped' /\ ActedOnOwnEvent'
  BY <1>2 DEF Marks, Allowed, Found, CentreInv, MarksAreTyped, ActedOnOwnEvent
<1> QED BY <1>1, <1>2, MarkWriters

-----------------------------------------------------------------------------
\* What is held of an alert moves forward with every step.
Held(a) == Rank(EffectiveState(Base(a), Marked(a, EventOf[a])))

\* The state that the Cloud's rows give an alert, and its mark, have their types.
LEMMA BaseIsAState ==
  ASSUME CentreInv, NEW a \in Alerts
  PROVE  /\ Base(a) \in {"NONE"} \cup AlertStates
         /\ Marked(a, EventOf[a]) \in {"NONE"} \cup Actions
         /\ Base(a) # "NONE" => Base(a) \in AlertStates
<1>1. shown[a] \in 0..Len(changes) /\ changes \in Seq(Changes)
  BY DEF CentreInv, ShownIsARow, RowsMoveForward
<1>2. Base(a) \in {"NONE"} \cup AlertStates
  <2>1. CASE shown[a] = 0
    BY <2>1 DEF Base
  <2>2. CASE shown[a] # 0
    BY <1>1, <2>2, RowsAreTyped DEF Base, CentreInv
  <2> QED BY <2>1, <2>2
<1>3. control[a].state \in {"NONE"} \cup Actions
  BY DEF CentreInv, MarksAreTyped
<1> QED BY <1>2, <1>3 DEF Marked

\* No step takes the state in which the Cloud holds an alert back: neither a
\* later row under a mark nor a mark over a later row.
LEMMA HeldMovesForward ==
  ASSUME CentreInv, CentreNext, NEW a \in Alerts
  PROVE  Held(a) <= Held(a)'
<1>0. CentreInv => /\ Base(a) \in {"NONE"} \cup AlertStates
                   /\ Marked(a, EventOf[a]) \in {"NONE"} \cup Actions
  BY BaseIsAState
<1> DEFINE m == Marked(a, EventOf[a])
           n == Marked(a, EventOf[a])'
           b == Base(a)
           c == Base(a)'
<1>1. b \in {"NONE"} \cup AlertStates /\ m \in {"NONE"} \cup Actions
  BY <1>0
<1>2. n \in {"NONE"} \cup Actions
  <2>1. control'[a].state \in {"NONE"} \cup Actions
    BY MarksAreKept DEF MarksAreTyped
  <2> QED BY <2>1 DEF Marked
<1>3. c \in {"NONE"} \cup AlertStates /\ Rank(b) <= Rank(c) /\ (b # "NONE" => c # "NONE")
  <2>1. /\ changes \in Seq(Changes) /\ Rows = 1..Len(changes) /\ Len(changes) \in Nat
        /\ shown[a] \in 0..Len(changes) /\ (shown[a] # 0 => changes[shown[a]].alert = a)
        /\ \A i \in Rows : changes'[i] = changes[i] /\ changes[i].state \in AlertStates
    BY RowsAreKept, RowsAreTyped DEF CentreInv, ShownIsARow, RowsMoveForward
  <2>2. \/ shown'[a] = shown[a]
        \/ shown'[a] \in Rows /\ shown[a] <= shown'[a] /\ changes[shown'[a]].alert = a
    BY ShownIsKept
  <2>3. CASE shown'[a] = shown[a]
    <3>1. c = b
      BY <2>1, <2>3 DEF Base
    <3> HIDE DEF b, c
    <3>2. Rank(b) \in 0..4
      BY <1>1, RankIsNat
    <3> QED BY <1>1, <3>1, <3>2
  <2>4. CASE shown'[a] \in Rows /\ shown[a] <= shown'[a] /\ changes[shown'[a]].alert = a
    <3>1. c = changes[shown'[a]].state /\ c \in AlertStates /\ c # "NONE"
      BY <2>1, <2>4 DEF Base, AlertStates
    <3>2. CASE shown[a] = 0
      <4>1. b = "NONE"
        BY <3>2 DEF Base
      <4> QED BY <3>1, <4>1 DEF Rank, AlertStates
    <3>3. CASE shown[a] # 0
      <4>1. b = changes[shown[a]].state /\ shown[a] \in Rows
        BY <2>1, <3>3 DEF Base
      <4>2. Rank(changes[shown[a]].state) <= Rank(changes[shown'[a]].state)
        BY <2>1, <2>4, <3>3, <4>1 DEF CentreInv, RowsMoveForward
      <4> QED BY <3>1, <4>1, <4>2
    <3> QED BY <3>2, <3>3
  <2> QED BY <2>2, <2>3, <2>4
<1>4. Rank(EffectiveState(b, m)) <= Rank(EffectiveState(b, n))
  <2>0. EffectiveState(b, m) \in {"NONE"} \cup AlertStates
    BY <1>1 DEF EffectiveState, AlertStates, Actions
  <2>1. CASE n = m
    <3> HIDE DEF b, m, n
    <3>1. Rank(EffectiveState(b, m)) \in 0..4
      BY <2>0, RankIsNat
    <3> QED BY <2>1, <3>1
  <2>2. CASE UNCHANGED control
    BY <2>1, <2>2 DEF Marked
  <2>3. ASSUME NEW x \in Alerts, NEW e \in Events, NEW to \in Actions, Marks(x, e, to)
        PROVE  Rank(EffectiveState(b, m)) <= Rank(EffectiveState(b, n))
    <3>1. /\ EventOf[x] = e /\ control' = [control EXCEPT ![x] = [state |-> to, event |-> e]]
          /\ DOMAIN control = Alerts
      BY <2>3 DEF Marks, Allowed, Found, CentreInv, MarksAreTyped
    <3>2. CASE x # a
      <4>1. control'[a] = control[a]
        BY <3>1, <3>2
      <4> QED BY <2>1, <4>1 DEF Marked
    <3>3. CASE x = a
      <4>1. n = to
        BY <3>1, <3>3 DEF Marked
      <4>2. /\ b # "NONE" /\ EffectiveState(b, m) # "RESOLVED"
            /\ ~(to = "ACKNOWLEDGED" /\ EffectiveState(b, m) = "ASSIGNED")
        BY <2>3, <3>3 DEF Marks, Allowed, Found
      <4>3. b \in AlertStates
        BY <1>1, <4>2
      <4> HIDE DEF b, m, n
      <4> QED BY <1>1, <4>1, <4>2, <4>3, MarkMovesForward
    <3> QED BY <3>2, <3>3
  <2> QED BY <2>2, <2>3, MarkWriters
<1>5. /\ Rank(EffectiveState(b, n)) <= Rank(EffectiveState(c, n))
      /\ Rank(EffectiveState(b, m)) \in 0..4 /\ Rank(EffectiveState(b, n)) \in 0..4
      /\ Rank(EffectiveState(c, n)) \in 0..4
  <2>1. \A s \in {"NONE"} \cup AlertStates, k \in {"NONE"} \cup Actions :
          EffectiveState(s, k) \in {"NONE"} \cup AlertStates
    BY DEF EffectiveState, AlertStates, Actions
  <2> HIDE DEF b, c, m, n
  <2> QED BY <1>1, <1>2, <1>3, <2>1, RankIsNat, EffectiveIsMonotone
<1>6. Held(a) = Rank(EffectiveState(b, m)) /\ Held(a)' = Rank(EffectiveState(c, n))
  BY DEF Held
<1> HIDE DEF b, c, m, n
<1> QED BY <1>4, <1>5, <1>6

-----------------------------------------------------------------------------
(* Types of the wire, of the trade and of the page.                        *)

\* What the forwarder knows and what the Cloud has stored are rows.
LEMMA WireTypes ==
  ASSUME CentreInv, CentreNext
  PROVE  delivered' \cup later' \cup tried' \cup flight' \cup stored' \subseteq Rows'
<1>1. delivered \cup later \cup tried \cup flight \cup stored \subseteq Rows
  BY DEF CentreInv, CentreTypeOK
<1>2. Rows \subseteq Rows'
  BY RowsAreKept
<1>3. stored' \subseteq Rows
  <2>1. CASE UNCHANGED <<shown, stored>>
    BY <1>1, <2>1
  <2>2. ASSUME NEW i \in Rows, Take(i) PROVE stored' \subseteq Rows
    BY <1>1, <2>2 DEF Take
  <2> QED BY <2>1, <2>2, ProjectionWriters
<1>4. delivered' \cup later' \cup tried' \cup flight' \subseteq Rows
  <2>1. CASE Send \/ Acknowledged \/ GiveUp \/ \E i \in Rows : FallsDueAgain(i)
    BY <1>1, <2>1 DEF Send, Acknowledged, GiveUp, FallsDueAgain
  <2>2. CASE ~(Send \/ Acknowledged \/ GiveUp \/ \E i \in Rows : FallsDueAgain(i))
    <3>1. UNCHANGED wireVars
      BY <2>2 DEF CentreNext, Forward, Request, EdgeChange, Take, Close, Attempt, Synchronise,
         FallsSilent, MoveRegister, OthersAct, Select, Rename, Retry, AnswerSnapshot,
         SnapshotArrives, Fail, OpenStream, BreakStream, FollowNotice, Poll, ActOnShown, Serve,
         AskAfterAct, Blank
    <3> QED BY <1>1, <3>1 DEF wireVars
  <2> QED BY <2>1, <2>2
<1> QED BY <1>2, <1>3, <1>4

\* The part of the type invariant that orders, registers and marks write.
TradeTyped ==
  /\ closed \subseteq Orders /\ attempt \in [Orders -> Statuses]
  /\ roster \in [Registers -> Events] /\ lively \subseteq Registers

\* Every step keeps that part.
LEMMA TradeTypes ==
  ASSUME CentreInv, CentreNext
  PROVE  TradeTyped'
<1>0. TradeTyped
  BY DEF CentreInv, CentreTypeOK, TradeTyped
<1>1. ASSUME NEW o \in Orders, Close(o) \/ Attempt(o) PROVE TradeTyped'
  <2>1. RegisterOf[o] \in Registers
    BY CommandCentreAssumption DEF CommandCentreAssumption
  <2>2. CASE Close(o)
    BY <1>0, <2>1, <2>2 DEF Close, TradeTyped
  <2>3. CASE Attempt(o)
    <3>1. PICK s \in Statuses : attempt' = [attempt EXCEPT ![o] = s]
      BY <2>3 DEF Attempt, Statuses
    <3> QED BY <1>0, <2>3, <3>1 DEF Attempt, TradeTyped
  <2> QED BY <1>1, <2>2, <2>3
<1>2. ASSUME NEW r \in Registers,
             Synchronise(r) \/ FallsSilent(r) \/ \E e \in Events : MoveRegister(r, e)
      PROVE  TradeTyped'
  BY <1>0, <1>2 DEF Synchronise, FallsSilent, MoveRegister, TradeTyped
<1>3. CASE /\ ~(\E o \in Orders : Close(o) \/ Attempt(o))
           /\ ~(\E r \in Registers : Synchronise(r) \/ FallsSilent(r)
                                       \/ \E e \in Events : MoveRegister(r, e))
  <2>1. UNCHANGED tradeVars
    BY <1>3 DEF CentreNext, Forward, Request, Send, EdgeChange, Take, Acknowledged, GiveUp,
       FallsDueAgain, OthersAct, Select, Rename, Retry, AnswerSnapshot, SnapshotArrives, Fail,
       OpenStream, BreakStream, FollowNotice, Poll, ActOnShown, Serve, AskAfterAct, Blank,
       Record, cloudVars
  <2> QED BY <1>0, <2>1 DEF tradeVars, TradeTyped
<1> QED BY <1>1, <1>2, <1>3

\* The part of the type invariant that the page and its fetches write.
PageTyped ==
  /\ context \in Events \cup {None} /\ active \in Events \cup {None}
  /\ mode \in {"IDLE", "CONNECTING", "LIVE", "POLLING"}
  /\ stream \in {"closed", "opening", "open"}
  /\ failed \in BOOLEAN /\ news \in BOOLEAN /\ awaiting \in BOOLEAN /\ blind \in BOOLEAN
  /\ (stream # "closed" => active # None) /\ (awaiting => stream = "open")
  /\ (mode = "LIVE") <=> (stream = "open")
  /\ DOMAIN fetches = Causes \X Events

\* The type invariant is made of its parts.
LEMMA TypesByPart ==
  /\ CentreInv => PageTyped
  /\ (RowsMoveForward /\ ShownIsARow /\ MarksAreTyped /\ TradeTyped /\ PageTyped
        /\ delivered \cup later \cup tried \cup flight \cup stored \subseteq Rows) => CentreTypeOK
<1>1. CentreInv => PageTyped
  BY DEF CentreInv, CentreTypeOK, PageTyped
<1>2. ASSUME RowsMoveForward, ShownIsARow, MarksAreTyped, TradeTyped, PageTyped,
             delivered \cup later \cup tried \cup flight \cup stored \subseteq Rows
      PROVE  CentreTypeOK
  <2>1. \A a \in Alerts : venue[a] \in {"NONE", "OPEN", "ACKNOWLEDGED", "ASSIGNED", "RESOLVED"}
                       /\ shown[a] \in 0..Len(changes)
                       /\ control[a].state \in {"NONE"} \cup Actions
                       /\ control[a].event \in Events \cup {None}
    BY <1>2 DEF RowsMoveForward, ShownIsARow, MarksAreTyped, AlertStates
  <2>2. (mode = "LIVE") = (stream = "open")
    BY <1>2 DEF PageTyped
  <2> QED BY <1>2, <2>1, <2>2 DEF CentreTypeOK, TradeTyped, PageTyped
<1> QED BY <1>1, <1>2

\* What is known of the stream's notices keeps its type.
LEMMA NoticeTypes ==
  ASSUME news \in BOOLEAN, blind \in BOOLEAN,
         \/ UNCHANGED noticeVars \/ Announce \/ Miss \/ Silence
         \/ \E e : Noticed(e)
  PROVE  news' \in BOOLEAN /\ blind' \in BOOLEAN
  BY DEF Announce, Miss, Silence, Noticed, noticeVars

\* What happens at the venue and at the Cloud leaves the page alone.
PageIsLeftAlone == UNCHANGED pageVars /\ news' \in BOOLEAN /\ blind' \in BOOLEAN

\* A page that takes no step stays sound.
LEMMA LeftAlone ==
  ASSUME CentreInv, PageIsLeftAlone
  PROVE  PageTyped' /\ PageIsSound'
<1>1. UNCHANGED <<context, active, view, mode, failed, stream, awaiting, fetches, acting>>
  BY DEF PageIsLeftAlone, pageVars
<1>2. PageIsSound'
  BY <1>1 DEF CentreInv, PageIsSound, OfAlerts
<1>3. PageTyped'
  BY <1>1, TypesByPart DEF PageIsLeftAlone, PageTyped
<1> QED BY <1>2, <1>3

\* The steps of the venue, the Cloud and the registers leave the page alone.
LEMMA CloudLeavesPageAlone ==
  ASSUME CentreInv,
         \/ \E a \in Alerts : EdgeChange(a)
         \/ Forward \/ GiveUp \/ (\E i \in Rows : Take(i))
         \/ \E o \in Orders : Close(o) \/ Attempt(o)
         \/ \E r \in Registers :
              Synchronise(r) \/ FallsSilent(r) \/ (\E e \in Events : MoveRegister(r, e))
         \/ \E a \in Alerts, to \in Actions : OthersAct(a, to)
  PROVE  PageTyped' /\ PageIsSound'
<1>1. UNCHANGED pageVars
  BY DEF Forward, Send, EdgeChange, Take, Acknowledged, GiveUp, FallsDueAgain, Close, Attempt,
     Synchronise, FallsSilent, MoveRegister, OthersAct
<1>2. \/ UNCHANGED noticeVars \/ Announce \/ Miss \/ \E e : Noticed(e)
  BY DEF Forward, Send, EdgeChange, Take, Acknowledged, GiveUp, FallsDueAgain, Close, Attempt,
     Synchronise, FallsSilent, MoveRegister, OthersAct, Record, noticeVars
<1>3. news' \in BOOLEAN /\ blind' \in BOOLEAN
  BY <1>2, NoticeTypes, TypesByPart DEF PageTyped
<1> QED BY <1>1, <1>3, LeftAlone DEF PageIsLeftAlone

\* A request for a snapshot is of alerts, whatever event it is for.
FetchesAreSound ==
  /\ DOMAIN fetches = Causes \X Events
  /\ \A f \in Causes \X Events : fetches[f] # None => OfAlerts(fetches[f].content)

\* A fetch that is asked for has no content yet.
LEMMA AskIsSound ==
  ASSUME CentreInv, NEW f, Ask(f)
  PROVE  FetchesAreSound'
<1>1. DOMAIN fetches = Causes \X Events /\ \A g \in Causes \X Events :
        fetches[g] # None => OfAlerts(fetches[g].content)
  BY DEF CentreInv, CentreTypeOK, PageIsSound
<1>2. fetches' = [fetches EXCEPT ![f] = Asked(f)]
  BY DEF Ask
<1>3. OfAlerts(Asked(f).content)
  BY SnapshotIsOfAlerts DEF Asked
<1>4. \A g \in Causes \X Events : fetches'[g] = IF g = f THEN Asked(f) ELSE fetches[g]
  BY <1>1, <1>2
<1>5. \A g \in Causes \X Events : fetches'[g] # None => DOMAIN fetches'[g].content.risks \subseteq Alerts
  BY <1>1, <1>3, <1>4 DEF OfAlerts
<1> QED BY <1>1, <1>2, <1>5 DEF FetchesAreSound, OfAlerts

\* A fetch that has ended has no content.
LEMMA EndedIsSound ==
  ASSUME CentreInv, NEW f, fetches' = [fetches EXCEPT ![f] = None]
  PROVE  FetchesAreSound'
<1>1. DOMAIN fetches = Causes \X Events /\ \A g \in Causes \X Events :
        fetches[g] # None => OfAlerts(fetches[g].content)
  BY DEF CentreInv, CentreTypeOK, PageIsSound
<1>2. \A g \in Causes \X Events : fetches'[g] = IF g = f THEN None ELSE fetches[g]
  BY <1>1
<1> QED BY <1>1, <1>2 DEF FetchesAreSound, OfAlerts

\* A fetch that is answered has the content of its event.
LEMMA AnswerIsSound ==
  ASSUME CentreInv, NEW f \in Causes \X Events, AnswerSnapshot(f)
  PROVE  FetchesAreSound'
<1>1. DOMAIN fetches = Causes \X Events /\ \A g \in Causes \X Events :
        fetches[g] # None => OfAlerts(fetches[g].content)
  BY DEF CentreInv, CentreTypeOK, PageIsSound
<1> DEFINE first == fetches[f].content
           last == Snapshot(f[2])
<1>2. PICK early : fetches' = [fetches EXCEPT ![f] =
            [stage |-> "answered",
             content |-> [s \in Sections |-> IF s \in early THEN first[s] ELSE last[s]]]]
  BY DEF AnswerSnapshot
<1> DEFINE content == [s \in Sections |-> IF s \in early THEN first[s] ELSE last[s]]
<1>3. OfAlerts(first) /\ OfAlerts(last)
  BY <1>1, SnapshotIsOfAlerts DEF AnswerSnapshot, NotAsked
<1>4. content.risks = first.risks \/ content.risks = last.risks
  <2> HIDE DEF first, last
  <2> QED BY DEF Sections
<1>5. OfAlerts(content)
  BY <1>3, <1>4 DEF OfAlerts
<1> DEFINE answer == [stage |-> "answered", content |-> content]
<1>6. answer.content = content
  <2> HIDE DEF content
  <2> QED OBVIOUS
<1> HIDE DEF content
<1>7. fetches' = [fetches EXCEPT ![f] = answer]
  BY <1>2 DEF content
<1> HIDE DEF answer
<1>8. \A g \in Causes \X Events : fetches'[g] = IF g = f THEN answer ELSE fetches[g]
  BY <1>1, <1>7
<1>9. OfAlerts(answer.content)
  BY <1>5, <1>6
<1>10. \A g \in Causes \X Events : fetches'[g] # None => DOMAIN fetches'[g].content.risks \subseteq Alerts
  BY <1>1, <1>8, <1>9 DEF OfAlerts
<1> QED BY <1>1, <1>7, <1>10 DEF FetchesAreSound, OfAlerts

\* Every step of the page keeps it sound: its action stays of the alert and of
\* the event that it was taken for.
LEMMA PageStepIsSound ==
  ASSUME CentreInv,
         \/ \E e \in Events : Select(e)
         \/ Rename \/ Retry \/ OpenStream \/ BreakStream \/ FollowNotice \/ Poll \/ AskAfterAct
         \/ Serve
         \/ \E a \in Alerts, to \in Actions : ActOnShown(a, to)
         \/ \E f \in Causes \X Events : Request(f) \/ Fail(f)
  PROVE  PageTyped' /\ PageIsSound'
<1>0. /\ PageTyped /\ FetchesAreSound
      /\ view # None => OfAlerts(view.content)
      /\ acting # None => acting \in [alert : Alerts, to : Actions, event : Events, done : BOOLEAN]
      /\ None \notin Events
  BY TypesByPart, CommandCentreAssumption
     DEF CentreInv, CentreTypeOK, PageIsSound, FetchesAreSound, CommandCentreAssumption
<1>1. FetchesAreSound'
  <2>1. CASE UNCHANGED fetches
    BY <1>0, <2>1 DEF FetchesAreSound, OfAlerts
  <2>2. CASE \E f : Ask(f)
    BY <2>2, AskIsSound
  <2>3. CASE \E f \in Causes \X Events : AnswerSnapshot(f)
    BY <2>3, AnswerIsSound
  <2>4. CASE \E f : fetches' = [fetches EXCEPT ![f] = None]
    BY <2>4, EndedIsSound
  <2>5. \/ UNCHANGED fetches \/ (\E f : Ask(f)) \/ (\E f \in Causes \X Events : AnswerSnapshot(f))
        \/ \E f : fetches' = [fetches EXCEPT ![f] = None]
    BY DEF Select, Rename, Retry, OpenStream, BreakStream, FollowNotice, Poll, AskAfterAct, Serve,
       ActOnShown, Request, SnapshotArrives, Fail
  <2> QED BY <2>1, <2>2, <2>3, <2>4, <2>5
<1>2. view' # None => OfAlerts(view.content)'
  <2>1. CASE view' = view \/ view' = None
    BY <1>0, <2>1 DEF OfAlerts
  <2>2. ASSUME NEW f \in Causes \X Events, SnapshotArrives(f)
        PROVE  view' # None => OfAlerts(view.content)'
    <3>1. view'.content = fetches[f].content /\ fetches[f] # None
      BY <2>2 DEF SnapshotArrives, NotAsked
    <3>2. OfAlerts(fetches[f].content)
      BY <1>0, <3>1 DEF FetchesAreSound
    <3> QED BY <3>1, <3>2 DEF OfAlerts
  <2>3. \/ view' = view \/ view' = None \/ \E f \in Causes \X Events : SnapshotArrives(f)
    BY DEF Select, Blank, Rename, Retry, OpenStream, BreakStream, FollowNotice, Poll, AskAfterAct,
       Serve, ActOnShown, Request, AnswerSnapshot, Fail
  <2> QED BY <2>1, <2>2, <2>3
<1>3. acting' # None => acting' \in [alert : Alerts, to : Actions, event : Events, done : BOOLEAN]
  <2>1. CASE acting' = acting \/ acting' = None
    BY <1>0, <2>1
  <2>2. CASE Serve
    BY <1>0, <2>2 DEF Serve
  <2>3. ASSUME NEW a \in Alerts, NEW to \in Actions, ActOnShown(a, to)
        PROVE  acting' \in [alert : Alerts, to : Actions, event : Events, done : BOOLEAN]
    BY <1>0, <2>3 DEF ActOnShown, PageTyped
  <2>4. \/ acting' = acting \/ acting' = None \/ Serve
        \/ \E a \in Alerts, to \in Actions : ActOnShown(a, to)
    BY DEF Select, Blank, Rename, Retry, OpenStream, BreakStream, FollowNotice, Poll, AskAfterAct,
       Request, AnswerSnapshot, SnapshotArrives, Fail
  <2> QED BY <2>1, <2>2, <2>3, <2>4
<1>4. PageTyped'
  <2>0. DOMAIN fetches' = Causes \X Events
    BY <1>1 DEF FetchesAreSound
  <2>1. ASSUME NEW e \in Events, Select(e) PROVE PageTyped'
    BY <1>0, <2>0, <2>1 DEF Select, Blank, Silence, PageTyped
  <2>2. CASE Rename
    BY <1>0, <2>0, <2>2 DEF Rename, Blank, Silence, PageTyped
  <2>3. CASE Retry \/ Poll \/ AskAfterAct
    BY <1>0, <2>0, <2>3 DEF Retry, Poll, AskAfterAct, noticeVars, PageTyped
  <2>4. CASE OpenStream
    BY <1>0, <2>0, <2>4 DEF OpenStream, Announce, PageTyped
  <2>5. CASE BreakStream
    BY <1>0, <2>0, <2>5 DEF BreakStream, StreamFails, AfterFailure, Silence, PageTyped
  <2>6. CASE FollowNotice
    BY <1>0, <2>0, <2>6 DEF FollowNotice, Silence, PageTyped
  <2>7. CASE Serve
    <3>1. \/ UNCHANGED noticeVars \/ \E e : Noticed(e)
      BY <2>7 DEF Serve, Record, noticeVars
    <3>2. news' \in BOOLEAN /\ blind' \in BOOLEAN
      BY <1>0, <3>1, NoticeTypes DEF PageTyped
    <3>3. failed' \in BOOLEAN /\ UNCHANGED <<context, active, mode, stream, awaiting>>
      BY <1>0, <2>7 DEF Serve, PageTyped
    <3> QED BY <1>0, <2>0, <3>2, <3>3 DEF PageTyped
  <2>8. ASSUME NEW a \in Alerts, NEW to \in Actions, ActOnShown(a, to) PROVE PageTyped'
    BY <1>0, <2>0, <2>8 DEF ActOnShown, noticeVars, PageTyped
  <2>9. ASSUME NEW f \in Causes \X Events, AnswerSnapshot(f) PROVE PageTyped'
    BY <1>0, <2>0, <2>9 DEF AnswerSnapshot, noticeVars, PageTyped
  <2>10. ASSUME NEW f \in Causes \X Events, SnapshotArrives(f) PROVE PageTyped'
    <3>1. f[2] \in Events /\ f[2] # None
      BY <1>0
    <3>2. CASE f[1] = "load"
      BY <1>0, <2>0, <2>10, <3>1, <3>2 DEF SnapshotArrives, Silence, PageTyped
    <3>3. CASE f[1] # "load"
      <4>1. awaiting' \in BOOLEAN /\ blind' \in BOOLEAN /\ (awaiting' => awaiting)
        BY <2>10, <3>3 DEF SnapshotArrives
      <4>2. UNCHANGED <<active, mode, stream, news, context>> /\ failed' = FALSE
        BY <2>10, <3>3 DEF SnapshotArrives
      <4> QED BY <1>0, <2>0, <4>1, <4>2 DEF PageTyped
    <3> QED BY <3>2, <3>3
  <2>11. ASSUME NEW f \in Causes \X Events, Fail(f) PROVE PageTyped'
    <3>1. failed' \in BOOLEAN /\ UNCHANGED <<context, active>>
      BY <2>11 DEF Fail
    <3>2. CASE awaiting /\ f = <<"stream", active>>
      BY <1>0, <2>0, <2>11, <3>1, <3>2 DEF Fail, StreamFails, AfterFailure, Silence, PageTyped
    <3>3. CASE ~(awaiting /\ f = <<"stream", active>>)
      <4>1. UNCHANGED <<stream, mode, awaiting, news, blind>>
        BY <2>11, <3>3 DEF Fail, noticeVars
      <4> QED BY <1>0, <2>0, <3>1, <4>1 DEF PageTyped
    <3> QED BY <3>2, <3>3
  <2> QED BY <2>1, <2>2, <2>3, <2>4, <2>5, <2>6, <2>7, <2>8, <2>9, <2>10, <2>11 DEF Request
<1> QED BY <1>1, <1>2, <1>3, <1>4 DEF PageIsSound, FetchesAreSound

-----------------------------------------------------------------------------
\* The invariant holds at first.
LEMMA CentreInitIsSound == CentreInit => CentreInv
<1> SUFFICES ASSUME CentreInit PROVE CentreInv
  OBVIOUS
<1>1. /\ Len(changes) = 0 /\ Rows = {} /\ changes \in Seq(Changes)
  BY DEF CentreInit, Rows
<1>2. RowsMoveForward
  BY <1>1 DEF CentreInit, RowsMoveForward
<1>3. ShownIsARow
  BY <1>1 DEF CentreInit, ShownIsARow
<1>4. MarksAreTyped /\ ActedOnOwnEvent
  BY DEF CentreInit, MarksAreTyped, ActedOnOwnEvent
<1>5. TradeTyped
  BY CommandCentreAssumption DEF CentreInit, TradeTyped, Statuses, CommandCentreAssumption
<1>6. PageTyped
  BY DEF CentreInit, PageTyped
<1>7. PageIsSound
  <2>1. \A f \in Causes \X Events : fetches[f] # None => fetches[f] = Asked(f)
    BY DEF CentreInit
  <2>2. \A f : OfAlerts(Asked(f).content)
    BY SnapshotIsOfAlerts DEF Asked
  <2>3. \A f \in Causes \X Events : fetches[f] # None => OfAlerts(fetches[f].content)
    BY <2>1, <2>2
  <2> QED BY <2>3 DEF CentreInit, PageIsSound
<1>8. delivered \cup later \cup tried \cup flight \cup stored \subseteq Rows
  BY DEF CentreInit
<1> QED BY <1>2, <1>3, <1>4, <1>5, <1>6, <1>7, <1>8, TypesByPart DEF CentreInv

\* Every step keeps the invariant.
LEMMA CentreNextIsSound == CentreInv /\ [CentreNext]_centreVars => CentreInv'
<1>0. ((RowsMoveForward /\ ShownIsARow /\ MarksAreTyped /\ TradeTyped /\ PageTyped
        /\ delivered \cup later \cup tried \cup flight \cup stored \subseteq Rows) => CentreTypeOK)'
  BY TypesByPart, PTL
<1> SUFFICES ASSUME CentreInv, [CentreNext]_centreVars PROVE CentreInv'
  OBVIOUS
<1>1. CASE CentreNext
  <2>1. PageTyped' /\ PageIsSound'
    BY <1>1, CloudLeavesPageAlone, PageStepIsSound DEF CentreNext
  <2>2. /\ RowsMoveForward' /\ ShownIsARow' /\ MarksAreTyped' /\ ActedOnOwnEvent' /\ TradeTyped'
        /\ delivered' \cup later' \cup tried' \cup flight' \cup stored' \subseteq Rows'
    BY <1>1, RowsAreKept, ShownIsKept, MarksAreKept, TradeTypes, WireTypes
  <2>3. CentreTypeOK'
    BY <1>0, <2>1, <2>2
  <2> QED BY <2>1, <2>2, <2>3 DEF CentreInv
<1>2. CASE UNCHANGED centreVars
  <2>1. /\ UNCHANGED <<venue, changes, delivered, later, tried, flight, stored, shown, control>>
        /\ UNCHANGED <<closed, attempt, roster, lively, context, active, view, mode, failed>>
        /\ UNCHANGED <<stream, awaiting, fetches, acting, news, blind>>
    BY <1>2 DEF centreVars, alertVars, wireVars, cloudVars, tradeVars, pageVars, noticeVars
  <2>2. RowsMoveForward' /\ ShownIsARow' /\ MarksAreTyped' /\ ActedOnOwnEvent'
    BY <2>1 DEF CentreInv, RowsMoveForward, ShownIsARow, MarksAreTyped, ActedOnOwnEvent, Rows
  <2>3. PageIsSound'
    BY <2>1 DEF CentreInv, PageIsSound, OfAlerts
  <2>4. CentreTypeOK'
    BY <2>1 DEF CentreInv, CentreTypeOK, Rows
  <2> QED BY <2>2, <2>3, <2>4 DEF CentreInv
<1> QED BY <1>1, <1>2

\* The invariant holds in every state, for any events, alerts, orders, registers
\* and bound.
THEOREM CentreInvariant == CentreSpec => []CentreInv
  BY CentreInitIsSound, CentreNextIsSound, PTL DEF CentreSpec

\* The alert rows, what the forwarder and the Cloud know of them, the trade and
\* the page keep their type, and the page reads its stream only while it is live.
THEOREM CentreTypes == CentreSpec => []CentreTypeOK
<1>1. CentreInv => CentreTypeOK
  BY DEF CentreInv
<1> QED BY <1>1, CentreInvariant, PTL

\* The page may show one event while it is live on another; even so its action
\* marks only an alert of the event it was sent for.
THEOREM ActionsStayInTheirEvent == CentreSpec => []ActedOnOwnEvent
<1>1. CentreInv => ActedOnOwnEvent
  BY DEF CentreInv
<1> QED BY <1>1, CentreInvariant, PTL

\* Rows arrive late, twice and out of order and operators act in between; what the
\* command centre holds of an alert never goes back.
THEOREM AlertsNeverGoBack == CentreSpec => HeldNeverGoesBack
<1>1. ASSUME CentreInv, [CentreNext]_centreVars
      PROVE  [\A a \in Alerts :
                LET held == Rank(EffectiveState(Base(a), Marked(a, EventOf[a])))
                IN held <= held']_centreVars
  <2>1. CASE UNCHANGED centreVars
    BY <2>1
  <2>2. CASE CentreNext
    BY <1>1, <2>2, HeldMovesForward DEF Held
  <2> QED BY <1>1, <2>1, <2>2
<1> QED BY <1>1, CentreInvariant, PTL DEF CentreSpec, HeldNeverGoesBack

=============================================================================
