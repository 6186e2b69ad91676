---------------------------- MODULE PaymentProofs ----------------------------
(***************************************************************************)
(* Proofs about the payments: first about RegisterPayments, then about     *)
(* CloudPayments.                                                          *)
(*                                                                         *)
(* That a payment result shown at a tier is true is proved for any number  *)
(* of attempts, of calls and of operations, and whether or not the         *)
(* register's clock may go back.  What the Cloud makes of a payment        *)
(* attempt is accounted for, and moves as PaymentTruth promises the other  *)
(* tiers, for any number of provider references, status checks and         *)
(* retries.                                                                *)
(***************************************************************************)
EXTENDS RegisterPayments, CloudPayments, FiniteSetTheorems, TLAPS

-----------------------------------------------------------------------------
(* The inductive invariant.                                                  *)

\* Every answer that is still on its way was true when it was given: a final
\* state in it can no longer change where it was read.
AnswerIsTrue(s) ==
  /\ op[s].stage # "free" =>
       op[s].attempt \in Attempts /\ attempt[op[s].attempt].state # NoRow
  /\ op[s].stage \in {"calling", "answered", "toPos"} => edge[op[s].attempt] # NoRow
  /\ op[s].stage \in {"answered", "toPos"} => op[s].view # NoRow
  /\ op[s].stage = "answered" /\ op[s].view \in Terminal =>
       truth[op[s].attempt] = op[s].view
  /\ op[s].stage = "toPos" /\ op[s].view \in Terminal =>
       edge[op[s].attempt] = op[s].view

AnswersAreTrue == \A s \in Slots : AnswerIsTrue(s)

\* A call is about an attempt that exists, and what it is about to write after
\* a failure does not contradict what the register already knows.
CallIsSound(c) ==
  /\ call[c].pc # "idle" =>
       call[c].attempt \in Attempts /\ attempt[call[c].attempt].state # NoRow
  /\ call[c].pc = "marking" => call[c].next # NoRow
  /\ call[c].pc = "marking" /\ call[c].next \in Terminal =>
       attempt[call[c].attempt].state = call[c].next

CallsAreSound == \A c \in Calls : CallIsSound(c)

\* An answer goes to the call that asked, and only to that one.
AnswersFindTheirCall ==
  \A s \in Slots : op[s].caller # NoCall =>
    /\ call[op[s].caller].pc = "waiting"
    /\ call[op[s].caller].attempt = op[s].attempt
    /\ op[s].stage # "free"
    /\ \A t \in Slots : op[t].caller = op[s].caller => t = s

IInv ==
  /\ TypeOK
  /\ ResultsAreTrue
  /\ AnswersAreTrue
  /\ CallsAreSound
  /\ AnswersFindTheirCall

-----------------------------------------------------------------------------
(* The transition table.                                                     *)

\* A final state admits no other: the table is what keeps results.
LEMMA TerminalIsFinal ==
  ASSUME NEW from \in Terminal, NEW to, CanTransition(from, to)
  PROVE  to = from
BY DEF Terminal, CanTransition, AllowedTransitions

\* Doubt about a call is written as a state, and never over a result.
LEMMA UncertaintyIsAState ==
  ASSUME NEW s \in PaymentAttemptStates
  PROVE  /\ StateAfterTransportUncertainty(s) \in PaymentAttemptStates
         /\ StateAfterTransportUncertainty(s) \in Terminal =>
              StateAfterTransportUncertainty(s) = s
BY DEF StateAfterTransportUncertainty, PaymentAttemptStates, Terminal

-----------------------------------------------------------------------------
(* Type correctness.                                                         *)

\* How the groups of states relate.
LEMMA StatesAreDistinct ==
  /\ NoRow \notin PaymentAttemptStates /\ Terminal \subseteq PaymentAttemptStates
  /\ RowStates = PaymentAttemptStates \cup {NoRow}
BY DEF NoRow, PaymentAttemptStates, Terminal, RowStates

USE BoundsAssumption, ClockAssumption, CallsAssumption

\* What the actions build from an operation is an operation.
LEMMA OperationTypes ==
  /\ FreeSlot \in Operations
  /\ \A kind \in {"initiate", "reconcile"}, a \in Attempts, c \in Calls :
       Request(kind, a, c) \in Operations
  /\ \A o \in Operations :
       /\ o.attempt \in 0..MaxAttempts /\ o.view \in RowStates
       /\ [o EXCEPT !.caller = NoCall] \in Operations
       /\ \A stage \in Stages : [o EXCEPT !.stage = stage] \in Operations
       /\ \A stage \in Stages, view \in RowStates :
            [o EXCEPT !.stage = stage, !.view = view] \in Operations
<1>1. FreeSlot \in Operations
  BY DEF Operations, FreeSlot, NoAttempt, RowStates, Stages
<1>2. ASSUME NEW kind \in {"initiate", "reconcile"}, NEW a \in Attempts, NEW c \in Calls
      PROVE  Request(kind, a, c) \in Operations
  <2>1. a \in 0..MaxAttempts /\ "toEdge" \in Stages /\ NoRow \in RowStates
    BY DEF Attempts, Stages, RowStates
  <2> QED
    BY <2>1 DEF Operations, Request
<1>3. ASSUME NEW o \in Operations
      PROVE  /\ o.attempt \in 0..MaxAttempts /\ o.view \in RowStates
             /\ [o EXCEPT !.caller = NoCall] \in Operations
             /\ \A stage \in Stages : [o EXCEPT !.stage = stage] \in Operations
             /\ \A stage \in Stages, view \in RowStates :
                  [o EXCEPT !.stage = stage, !.view = view] \in Operations
  BY DEF Operations
<1> QED
  BY <1>1, <1>2, <1>3

\* What the actions build from a call is a call.
LEMMA CallTypes ==
  /\ IdleCall \in CallStates
  /\ \A a \in Attempts :
       [IdleCall EXCEPT !.pc = "waiting", !.attempt = a] \in CallStates
  /\ \A x \in CallStates :
       /\ x.attempt \in 0..MaxAttempts /\ x.next \in RowStates
       /\ \A next \in RowStates : [x EXCEPT !.pc = "marking", !.next = next] \in CallStates
<1>1. IdleCall \in CallStates
  BY DEF CallStates, IdleCall, NoAttempt, RowStates
<1>2. ASSUME NEW a \in Attempts
      PROVE  [IdleCall EXCEPT !.pc = "waiting", !.attempt = a] \in CallStates
  <2>1. a \in 0..MaxAttempts
    BY DEF Attempts
  <2> QED
    BY <1>1, <2>1 DEF CallStates
<1>3. ASSUME NEW x \in CallStates
      PROVE  /\ x.attempt \in 0..MaxAttempts /\ x.next \in RowStates
             /\ \A next \in RowStates :
                  [x EXCEPT !.pc = "marking", !.next = next] \in CallStates
  BY DEF CallStates
<1> QED
  BY <1>1, <1>2, <1>3

\* What the actions build from an order or an attempt is one.
LEMMA RowTypes ==
  /\ \A x \in Orders :
       /\ x.total \in 0..MaxTotal
       /\ \A total \in 0..MaxTotal :
            [x EXCEPT !.state = "OPEN", !.total = total] \in Orders
       /\ \A state \in {"OPEN", "PAYMENT_PENDING", "CLOSED"} :
            [x EXCEPT !.state = state] \in Orders
       /\ \A a \in Attempts : [x EXCEPT !.state = "CLOSED", !.paidBy = a] \in Orders
  /\ \A x \in AttemptRows :
       /\ x.state \in RowStates
       /\ \A state \in RowStates : [x EXCEPT !.state = state] \in AttemptRows
  /\ \A amount \in 0..MaxTotal, now \in Attempts :
       [state |-> "CREATED", amount |-> amount, createdAt |-> now] \in AttemptRows
<1>1. "CREATED" \in RowStates
  BY DEF RowStates, PaymentAttemptStates
<1>2. ASSUME NEW x \in AttemptRows
      PROVE  /\ x.state \in RowStates
             /\ \A state \in RowStates : [x EXCEPT !.state = state] \in AttemptRows
  BY DEF AttemptRows
<1>3. ASSUME NEW amount \in 0..MaxTotal, NEW now \in Attempts
      PROVE  [state |-> "CREATED", amount |-> amount, createdAt |-> now] \in AttemptRows
  <2>1. now \in 0..MaxAttempts
    BY DEF Attempts
  <2> QED
    BY <1>1, <2>1 DEF AttemptRows
<1>4. ASSUME NEW x \in Orders
      PROVE  /\ x.total \in 0..MaxTotal
             /\ \A total \in 0..MaxTotal :
                  [x EXCEPT !.state = "OPEN", !.total = total] \in Orders
             /\ \A state \in {"OPEN", "PAYMENT_PENDING", "CLOSED"} :
                  [x EXCEPT !.state = state] \in Orders
             /\ \A a \in Attempts : [x EXCEPT !.state = "CLOSED", !.paidBy = a] \in Orders
  <2>1. x.total \in 0..MaxTotal
    BY DEF Orders
  <2>2. ASSUME NEW total \in 0..MaxTotal
        PROVE  [x EXCEPT !.state = "OPEN", !.total = total] \in Orders
    BY DEF Orders
  <2>3. ASSUME NEW state \in {"OPEN", "PAYMENT_PENDING", "CLOSED"}
        PROVE  [x EXCEPT !.state = state] \in Orders
    BY DEF Orders
  <2>4. ASSUME NEW a \in 0..MaxAttempts
        PROVE  [x EXCEPT !.state = "CLOSED", !.paidBy = a] \in Orders
    BY DEF Orders
  <2>5. Attempts \subseteq 0..MaxAttempts
    BY DEF Attempts
  <2> QED
    BY <2>1, <2>2, <2>3, <2>4, <2>5
<1> QED
  BY <1>2, <1>3, <1>4

\* The types hold at first.
LEMMA InitType == Init => TypeOK
<1> SUFFICES ASSUME Init PROVE TypeOK
  OBVIOUS
<1>1. order \in Orders
  BY DEF Init, Orders, NoAttempt
<1>2. attempt \in [Attempts -> AttemptRows]
  BY DEF Init, AttemptRows, RowStates
<1> QED
  BY <1>1, <1>2, OperationTypes, CallTypes DEF Init, TypeOK, RowStates

\* Every step keeps the types.
LEMMA NextType == IInv /\ [Next]_vars => TypeOK'
<1> SUFFICES ASSUME TypeOK, AnswersAreTrue, CallsAreSound, [Next]_vars PROVE TypeOK'
  BY DEF IInv
<1>0. NoRow \in RowStates /\ PaymentAttemptStates \subseteq RowStates
      /\ "CREATED" \in RowStates /\ "UNKNOWN" \in RowStates
  BY StatesAreDistinct DEF PaymentAttemptStates
<1>a. \A a \in Attempts, view \in RowStates : Cached(a, view) \in RowStates
  BY DEF Cached, TypeOK
<1>b. \A s \in RowStates : StateAfterTransportUncertainty(s) \in RowStates
  BY <1>0 DEF StateAfterTransportUncertainty
<1>c. \A a \in Attempts, next \in RowStates : WriteProviderState(a, next) =>
        attempt' \in [Attempts -> AttemptRows] /\ order' \in Orders
  <2> TAKE a \in Attempts, next \in RowStates
  <2> HAVE WriteProviderState(a, next)
  <2>1. attempt' \in [Attempts -> AttemptRows]
    BY RowTypes DEF WriteProviderState, TypeOK
  <2>2. OrderAfter(a, next) \in Orders
    BY RowTypes DEF OrderAfter, TypeOK
  <2> QED
    BY <2>1, <2>2 DEF WriteProviderState
<1>d. ASSUME NEW c \in Calls, call[c].pc # "idle" PROVE Uncertain(c) \in CallStates
  <2>1. attempt[call[c].attempt].state \in RowStates
    BY <1>d, RowTypes DEF TypeOK, CallsAreSound, CallIsSound
  <2> QED
    BY <2>1, <1>b, CallTypes DEF Uncertain, TypeOK
<1>e. \A s \in Slots : op[s].stage # "free" => op[s].attempt \in Attempts
  BY DEF AnswersAreTrue, AnswerIsTrue
<1>f. \A s \in Slots, view \in RowStates :
        Answers(s, view) => op' \in [Slots -> Operations]
  <2> TAKE s \in Slots, view \in RowStates
  <2> HAVE Answers(s, view)
  <2>1. op[s] \in Operations /\ FreeSlot \in Operations /\ "toPos" \in Stages
    BY OperationTypes DEF TypeOK, Stages
  <2>2. [op[s] EXCEPT !.stage = "toPos", !.view = view] \in Operations
    BY <2>1, OperationTypes
  <2> QED
    BY <2>1, <2>2 DEF Answers, TypeOK
<1>1. ASSUME NEW total \in 0..MaxTotal, EditOrder(total) PROVE TypeOK'
  BY <1>1, <1>0, OperationTypes, CallTypes, RowTypes DEF EditOrder, TypeOK
<1>2. CASE RecordCash
  BY <1>2, <1>0, OperationTypes, CallTypes, RowTypes DEF RecordCash, TypeOK
<1>3. ASSUME NEW c \in Calls, NEW s \in Slots, StartPayment(c, s) PROVE TypeOK'
  <2>1. PICK a \in Attempts, now \in Attempts :
          /\ attempt' = [attempt EXCEPT ![a] =
               [state |-> "CREATED", amount |-> order.total, createdAt |-> now]]
          /\ Sends(c, s, "initiate", a)
    BY <1>3 DEF StartPayment, ClockAt
  <2>2. attempt' \in [Attempts -> AttemptRows] /\ order' \in Orders
    BY <1>3, <2>1, RowTypes DEF StartPayment, TypeOK
  <2>3. call' \in [Calls -> CallStates] /\ op' \in [Slots -> Operations]
    BY <2>1, CallTypes, OperationTypes DEF Sends, TypeOK
  <2> QED
    BY <1>3, <2>2, <2>3 DEF StartPayment, TypeOK
<1>4. ASSUME NEW c \in Calls, NEW s \in Slots, CheckStatus(c, s) PROVE TypeOK'
  <2>1. PICK a \in Attempts : Sends(c, s, "reconcile", a)
    BY <1>4 DEF CheckStatus
  <2>2. call' \in [Calls -> CallStates] /\ op' \in [Slots -> Operations]
    BY <2>1, CallTypes, OperationTypes DEF Sends, TypeOK
  <2> QED
    BY <1>4, <2>2 DEF CheckStatus, TypeOK
<1>5. ASSUME NEW c \in Calls, NEW s \in Slots, ReceiveAnswer(c, s) PROVE TypeOK'
  <2> DEFINE a == call[c].attempt
  <2>1. op' \in [Slots -> Operations] /\ op[s].view \in RowStates
    BY <1>5, OperationTypes DEF ReceiveAnswer, TypeOK
  <2>2. CASE WriteProviderState(a, op[s].view) /\ call' = [call EXCEPT ![c] = IdleCall]
    BY <1>5, <1>c, <2>1, <2>2, CallTypes DEF CallsAreSound, CallIsSound, ReceiveAnswer, TypeOK
  <2>3. CASE call' = [call EXCEPT ![c] = Uncertain(c)] /\ UNCHANGED <<attempt, order>>
    BY <1>5, <1>d, <2>1, <2>3 DEF ReceiveAnswer, TypeOK
  <2> QED
    BY <1>5, <2>2, <2>3 DEF ReceiveAnswer
<1>6. ASSUME NEW c \in Calls, GiveUp(c) PROVE TypeOK'
  <2>1. op' \in [Slots -> Operations]
    BY <1>6, OperationTypes DEF GiveUp, TypeOK
  <2> QED
    BY <1>6, <1>d, <2>1 DEF GiveUp, TypeOK
<1>7. ASSUME NEW c \in Calls, MarkUncertain(c) PROVE TypeOK'
  <2>1. call' \in [Calls -> CallStates] /\ call[c].next \in RowStates
    BY <1>7, CallTypes DEF MarkUncertain, TypeOK
  <2>2. attempt' \in [Attempts -> AttemptRows] /\ order' \in Orders
    BY <1>7, <1>c, <2>1 DEF MarkUncertain, CallsAreSound, CallIsSound, TypeOK
  <2> QED
    BY <1>7, <2>1, <2>2 DEF MarkUncertain, TypeOK
<1>8. CASE KillApp
  BY <1>8, <1>0, OperationTypes, CallTypes, RowTypes DEF KillApp, TypeOK
<1>9. ASSUME NEW s \in Slots, LoseRequest(s) PROVE TypeOK'
  BY <1>9, <1>0, OperationTypes, CallTypes, RowTypes DEF LoseRequest, TypeOK
<1>10. ASSUME NEW s \in Slots, EdgeInitiates(s) PROVE TypeOK'
  <2>1. op' \in [Slots -> Operations]
    BY <1>10, OperationTypes DEF EdgeInitiates, TypeOK, Stages
  <2> QED
    BY <1>10, <1>0, <1>a, <1>e, <2>1 DEF EdgeInitiates, TypeOK
<1>11. ASSUME NEW s \in Slots, EdgeReconciles(s) PROVE TypeOK'
  <2>1. op[s] \in Operations /\ FreeSlot \in Operations /\ "calling" \in Stages
    BY OperationTypes DEF TypeOK, Stages
  <2>2. [op[s] EXCEPT !.stage = "calling"] \in Operations
    BY <2>1, OperationTypes
  <2> QED
    BY <1>11, <2>1, <2>2 DEF EdgeReconciles, TypeOK
<1>12. ASSUME NEW s \in Slots, EdgeCachesAnswer(s) PROVE TypeOK'
  <2>1. Cached(op[s].attempt, op[s].view) \in RowStates
    BY <1>12, <1>a, <1>e, OperationTypes DEF EdgeCachesAnswer, TypeOK
  <2>2. op' \in [Slots -> Operations]
    BY <1>12, <1>f, <2>1 DEF EdgeCachesAnswer
  <2> QED
    BY <1>12, <2>1, <2>2 DEF EdgeCachesAnswer, TypeOK
<1>13. ASSUME NEW s \in Slots, EdgeGivesUp(s) PROVE TypeOK'
  <2> DEFINE a == op[s].attempt
             view == IF op[s].kind = "initiate" THEN Cached(a, "UNKNOWN") ELSE edge[a]
  <2>1. view \in RowStates
    BY <1>13, <1>0, <1>a, <1>e DEF EdgeGivesUp, TypeOK
  <2>2. op' \in [Slots -> Operations] /\ edge' = [edge EXCEPT ![a] = view]
    BY <1>13, <1>f, <2>1 DEF EdgeGivesUp
  <2> HIDE DEF view
  <2> QED
    BY <1>13, <2>1, <2>2 DEF EdgeGivesUp, TypeOK
<1>14. ASSUME NEW s \in Slots, CloudAnswers(s) PROVE TypeOK'
  <2>1. truth[op[s].attempt] \in RowStates
    BY <1>14, <1>e DEF CloudAnswers, TypeOK
  <2> QED
    BY <1>14, <2>1, OperationTypes DEF CloudAnswers, TypeOK, Stages
<1>15. CASE RestartEdge
  BY <1>15, <1>0, OperationTypes, CallTypes, RowTypes DEF RestartEdge, TypeOK
<1>16. ASSUME NEW a \in Attempts, CloudReceives(a) PROVE TypeOK'
  BY <1>16, <1>0, OperationTypes, CallTypes, RowTypes DEF CloudReceives, Cloud!Appear, TypeOK
<1>17. ASSUME NEW a \in Attempts, LoseInitiation(a) PROVE TypeOK'
  BY <1>17, <1>0, OperationTypes, CallTypes, RowTypes DEF LoseInitiation, TypeOK
<1>18. ASSUME NEW a \in Attempts, NEW next \in PaymentAttemptStates, ProviderMoves(a, next) PROVE TypeOK'
  BY <1>18, <1>0, OperationTypes, CallTypes, RowTypes DEF ProviderMoves, Cloud!Move, TypeOK
<1>19. CASE OutageEnds
  BY <1>19, <1>0, OperationTypes, CallTypes, RowTypes DEF OutageEnds, TypeOK
<1>20. CASE UNCHANGED vars
  BY <1>20, <1>0, OperationTypes, CallTypes, RowTypes DEF vars, TypeOK
<1> QED
  BY <1>1, <1>2, <1>3, <1>4, <1>5, <1>6, <1>7, <1>8, <1>9, <1>10, <1>11, <1>12, <1>13, <1>14, <1>15, <1>16, <1>17, <1>18, <1>19, <1>20 DEF Next

-----------------------------------------------------------------------------
(* Results stay, and new ones are true.                                      *)

\* Rows stay, and so do final states.
Keeps(before, after) ==
  /\ before # NoRow => after # NoRow
  /\ before \in Terminal => after = before

ResultsStay ==
  \A a \in Attempts : /\ Keeps(truth[a], truth'[a])
                     /\ Keeps(edge[a], edge'[a])
                     /\ Keeps(attempt[a].state, attempt'[a].state)

\* The only rows that change are those of one attempt; the table and the soundness
\* of the answers under way do the rest.
LEMMA StepKeepsResults == IInv /\ [Next]_vars => ResultsStay /\ ResultsAreTrue'
<1> SUFFICES ASSUME IInv, [Next]_vars PROVE ResultsStay /\ ResultsAreTrue'
  OBVIOUS
<1> USE DEF IInv
<1>0. /\ NoRow \notin Terminal
      /\ \A a \in Attempts : attempt[a].state \in RowStates
  BY StatesAreDistinct, RowTypes DEF TypeOK
<1>1. CASE UNCHANGED <<attempt, edge, truth>>
  BY <1>1 DEF ResultsStay, Keeps, ResultsAreTrue
<1>2. ASSUME NEW c \in Calls, NEW s \in Slots, StartPayment(c, s)
      PROVE  ResultsStay /\ ResultsAreTrue'
  <2>1. PICK a \in Attempts : \E now \in ClockAt(a) :
          /\ attempt[a].state = NoRow
          /\ attempt' = [attempt EXCEPT ![a] =
               [state |-> "CREATED", amount |-> order.total, createdAt |-> now]]
    BY <1>2 DEF StartPayment, Made
  <2>2. attempt'[a].state = "CREATED" /\ "CREATED" \notin Terminal \cup {NoRow}
    BY <2>1 DEF TypeOK, Terminal, NoRow
  <2>3. \A b \in Attempts : b # a => attempt'[b] = attempt[b]
    BY <2>1 DEF TypeOK
  <2> QED
    BY <1>0, <1>2, <2>1, <2>2, <2>3 DEF StartPayment, ResultsStay, Keeps, ResultsAreTrue
<1>3. ASSUME NEW c \in Calls, call[c].pc # "idle", NEW next \in PaymentAttemptStates,
             CanTransition(attempt[call[c].attempt].state, next),
             WriteProviderState(call[c].attempt, next),
             next \in Terminal => edge[call[c].attempt] = next,
             UNCHANGED <<edge, truth>>
      PROVE  ResultsStay /\ ResultsAreTrue'
  <2> DEFINE a == call[c].attempt
  <2>1. a \in Attempts
    BY <1>3 DEF CallsAreSound, CallIsSound
  <2>2. /\ attempt'[a].state = next
        /\ \A b \in Attempts : b # a => attempt'[b] = attempt[b]
    BY <1>3, <2>1 DEF WriteProviderState, TypeOK, AttemptRows
  <2>3. next # NoRow /\ (attempt[a].state \in Terminal => next = attempt[a].state)
    BY <1>3, TerminalIsFinal, StatesAreDistinct
  <2> QED
    BY <1>3, <2>1, <2>2, <2>3 DEF ResultsStay, Keeps, ResultsAreTrue
<1>4. ASSUME NEW c \in Calls, NEW s \in Slots, ReceiveAnswer(c, s)
      PROVE  ResultsStay /\ ResultsAreTrue'
  <2>1. op[s].attempt = call[c].attempt /\ op[s].view # NoRow
        /\ (op[s].view \in Terminal => edge[call[c].attempt] = op[s].view)
    BY <1>4, CallsAssumption DEF ReceiveAnswer, AnswersFindTheirCall, AnswersAreTrue, AnswerIsTrue
  <2>2. op[s].view \in PaymentAttemptStates
    BY <2>1, OperationTypes, StatesAreDistinct DEF TypeOK
  <2> QED
    BY <1>1, <1>3, <1>4, <2>1, <2>2 DEF ReceiveAnswer
<1>5. ASSUME NEW c \in Calls, MarkUncertain(c)
      PROVE  ResultsStay /\ ResultsAreTrue'
  <2>1. call[c].next \in PaymentAttemptStates
    BY <1>5, CallTypes, StatesAreDistinct DEF MarkUncertain, CallsAreSound, CallIsSound, TypeOK
  <2>2. call[c].next \in Terminal => edge[call[c].attempt] = call[c].next
    BY <1>5 DEF MarkUncertain, CallsAreSound, CallIsSound, ResultsAreTrue
  <2> QED
    BY <1>1, <1>3, <1>5, <2>1, <2>2 DEF MarkUncertain
<1>6. ASSUME NEW a \in Attempts, NEW view \in PaymentAttemptStates,
             edge' = [edge EXCEPT ![a] = Cached(a, view)],
             view \in Terminal => truth[a] = view,
             UNCHANGED <<attempt, truth>>
      PROVE  ResultsStay /\ ResultsAreTrue'
  <2>1. Cached(a, view) # NoRow /\ (edge[a] \in Terminal => Cached(a, view) = edge[a])
    BY <1>0, StatesAreDistinct, TerminalIsFinal DEF Cached
  <2>2. Cached(a, view) \in Terminal => truth[a] = Cached(a, view)
    BY <1>6 DEF Cached, ResultsAreTrue
  <2>3. edge'[a] = Cached(a, view) /\ \A b \in Attempts : b # a => edge'[b] = edge[b]
    BY <1>6 DEF TypeOK
  <2> HIDE DEF Cached
  <2> QED
    BY <1>6, <2>1, <2>2, <2>3 DEF ResultsStay, Keeps, ResultsAreTrue
<1>7. ASSUME NEW s \in Slots, EdgeInitiates(s)
      PROVE  ResultsStay /\ ResultsAreTrue'
  <2>1. op[s].attempt \in Attempts
    BY <1>7 DEF EdgeInitiates, AnswersAreTrue, AnswerIsTrue
  <2>2. "CREATED" \in PaymentAttemptStates \ Terminal
    BY DEF PaymentAttemptStates, Terminal
  <2> QED
    BY <1>6, <1>7, <2>1, <2>2 DEF EdgeInitiates
<1>8. ASSUME NEW s \in Slots, EdgeCachesAnswer(s)
      PROVE  ResultsStay /\ ResultsAreTrue'
  <2>1. op[s].attempt \in Attempts /\ op[s].view \in PaymentAttemptStates
        /\ (op[s].view \in Terminal => truth[op[s].attempt] = op[s].view)
    BY <1>8, OperationTypes, StatesAreDistinct DEF EdgeCachesAnswer, AnswersAreTrue, AnswerIsTrue, TypeOK
  <2> QED
    BY <1>6, <1>8, <2>1 DEF EdgeCachesAnswer
<1>9. ASSUME NEW s \in Slots, EdgeGivesUp(s)
      PROVE  ResultsStay /\ ResultsAreTrue'
  <2>1. op[s].attempt \in Attempts
    BY <1>9 DEF EdgeGivesUp, AnswersAreTrue, AnswerIsTrue
  <2>2. "UNKNOWN" \in PaymentAttemptStates \ Terminal
    BY DEF PaymentAttemptStates, Terminal
  <2>3. CASE op[s].kind = "initiate"
    BY <1>6, <1>9, <2>1, <2>2, <2>3 DEF EdgeGivesUp
  <2>4. CASE op[s].kind # "initiate"
    <3>1. edge' = edge
      BY <1>9, <2>1, <2>4 DEF EdgeGivesUp, TypeOK
    <3> QED
      BY <1>1, <1>9, <3>1 DEF EdgeGivesUp
  <2> QED
    BY <2>3, <2>4
<1>10. ASSUME NEW a \in Attempts, NEW next \in PaymentAttemptStates,
              truth' = [truth EXCEPT ![a] = next],
              truth[a] # NoRow => CanTransition(truth[a], next),
              UNCHANGED <<attempt, edge>>
       PROVE  ResultsStay /\ ResultsAreTrue'
  <2>1. next # NoRow /\ (truth[a] \in Terminal => next = truth[a])
    BY <1>0, <1>10, StatesAreDistinct, TerminalIsFinal
  <2>2. truth'[a] = next /\ \A b \in Attempts : b # a => truth'[b] = truth[b]
    BY <1>10 DEF TypeOK
  <2> QED
    BY <1>10, <2>1, <2>2 DEF ResultsStay, Keeps, ResultsAreTrue
<1>11. ASSUME NEW a \in Attempts, CloudReceives(a)
       PROVE  ResultsStay /\ ResultsAreTrue'
  <2>1. CASE truth[a] = NoRow
    <3>1. "CREATED" \in PaymentAttemptStates
      BY DEF PaymentAttemptStates
    <3> QED
      BY <1>10, <1>11, <2>1, <3>1 DEF CloudReceives, Cloud!Appear
  <2>2. CASE truth[a] # NoRow
    <3>1. truth' = truth
      BY <1>11, <2>2 DEF CloudReceives, Cloud!Appear, TypeOK
    <3> QED
      BY <1>1, <1>11, <3>1 DEF CloudReceives, Cloud!Appear
  <2> QED
    BY <2>1, <2>2
<1>12. ASSUME NEW a \in Attempts, NEW next \in PaymentAttemptStates, ProviderMoves(a, next)
       PROVE  ResultsStay /\ ResultsAreTrue'
  BY <1>10, <1>12
  DEF ProviderMoves, Cloud!Move, Cloud!CanTransition, CanTransition, Cloud!AllowedTransitions,
      AllowedTransitions, Cloud!PaymentAttemptStates, PaymentAttemptStates
<1> QED
  BY <1>1, <1>2, <1>4, <1>5, <1>7, <1>8, <1>9, <1>11, <1>12
  DEF Next, vars, EditOrder, RecordCash, CheckStatus, GiveUp, KillApp, LoseRequest,
      EdgeReconciles, CloudAnswers, RestartEdge, LoseInitiation, OutageEnds

-----------------------------------------------------------------------------
(* What a step makes of an operation under way.                              *)

\* The operation ends, stays, loses its caller, is new, goes to the Cloud, has
\* the Cloud's answer, or has Edge's.
OperationStep(s) ==
  \/ op'[s] = FreeSlot
  \/ op'[s] = op[s]
  \/ op'[s] = [op[s] EXCEPT !.caller = NoCall]
  \/ \E kind \in {"initiate", "reconcile"}, a \in Attempts, c \in Calls :
       op'[s] = Request(kind, a, c) /\ attempt'[a].state # NoRow
  \/ /\ op[s].stage = "toEdge" /\ edge'[op[s].attempt] # NoRow
     /\ op'[s] = [op[s] EXCEPT !.stage = "calling"]
  \/ /\ op[s].stage = "calling" /\ truth[op[s].attempt] # NoRow /\ truth' = truth
     /\ op'[s] = [op[s] EXCEPT !.stage = "answered", !.view = truth[op[s].attempt]]
  \/ /\ op[s].stage \in {"calling", "answered"}
     /\ op'[s] = [op[s] EXCEPT !.stage = "toPos", !.view = edge'[op[s].attempt]]

\* What a step can do to one operation.
LEMMA StepOfAnOperation ==
  IInv /\ [Next]_vars => \A s \in Slots : OperationStep(s)
<1> SUFFICES ASSUME IInv, [Next]_vars, NEW s \in Slots PROVE OperationStep(s)
  OBVIOUS
<1>1. CASE op' = op
  BY <1>1 DEF OperationStep
<1>2. ASSUME NEW c \in Calls, NEW t \in Slots, NEW a \in Attempts,
             NEW kind \in {"initiate", "reconcile"},
             Sends(c, t, kind, a), attempt'[a].state # NoRow
      PROVE  OperationStep(s)
  BY <1>2 DEF Sends, OperationStep, IInv, TypeOK
<1>3. ASSUME NEW c \in Calls, NEW t \in Slots, StartPayment(c, t)
      PROVE  OperationStep(s)
  <2>1. PICK a \in Attempts : \E now \in ClockAt(a) :
          /\ attempt' = [attempt EXCEPT ![a] =
               [state |-> "CREATED", amount |-> order.total, createdAt |-> now]]
          /\ Sends(c, t, "initiate", a)
    BY <1>3 DEF StartPayment
  <2>2. attempt'[a].state # NoRow
    BY <2>1 DEF IInv, TypeOK, NoRow
  <2> QED
    BY <1>2, <2>1, <2>2
<1>4. ASSUME NEW c \in Calls, NEW t \in Slots, CheckStatus(c, t)
      PROVE  OperationStep(s)
  <2>1. PICK a \in Attempts : IsShown(a) /\ Sends(c, t, "reconcile", a)
    BY <1>4 DEF CheckStatus
  <2>2. attempt'[a].state # NoRow
    BY <1>4, <2>1 DEF CheckStatus, IsShown, Made
  <2> QED
    BY <1>2, <2>1, <2>2
<1>5. ASSUME NEW t \in Slots, LoseRequest(t) \/ \E c \in Calls : ReceiveAnswer(c, t)
      PROVE  OperationStep(s)
  BY <1>5 DEF LoseRequest, ReceiveAnswer, OperationStep, IInv, TypeOK
<1>6. ASSUME RestartEdge \/ KillApp \/ \E c \in Calls : GiveUp(c)
      PROVE  OperationStep(s)
  BY <1>6 DEF RestartEdge, KillApp, GiveUp, OperationStep, IInv, TypeOK
<1>7. ASSUME NEW t \in Slots, EdgeInitiates(t)
      PROVE  OperationStep(s)
  <2>1. op[t].attempt \in Attempts
    BY <1>7 DEF EdgeInitiates, IInv, AnswersAreTrue, AnswerIsTrue
  <2>2. edge'[op[t].attempt] # NoRow
    BY <1>7, <2>1 DEF EdgeInitiates, Cached, IInv, TypeOK, NoRow
  <2> QED
    BY <1>7, <2>2 DEF EdgeInitiates, OperationStep, IInv, TypeOK
<1>8. ASSUME NEW t \in Slots, EdgeReconciles(t)
      PROVE  OperationStep(s)
  BY <1>8 DEF EdgeReconciles, OperationStep, IInv, TypeOK
<1>9. ASSUME NEW t \in Slots, NEW view, Answers(t, view),
             op[t].stage \in {"calling", "answered"},
             view = edge'[op[t].attempt]
      PROVE  OperationStep(s)
  BY <1>9 DEF Answers, OperationStep, IInv, TypeOK
<1>10. ASSUME NEW t \in Slots, EdgeCachesAnswer(t)
       PROVE  OperationStep(s)
  <2> DEFINE view == Cached(op[t].attempt, op[t].view)
  <2>1. op[t].attempt \in Attempts /\ op[t].stage = "answered" /\ Answers(t, view)
    BY <1>10 DEF EdgeCachesAnswer, IInv, AnswersAreTrue, AnswerIsTrue
  <2>2. edge'[op[t].attempt] = view
    BY <1>10, <2>1 DEF EdgeCachesAnswer, IInv, TypeOK
  <2> HIDE DEF view
  <2> QED
    BY <1>9, <2>1, <2>2
<1>11. ASSUME NEW t \in Slots, EdgeGivesUp(t)
       PROVE  OperationStep(s)
  <2> DEFINE a == op[t].attempt
             view == IF op[t].kind = "initiate" THEN Cached(a, "UNKNOWN") ELSE edge[a]
  <2>1. a \in Attempts /\ op[t].stage \in {"calling", "answered"} /\ Answers(t, view)
    BY <1>11 DEF EdgeGivesUp, IInv, AnswersAreTrue, AnswerIsTrue
  <2>2. edge' = [edge EXCEPT ![a] = view]
    BY <1>11 DEF EdgeGivesUp
  <2> HIDE DEF view
  <2>3. edge'[a] = view
    BY <2>1, <2>2 DEF IInv, TypeOK
  <2> QED
    BY <1>9, <2>1, <2>3
<1>12. ASSUME NEW t \in Slots, CloudAnswers(t)
       PROVE  OperationStep(s)
  BY <1>12 DEF CloudAnswers, OperationStep, IInv, TypeOK
<1> QED
  BY <1>1, <1>3, <1>4, <1>5, <1>6, <1>7, <1>8, <1>10, <1>11, <1>12
  DEF Next, vars, EditOrder, RecordCash, MarkUncertain, CloudReceives, LoseInitiation,
      ProviderMoves, OutageEnds

\* Whatever happens to it, the answer an operation carries stays true.
LEMMA StepKeepsAnswersTrue == IInv /\ [Next]_vars => AnswersAreTrue'
<1> SUFFICES ASSUME IInv, [Next]_vars, NEW s \in Slots
             PROVE  AnswerIsTrue(s)'
  BY DEF AnswersAreTrue, AnswerIsTrue
<1>1. OperationStep(s) /\ ResultsStay /\ TypeOK' /\ op[s] \in Operations
  BY StepOfAnOperation, StepKeepsResults, NextType DEF IInv, TypeOK
<1>2. /\ op[s].stage # "free" =>
            op[s].attempt \in Attempts /\ attempt'[op[s].attempt].state # NoRow
      /\ op[s].stage \in {"calling", "answered", "toPos"} => edge'[op[s].attempt] # NoRow
      /\ op[s].stage \in {"answered", "toPos"} => op[s].view # NoRow
      /\ op[s].stage = "answered" /\ op[s].view \in Terminal =>
            truth'[op[s].attempt] = op[s].view
      /\ op[s].stage = "toPos" /\ op[s].view \in Terminal =>
            edge'[op[s].attempt] = op[s].view
  BY <1>1 DEF IInv, AnswersAreTrue, AnswerIsTrue, ResultsStay, Keeps
<1>3. CASE op'[s] = FreeSlot
  BY <1>3 DEF AnswerIsTrue, FreeSlot
<1>4. CASE op'[s] = op[s]
  BY <1>2, <1>4 DEF AnswerIsTrue
<1>5. CASE op'[s] = [op[s] EXCEPT !.caller = NoCall]
  BY <1>1, <1>2, <1>5 DEF AnswerIsTrue, Operations
<1>6. ASSUME NEW kind, NEW a \in Attempts, NEW c,
             op'[s] = Request(kind, a, c), attempt'[a].state # NoRow
      PROVE  AnswerIsTrue(s)'
  BY <1>6 DEF AnswerIsTrue, Request
<1>7. CASE /\ op[s].stage = "toEdge" /\ edge'[op[s].attempt] # NoRow
           /\ op'[s] = [op[s] EXCEPT !.stage = "calling"]
  BY <1>1, <1>2, <1>7 DEF AnswerIsTrue, Operations
<1>8. CASE /\ op[s].stage = "calling" /\ truth[op[s].attempt] # NoRow /\ truth' = truth
           /\ op'[s] = [op[s] EXCEPT !.stage = "answered", !.view = truth[op[s].attempt]]
  BY <1>1, <1>2, <1>8 DEF AnswerIsTrue, Operations
<1>9. CASE /\ op[s].stage \in {"calling", "answered"}
           /\ op'[s] = [op[s] EXCEPT !.stage = "toPos", !.view = edge'[op[s].attempt]]
  BY <1>1, <1>2, <1>9 DEF AnswerIsTrue, Operations
<1> QED
  BY <1>1, <1>3, <1>4, <1>5, <1>6, <1>7, <1>8, <1>9 DEF OperationStep

-----------------------------------------------------------------------------
(* What a step makes of a call, and of who waits for which answer.           *)

\* A step ends a call, leaves it, starts it, or is about to record its failure.
LEMMA StepKeepsCallsSound == IInv /\ [Next]_vars => CallsAreSound'
<1> SUFFICES ASSUME IInv, [Next]_vars, NEW c \in Calls
             PROVE  CallIsSound(c)'
  BY DEF CallsAreSound
<1>0. ResultsStay
  BY StepKeepsResults
<1>1. CASE call'[c].pc = "idle"
  BY <1>1 DEF CallIsSound
<1>2. CASE call'[c] = call[c]
  BY <1>0, <1>2 DEF CallIsSound, CallsAreSound, ResultsStay, Keeps, IInv
<1>3. ASSUME NEW a \in Attempts, attempt'[a].state # NoRow,
             call'[c] = [IdleCall EXCEPT !.pc = "waiting", !.attempt = a]
      PROVE  CallIsSound(c)'
  BY <1>3 DEF CallIsSound, IdleCall
<1>4. CASE call'[c] = Uncertain(c) /\ call[c].pc = "waiting" /\ attempt' = attempt
  <2>1. call[c].attempt \in Attempts /\ attempt[call[c].attempt].state \in PaymentAttemptStates
    BY <1>4, RowTypes, StatesAreDistinct DEF CallsAreSound, CallIsSound, IInv, TypeOK
  <2>2. /\ call'[c].pc = "marking" /\ call'[c].attempt = call[c].attempt
        /\ call'[c].next = StateAfterTransportUncertainty(attempt[call[c].attempt].state)
    BY <1>4 DEF Uncertain, IInv, TypeOK, CallStates
  <2> QED
    BY <1>4, <2>1, <2>2, UncertaintyIsAState, StatesAreDistinct DEF CallIsSound
<1>5. ASSUME NEW d \in Calls, NEW s \in Slots, NEW a \in Attempts, NEW kind,
             Sends(d, s, kind, a), attempt'[a].state # NoRow
      PROVE  CallIsSound(c)'
  BY <1>2, <1>3, <1>5 DEF Sends, IInv, TypeOK
<1>6. ASSUME NEW d \in Calls, NEW s \in Slots, StartPayment(d, s)
      PROVE  CallIsSound(c)'
  <2>1. PICK a \in Attempts : \E now \in ClockAt(a) :
          /\ attempt' = [attempt EXCEPT ![a] =
               [state |-> "CREATED", amount |-> order.total, createdAt |-> now]]
          /\ Sends(d, s, "initiate", a)
    BY <1>6 DEF StartPayment
  <2>2. attempt'[a].state # NoRow
    BY <2>1 DEF IInv, TypeOK, NoRow
  <2> QED
    BY <1>5, <2>1, <2>2
<1>7. ASSUME NEW d \in Calls, NEW s \in Slots, CheckStatus(d, s)
      PROVE  CallIsSound(c)'
  BY <1>5, <1>7 DEF CheckStatus, IsShown, Made
<1>8. ASSUME NEW d \in Calls, GiveUp(d) \/ \E s \in Slots : ReceiveAnswer(d, s)
      PROVE  CallIsSound(c)'
  <2>1. CASE c # d
    BY <1>2, <1>8, <2>1 DEF GiveUp, ReceiveAnswer, IInv, TypeOK
  <2>2. CASE c = d
    BY <1>1, <1>4, <1>8, <2>2 DEF GiveUp, ReceiveAnswer, IInv, TypeOK, IdleCall
  <2> QED
    BY <2>1, <2>2
<1>9. ASSUME KillApp \/ \E d \in Calls : MarkUncertain(d)
      PROVE  CallIsSound(c)'
  BY <1>1, <1>2, <1>9 DEF KillApp, MarkUncertain, IdleCall, IInv, TypeOK
<1>10. CASE UNCHANGED call
  BY <1>2, <1>10
<1> QED
  BY <1>6, <1>7, <1>8, <1>9, <1>10
  DEF Next, vars, EditOrder, RecordCash, LoseRequest, EdgeInitiates, EdgeReconciles,
      EdgeCachesAnswer, EdgeGivesUp, CloudAnswers, RestartEdge, CloudReceives,
      LoseInitiation, ProviderMoves, OutageEnds

\* A call that starts has no other operation, and one that ends leaves none.
LEMMA StepKeepsCallers == IInv /\ [Next]_vars => AnswersFindTheirCall'
<1> SUFFICES ASSUME IInv, [Next]_vars PROVE AnswersFindTheirCall'
  OBVIOUS
<1> USE DEF IInv
<1>1. ASSUME \A s \in Slots :
               \/ op'[s].caller = NoCall
               \/ /\ op'[s].caller = op[s].caller /\ op'[s].attempt = op[s].attempt
                  /\ op'[s].stage # "free"
                  /\ call'[op[s].caller] = call[op[s].caller]
      PROVE  AnswersFindTheirCall'
  BY <1>1 DEF AnswersFindTheirCall
<1>2. ASSUME NEW c \in Calls, NEW t \in Slots, NEW a \in Attempts, NEW kind,
             Sends(c, t, kind, a)
      PROVE  AnswersFindTheirCall'
  <2>1. \A s \in Slots : op[s].caller # c
    BY <1>2 DEF Sends, AnswersFindTheirCall
  <2>2. /\ op'[t].caller = c /\ op'[t].attempt = a /\ op'[t].stage = "toEdge"
        /\ \A s \in Slots : s # t => op'[s] = op[s]
    BY <1>2 DEF Sends, Request, TypeOK
  <2>3. /\ call'[c].pc = "waiting" /\ call'[c].attempt = a
        /\ \A d \in Calls : d # c => call'[d] = call[d]
    BY <1>2 DEF Sends, IdleCall, TypeOK
  <2>4. \A s \in Slots : op[s].caller \in Calls \cup {NoCall}
    BY DEF TypeOK, Operations
  <2> QED
    BY <2>1, <2>2, <2>3, <2>4 DEF AnswersFindTheirCall
<1>3. ASSUME NEW c \in Calls, NEW t \in Slots, StartPayment(c, t) \/ CheckStatus(c, t)
      PROVE  AnswersFindTheirCall'
  BY <1>2, <1>3 DEF StartPayment, CheckStatus
<1>4. ASSUME NEW c \in Calls, NEW t \in Slots, ReceiveAnswer(c, t)
      PROVE  AnswersFindTheirCall'
  <2>1. op' = [op EXCEPT ![t] = FreeSlot] /\ op[t].caller = c /\ c # NoCall
    BY <1>4, CallsAssumption DEF ReceiveAnswer
  <2>2. op'[t].caller = NoCall /\ \A s \in Slots : s # t => op'[s] = op[s]
    BY <2>1 DEF FreeSlot, TypeOK
  <2>3. \A s \in Slots : s # t => op[s].caller # c
    BY <2>1 DEF AnswersFindTheirCall
  <2>4. \A d \in Calls : d # c => call'[d] = call[d]
    BY <1>4 DEF ReceiveAnswer, TypeOK
  <2>5. \A s \in Slots : op[s].caller \in Calls \cup {NoCall}
    BY DEF TypeOK, Operations
  <2>6. ASSUME NEW s \in Slots, s # t, op'[s].caller # NoCall
        PROVE  /\ op'[s] = op[s] /\ op[s].stage # "free"
               /\ call'[op[s].caller] = call[op[s].caller]
    BY <2>2, <2>3, <2>4, <2>5, <2>6 DEF AnswersFindTheirCall
  <2> QED
    BY <1>1, <2>2, <2>6
<1>5. ASSUME NEW c \in Calls, GiveUp(c)
      PROVE  AnswersFindTheirCall'
  <2>1. \A s \in Slots : /\ op[s].caller = c => op'[s].caller = NoCall
                         /\ op[s].caller # c => op'[s] = op[s]
    BY <1>5 DEF GiveUp, FreeSlot, TypeOK, Operations
  <2>2. \A d \in Calls : d # c => call'[d] = call[d]
    BY <1>5 DEF GiveUp, TypeOK
  <2>3. \A s \in Slots : op[s].caller \in Calls \cup {NoCall}
    BY DEF TypeOK, Operations
  <2>4. ASSUME NEW s \in Slots, op'[s].caller # NoCall
        PROVE  /\ op'[s] = op[s] /\ op[s].stage # "free"
               /\ call'[op[s].caller] = call[op[s].caller]
    BY <2>1, <2>2, <2>3, <2>4 DEF AnswersFindTheirCall
  <2> QED
    BY <1>1, <2>4
<1>6. ASSUME NEW c \in Calls, MarkUncertain(c)
      PROVE  AnswersFindTheirCall'
  <2>1. \A s \in Slots : op[s].caller # c /\ op'[s] = op[s]
    BY <1>6, CallsAssumption DEF MarkUncertain, AnswersFindTheirCall
  <2>2. \A d \in Calls : d # c => call'[d] = call[d]
    BY <1>6 DEF MarkUncertain, TypeOK
  <2>3. \A s \in Slots : op[s].caller \in Calls \cup {NoCall}
    BY DEF TypeOK, Operations
  <2> QED
    BY <1>1, <2>1, <2>2, <2>3 DEF AnswersFindTheirCall
<1>7. CASE KillApp
  BY <1>1, <1>7 DEF KillApp, FreeSlot, TypeOK, Operations
<1>8. ASSUME UNCHANGED call,
             NEW t \in Slots, NEW o, op' = [op EXCEPT ![t] = o],
             \/ o.caller = NoCall
             \/ /\ o.caller = op[t].caller /\ o.attempt = op[t].attempt
                /\ o.stage # "free"
      PROVE  AnswersFindTheirCall'
  BY <1>1, <1>8 DEF AnswersFindTheirCall, TypeOK
<1>9. ASSUME NEW t \in Slots, LoseRequest(t) \/ EdgeReconciles(t) \/ EdgeInitiates(t)
      PROVE  AnswersFindTheirCall'
  <2>1. FreeSlot.caller = NoCall
    BY DEF FreeSlot
  <2> DEFINE o == [op[t] EXCEPT !.stage = "calling"]
  <2>2. o.caller = op[t].caller /\ o.attempt = op[t].attempt /\ o.stage # "free"
    BY DEF TypeOK, Operations
  <2>3. UNCHANGED call
    BY <1>9 DEF LoseRequest, EdgeReconciles, EdgeInitiates
  <2>4. op' = [op EXCEPT ![t] = FreeSlot] \/ op' = [op EXCEPT ![t] = o]
    BY <1>9 DEF LoseRequest, EdgeReconciles, EdgeInitiates
  <2> HIDE DEF o
  <2> QED
    BY <1>8, <2>1, <2>2, <2>3, <2>4
<1>10. ASSUME NEW t \in Slots, NEW view, Answers(t, view), UNCHANGED call
       PROVE  AnswersFindTheirCall'
  <2> DEFINE o == [op[t] EXCEPT !.stage = "toPos", !.view = view]
  <2>1. FreeSlot.caller = NoCall
    BY DEF FreeSlot
  <2>2. o.caller = op[t].caller /\ o.attempt = op[t].attempt /\ o.stage # "free"
    BY DEF TypeOK, Operations
  <2>3. op' = [op EXCEPT ![t] = FreeSlot] \/ op' = [op EXCEPT ![t] = o]
    BY <1>10 DEF Answers, TypeOK
  <2> HIDE DEF o
  <2> QED
    BY <1>8, <1>10, <2>1, <2>2, <2>3
<1>11. ASSUME NEW t \in Slots, EdgeCachesAnswer(t)
       PROVE  AnswersFindTheirCall'
  BY <1>10, <1>11 DEF EdgeCachesAnswer
<1>12. ASSUME NEW t \in Slots, EdgeGivesUp(t)
       PROVE  AnswersFindTheirCall'
  BY <1>10, <1>12 DEF EdgeGivesUp
<1>13. ASSUME NEW t \in Slots, CloudAnswers(t)
       PROVE  AnswersFindTheirCall'
  <2> DEFINE o == [op[t] EXCEPT !.stage = "answered", !.view = truth[op[t].attempt]]
  <2>1. o.caller = op[t].caller /\ o.attempt = op[t].attempt /\ o.stage # "free"
    BY DEF TypeOK, Operations
  <2>2. UNCHANGED call /\ op' = [op EXCEPT ![t] = o]
    BY <1>13 DEF CloudAnswers
  <2> HIDE DEF o
  <2> QED
    BY <1>8, <2>1, <2>2
<1>14. CASE RestartEdge
  BY <1>1, <1>14 DEF RestartEdge, FreeSlot, TypeOK, AnswersFindTheirCall
<1>15. CASE UNCHANGED <<call, op>>
  BY <1>15 DEF AnswersFindTheirCall
<1> QED
  BY <1>3, <1>4, <1>5, <1>6, <1>7, <1>9, <1>11, <1>12, <1>13, <1>14, <1>15
  DEF Next, vars, EditOrder, RecordCash, CloudReceives, LoseInitiation, ProviderMoves,
      OutageEnds

-----------------------------------------------------------------------------
(* The theorems.                                                             *)

\* The invariant holds at first.
LEMMA InitHolds == Init => IInv
<1> SUFFICES ASSUME Init PROVE IInv
  OBVIOUS
<1>1. TypeOK
  BY InitType
<1>2. ResultsAreTrue
  BY StatesAreDistinct DEF Init, ResultsAreTrue
<1>3. \A s \in Slots : op[s] = FreeSlot
  BY DEF Init
<1>4. AnswersAreTrue
  BY <1>3 DEF AnswersAreTrue, AnswerIsTrue, FreeSlot
<1>5. \A c \in Calls : call[c].pc = "idle"
  BY DEF Init, IdleCall
<1>6. CallsAreSound
  BY <1>5 DEF CallsAreSound, CallIsSound
<1>7. AnswersFindTheirCall
  BY <1>3 DEF AnswersFindTheirCall, FreeSlot
<1> QED
  BY <1>1, <1>2, <1>4, <1>6, <1>7 DEF IInv

\* The invariant above is inductive, so every reachable state satisfies it.
THEOREM PaymentsAreInductive == Spec => []IInv
<1>1. IInv /\ [Next]_vars => IInv'
  <2> SUFFICES ASSUME IInv, [Next]_vars PROVE IInv'
    OBVIOUS
  <2>1. TypeOK'
    BY NextType DEF IInv
  <2> QED
    BY <2>1, StepKeepsResults, StepKeepsAnswersTrue, StepKeepsCallsSound,
       StepKeepsCallers DEF IInv
<1> QED
  BY InitHolds, <1>1, PTL DEF Spec

\* The rows, calls and operations keep their types, for every number of
\* attempts, calls and operations.
THEOREM PaymentTypeCorrect == Spec => []TypeOK
<1>1. IInv => TypeOK
  BY DEF IInv
<1> QED
  BY <1>1, PaymentsAreInductive, PTL

\* A final state shown by the register is Edge's, and one of Edge's is the
\* Cloud's (applyProviderState, EdgePaymentsService.cache), with any number of
\* payment actions overlapping on the screen and any clock.
THEOREM ShownResultsAreTrue == Spec => []ResultsAreTrue
<1>1. IInv => ResultsAreTrue
  BY DEF IInv
<1> QED
  BY <1>1, PaymentsAreInductive, PTL

-----------------------------------------------------------------------------
(* That the order is paid once rests on two facts from outside the payment  *)
(* tables: the screen runs one payment action at a time (its `busy' flag),  *)
(* and the clock gives a later attempt a later creation time.               *)

OneCallAtATime == \A c, d \in Calls : c = d

IsNewest(a) == a \in Made /\ \A b \in Made : b <= a

\* Attempts are made one after another, each when the one before has failed.
AttemptsFollowFailures ==
  \A a \in Made : /\ attempt[a].createdAt = a
                  /\ \A b \in Attempts : b < a => attempt[b].state = "FAILED"

\* A payment action is about the newest attempt, and its order waits for it.
CallsAreForTheNewest ==
  \A c \in Calls : call[c].pc # "idle" =>
    order.state = "PAYMENT_PENDING" /\ IsNewest(call[c].attempt)

AllFailed == \A a \in Made : attempt[a].state = "FAILED"

\* The order waits for its newest attempt, was closed by it, or has none that
\* could still succeed.
OrderFollowsTheNewest ==
  /\ order.state \in {"NONE", "OPEN"} => order.paidBy = NoAttempt /\ AllFailed
  /\ order.state = "PAYMENT_PENDING" =>
       /\ order.paidBy = NoAttempt
       /\ \A a \in Made : IsNewest(a) => attempt[a].amount = order.total
  /\ order.state = "CLOSED" =>
       IF order.paidBy = NoAttempt THEN AllFailed
       ELSE /\ order.paidBy \in Attempts
            /\ attempt[order.paidBy].state = "SUCCEEDED"
            /\ attempt[order.paidBy].amount = order.total

\* The Cloud hears of an attempt only after the register has it.
CloudKnowsMade == \A a \in Attempts \ Made : truth[a] = NoRow /\ a \notin toCloud

PaidOnceInv ==
  /\ AttemptsFollowFailures
  /\ CallsAreForTheNewest
  /\ OrderFollowsTheNewest
  /\ CloudKnowsMade

USE DEF NoAttempt

\* Two numbers, one of which is not above the other.
LEMMA AttemptNumbers ==
  /\ \A a \in Attempts : a \in Nat /\ a # 0
  /\ \A a, b \in Attempts : a < b \/ a = b \/ b < a
  /\ \A a, b \in Attempts : b <= a => b < a \/ b = a
  /\ \A a, b \in Attempts : ~ (a < b /\ b <= a)
BY DEF Attempts

\* PaidOnceInv holds at first.
LEMMA InitIsPaidOnce == Init => PaidOnceInv
<1> SUFFICES ASSUME Init PROVE PaidOnceInv
  OBVIOUS
<1>1. Made = {}
  BY DEF Init, Made
<1>2. \A c \in Calls : call[c].pc = "idle"
  BY DEF Init, IdleCall
<1> QED
  BY <1>1, <1>2 DEF Init, PaidOnceInv, AttemptsFollowFailures, CallsAreForTheNewest,
     OrderFollowsTheNewest, AllFailed, CloudKnowsMade

\* A new attempt follows failures only: the order is open.
LEMMA StartPaymentIsPaidOnce ==
  ASSUME OneCallAtATime, ~ClockMayGoBack, IInv, PaidOnceInv,
         NEW c \in Calls, NEW s \in Slots, StartPayment(c, s)
  PROVE  PaidOnceInv'
<1> USE DEF IInv
<1>1. PICK a \in Attempts :
        /\ a \notin Made /\ \A b \in Attempts : b < a => b \in Made
        /\ attempt' = [attempt EXCEPT ![a] =
             [state |-> "CREATED", amount |-> order.total, createdAt |-> a]]
        /\ Sends(c, s, "initiate", a)
  BY DEF StartPayment, ClockAt
<1>2. /\ order.state = "OPEN" /\ order' = [order EXCEPT !.state = "PAYMENT_PENDING"]
      /\ UNCHANGED <<edge, toCloud, truth, outage>>
  BY DEF StartPayment
<1>3. AllFailed /\ order.paidBy = NoAttempt
  BY <1>2 DEF PaidOnceInv, OrderFollowsTheNewest
<1>4. /\ attempt'[a] = [state |-> "CREATED", amount |-> order.total, createdAt |-> a]
      /\ \A b \in Attempts : b # a => attempt'[b] = attempt[b]
  BY <1>1 DEF TypeOK
<1>5. Made' = Made \cup {a} /\ Made \subseteq Attempts
  BY <1>4 DEF Made, NoRow
<1>6. \A b \in Made : b < a
  <2> SUFFICES ASSUME NEW b \in Made, ~(b < a) PROVE FALSE
    OBVIOUS
  <2>1. a < b
    BY <1>1, <1>5, AttemptNumbers
  <2>2. attempt[a].state = "FAILED"
    BY <1>5, <2>1 DEF PaidOnceInv, AttemptsFollowFailures
  <2> QED
    BY <1>1, <2>2 DEF Made, NoRow
<1>7. AttemptsFollowFailures'
  <2> SUFFICES ASSUME NEW b \in Made'
               PROVE  /\ attempt'[b].createdAt = b
                      /\ \A d \in Attempts : d < b => attempt'[d].state = "FAILED"
    BY DEF AttemptsFollowFailures
  <2>1. CASE b = a
    <3>1. ASSUME NEW d \in Attempts, d < a PROVE attempt'[d].state = "FAILED"
      <4>1. d \in Made /\ d # a
        BY <1>1, <3>1
      <4> QED
        BY <1>3, <1>4, <4>1 DEF AllFailed
    <3> QED
      BY <1>4, <2>1, <3>1
  <2>2. CASE b # a
    <3>1. b \in Made /\ b \in Attempts /\ b < a
      BY <1>5, <1>6, <2>2
    <3>2. ASSUME NEW d \in Attempts, d < b PROVE attempt'[d].state = "FAILED"
      <4>1. d # a
        BY <3>1, <3>2, AttemptNumbers DEF Attempts
      <4> QED
        BY <1>4, <3>1, <3>2, <4>1 DEF PaidOnceInv, AttemptsFollowFailures
    <3> QED
      BY <1>4, <2>2, <3>1, <3>2 DEF PaidOnceInv, AttemptsFollowFailures
  <2> QED
    BY <2>1, <2>2
<1>8. IsNewest(a)'
  BY <1>5, <1>6, AttemptNumbers DEF IsNewest, Attempts
<1>9. order'.state = "PAYMENT_PENDING" /\ order'.paidBy = NoAttempt /\ order'.total = order.total
  BY <1>2, <1>3 DEF TypeOK, Orders
<1>10. CallsAreForTheNewest'
  <2>1. \A d \in Calls : d = c
    BY DEF OneCallAtATime
  <2>2. call'[c].attempt = a
    BY <1>1 DEF Sends, IdleCall, TypeOK
  <2> QED
    BY <1>8, <1>9, <2>1, <2>2 DEF CallsAreForTheNewest
<1>11. OrderFollowsTheNewest'
  <2>1. \A b \in Made' : IsNewest(b)' => b = a
    BY <1>5, <1>6, <1>8, AttemptNumbers DEF IsNewest
  <2> QED
    BY <1>4, <1>9, <2>1 DEF OrderFollowsTheNewest
<1>12. CloudKnowsMade'
  BY <1>2, <1>5 DEF PaidOnceInv, CloudKnowsMade
<1> QED
  BY <1>7, <1>10, <1>11, <1>12 DEF PaidOnceInv

\* What a payment action writes is about the newest attempt of a waiting order.
LEMMA WritingIsPaidOnce ==
  ASSUME IInv, PaidOnceInv, order.state = "PAYMENT_PENDING", NEW a, IsNewest(a),
         NEW next \in PaymentAttemptStates, WriteProviderState(a, next)
  PROVE  Made' = Made /\ AttemptsFollowFailures' /\ OrderFollowsTheNewest'
<1> USE DEF IInv
<1>1. a \in Attempts /\ a \in Made /\ Made \subseteq Attempts /\ \A b \in Made : b <= a
  BY DEF IsNewest, Made
<1>2. /\ attempt'[a] = [attempt[a] EXCEPT !.state = next]
      /\ \A b \in Attempts : b # a => attempt'[b] = attempt[b]
  BY <1>1 DEF WriteProviderState, TypeOK
<1>3. /\ attempt'[a].state = next /\ attempt'[a].amount = attempt[a].amount
      /\ attempt'[a].createdAt = attempt[a].createdAt
  BY <1>1, <1>2 DEF TypeOK, AttemptRows
<1>4. Made' = Made
  BY <1>1, <1>2, <1>3, StatesAreDistinct DEF Made
<1>5. AttemptsFollowFailures'
  <2> SUFFICES ASSUME NEW b \in Made
               PROVE  /\ attempt'[b].createdAt = b
                      /\ \A d \in Attempts : d < b => attempt'[d].state = "FAILED"
    BY <1>4 DEF AttemptsFollowFailures
  <2>1. attempt[b].createdAt = b /\ attempt'[b].createdAt = attempt[b].createdAt
    BY <1>1, <1>2, <1>3 DEF PaidOnceInv, AttemptsFollowFailures
  <2>2. ASSUME NEW d \in Attempts, d < b PROVE attempt'[d].state = "FAILED"
    <3>1. d # a
      BY <1>1, <2>2, AttemptNumbers
    <3> QED
      BY <1>2, <2>2, <3>1 DEF PaidOnceInv, AttemptsFollowFailures
  <2> QED
    BY <2>1, <2>2
<1>6. \A b \in Made : b # a => attempt'[b].state = "FAILED"
  <2> SUFFICES ASSUME NEW b \in Made, b # a PROVE attempt'[b].state = "FAILED"
    OBVIOUS
  <2>1. b < a
    BY <1>1, AttemptNumbers
  <2> QED
    BY <1>1, <1>2, <2>1 DEF PaidOnceInv, AttemptsFollowFailures
<1>7. order.paidBy = NoAttempt /\ attempt[a].amount = order.total
  BY <1>1 DEF PaidOnceInv, OrderFollowsTheNewest
<1>8. OrderFollowsTheNewest'
  <2>1. order' = OrderAfter(a, next)
    BY DEF WriteProviderState
  <2>2. CASE next = "SUCCEEDED"
    <3>1. order' = [order EXCEPT !.state = "CLOSED", !.paidBy = a]
      BY <2>1, <2>2 DEF OrderAfter
    <3>2. order'.state = "CLOSED" /\ order'.paidBy = a /\ order'.total = order.total
      BY <3>1 DEF TypeOK, Orders
    <3>3. a # 0
      BY <1>1, AttemptNumbers
    <3> QED
      BY <1>1, <1>3, <1>7, <2>2, <3>2, <3>3 DEF OrderFollowsTheNewest
  <2>3. CASE next = "FAILED"
    <3>1. order' = [order EXCEPT !.state = "OPEN"]
      BY <2>1, <2>3 DEF OrderAfter
    <3>2. order'.state = "OPEN" /\ order'.paidBy = order.paidBy
      BY <3>1 DEF TypeOK, Orders
    <3>3. AllFailed'
      BY <1>3, <1>4, <1>6, <2>3 DEF AllFailed
    <3> QED
      BY <1>7, <3>2, <3>3 DEF OrderFollowsTheNewest
  <2>4. CASE next \notin {"SUCCEEDED", "FAILED"}
    <3>1. order' = order
      BY <2>1, <2>4 DEF OrderAfter
    <3>2. \A b \in Made : IsNewest(b) => b = a
      BY <1>1, AttemptNumbers DEF IsNewest
    <3> QED
      BY <1>3, <1>4, <1>7, <3>1, <3>2 DEF OrderFollowsTheNewest, IsNewest
  <2> QED
    BY <2>2, <2>3, <2>4
<1> QED
  BY <1>4, <1>5, <1>8

\* Steps beyond the register's payment rows.
LEMMA OtherStepsArePaidOnce ==
  ASSUME IInv, PaidOnceInv, UNCHANGED <<order, attempt>>,
         \A c \in Calls : call'[c].pc # "idle" => call'[c] = call[c],
         \A a \in Attempts \ Made : truth'[a] = NoRow /\ a \notin toCloud'
  PROVE  PaidOnceInv'
<1>1. Made' = Made
  BY DEF Made
<1>2. AttemptsFollowFailures' /\ OrderFollowsTheNewest' /\ CloudKnowsMade'
  BY <1>1 DEF PaidOnceInv, AttemptsFollowFailures, OrderFollowsTheNewest, AllFailed, IsNewest,
     CloudKnowsMade
<1>3. CallsAreForTheNewest'
  BY <1>1 DEF PaidOnceInv, CallsAreForTheNewest, IsNewest
<1> QED
  BY <1>2, <1>3 DEF PaidOnceInv

\* Every step keeps PaidOnceInv, under the two conditions.
LEMMA StepIsPaidOnce ==
  ASSUME OneCallAtATime, ~ClockMayGoBack, IInv, PaidOnceInv, [Next]_vars
  PROVE  PaidOnceInv'
<1> USE DEF IInv
<1>0. /\ \A a \in Attempts \ Made : truth[a] = NoRow /\ a \notin toCloud
      /\ \A c \in Calls : call[c].pc # "idle" =>
           order.state = "PAYMENT_PENDING" /\ IsNewest(call[c].attempt)
  BY DEF PaidOnceInv, CloudKnowsMade, CallsAreForTheNewest
<1>1. ASSUME NEW total \in 0..MaxTotal, EditOrder(total)
      PROVE  PaidOnceInv'
  <2>1. /\ order.state \in {"NONE", "OPEN"} /\ order' = [order EXCEPT !.state = "OPEN", !.total = total]
        /\ UNCHANGED <<attempt, call, toCloud, truth>>
    BY <1>1 DEF EditOrder
  <2>2. order'.state = "OPEN" /\ order'.paidBy = order.paidBy
    BY <2>1 DEF TypeOK, Orders
  <2>3. Made' = Made
    BY <2>1 DEF Made
  <2>4. \A c \in Calls : call[c].pc = "idle"
    BY <1>0, <2>1
  <2> QED
    BY <2>1, <2>2, <2>3, <2>4 DEF PaidOnceInv, AttemptsFollowFailures, CallsAreForTheNewest,
       OrderFollowsTheNewest, AllFailed, CloudKnowsMade
<1>2. CASE RecordCash
  <2>1. /\ order.state = "OPEN" /\ order' = [order EXCEPT !.state = "CLOSED"]
        /\ UNCHANGED <<attempt, call, toCloud, truth>>
    BY <1>2 DEF RecordCash
  <2>2. order'.state = "CLOSED" /\ order'.paidBy = order.paidBy
    BY <2>1 DEF TypeOK, Orders
  <2>3. Made' = Made
    BY <2>1 DEF Made
  <2>4. \A c \in Calls : call[c].pc = "idle"
    BY <1>0, <2>1
  <2> QED
    BY <2>1, <2>2, <2>3, <2>4 DEF PaidOnceInv, AttemptsFollowFailures, CallsAreForTheNewest,
       OrderFollowsTheNewest, AllFailed, CloudKnowsMade
<1>3. ASSUME NEW c \in Calls, NEW s \in Slots, CheckStatus(c, s)
      PROVE  PaidOnceInv'
  <2>1. PICK a \in Attempts : IsShown(a) /\ Sends(c, s, "reconcile", a)
    BY <1>3 DEF CheckStatus
  <2>2. IsNewest(a)
    <3>1. \A b \in Made : b <= a
      BY <2>1 DEF IsShown, PaidOnceInv, AttemptsFollowFailures
    <3> QED
      BY <2>1, <3>1 DEF IsShown, IsNewest
  <2>3. \A d \in Calls : d = c
    BY DEF OneCallAtATime
  <2>4. call'[c].attempt = a
    BY <2>1 DEF Sends, IdleCall, TypeOK
  <2>5. order.state = "PAYMENT_PENDING" /\ UNCHANGED <<order, attempt, toCloud, truth>>
    BY <1>3 DEF CheckStatus
  <2>6. Made' = Made
    BY <2>5 DEF Made
  <2>7. CallsAreForTheNewest'
    BY <2>2, <2>3, <2>4, <2>5, <2>6 DEF CallsAreForTheNewest, IsNewest
  <2> QED
    BY <2>5, <2>6, <2>7 DEF PaidOnceInv, AttemptsFollowFailures, OrderFollowsTheNewest,
       AllFailed, IsNewest, CloudKnowsMade
<1>4. ASSUME NEW c \in Calls, NEW a, NEW next \in PaymentAttemptStates,
             call[c].pc # "idle", a = call[c].attempt, WriteProviderState(a, next),
             call' = [call EXCEPT ![c] = IdleCall], UNCHANGED <<toCloud, truth>>
      PROVE  PaidOnceInv'
  <2>1. order.state = "PAYMENT_PENDING" /\ IsNewest(a)
    BY <1>0, <1>4
  <2>2. Made' = Made /\ AttemptsFollowFailures' /\ OrderFollowsTheNewest'
    BY <1>4, <2>1, WritingIsPaidOnce
  <2>3. CallsAreForTheNewest'
    <3>1. \A d \in Calls : d = c
      BY DEF OneCallAtATime
    <3>2. call'[c].pc = "idle"
      BY <1>4 DEF TypeOK, IdleCall
    <3> QED
      BY <3>1, <3>2 DEF CallsAreForTheNewest
  <2> QED
    BY <1>0, <1>4, <2>2, <2>3 DEF PaidOnceInv, CloudKnowsMade
<1>5. ASSUME NEW c \in Calls, call[c].pc = "waiting", call' = [call EXCEPT ![c] = Uncertain(c)],
             UNCHANGED <<order, attempt, toCloud, truth>>
      PROVE  PaidOnceInv'
  <2>1. Made' = Made
    BY <1>5 DEF Made
  <2>2. call'[c].attempt = call[c].attempt /\ \A d \in Calls : d # c => call'[d] = call[d]
    BY <1>5 DEF TypeOK, CallStates, Uncertain
  <2>3. CallsAreForTheNewest'
    BY <1>0, <1>5, <2>1, <2>2 DEF CallsAreForTheNewest, IsNewest
  <2> QED
    BY <1>5, <2>1, <2>3 DEF PaidOnceInv, AttemptsFollowFailures, OrderFollowsTheNewest,
       AllFailed, IsNewest, CloudKnowsMade
<1>6. ASSUME NEW c \in Calls, NEW s \in Slots, ReceiveAnswer(c, s)
      PROVE  PaidOnceInv'
  <2>1. call[c].pc = "waiting" /\ UNCHANGED <<toCloud, truth>>
    BY <1>6 DEF ReceiveAnswer
  <2>2. op[s].view \in PaymentAttemptStates
    BY <1>6, StatesAreDistinct DEF ReceiveAnswer, AnswersAreTrue, AnswerIsTrue, TypeOK, Operations
  <2>3. \/ /\ WriteProviderState(call[c].attempt, op[s].view)
           /\ call' = [call EXCEPT ![c] = IdleCall]
        \/ call' = [call EXCEPT ![c] = Uncertain(c)] /\ UNCHANGED <<attempt, order>>
    BY <1>6 DEF ReceiveAnswer
  <2> QED
    BY <1>4, <1>5, <2>1, <2>2, <2>3
<1>7. ASSUME NEW c \in Calls, GiveUp(c)
      PROVE  PaidOnceInv'
  BY <1>5, <1>7 DEF GiveUp
<1>8. ASSUME NEW c \in Calls, MarkUncertain(c)
      PROVE  PaidOnceInv'
  <2>1. /\ call[c].pc = "marking" /\ call' = [call EXCEPT ![c] = IdleCall]
        /\ UNCHANGED <<toCloud, truth>>
    BY <1>8 DEF MarkUncertain
  <2>2. call[c].next \in PaymentAttemptStates
    BY <2>1, StatesAreDistinct DEF CallsAreSound, CallIsSound, TypeOK, CallStates
  <2>3. CASE WriteProviderState(call[c].attempt, call[c].next)
    BY <1>4, <2>1, <2>2, <2>3
  <2>4. CASE UNCHANGED <<attempt, order>>
    <3>1. \A d \in Calls : call'[d].pc # "idle" => call'[d] = call[d]
      BY <2>1 DEF TypeOK, IdleCall
    <3> QED
      BY <1>0, <2>1, <2>4, <3>1, OtherStepsArePaidOnce
  <2> QED
    BY <1>8, <2>3, <2>4 DEF MarkUncertain
<1>9. CASE KillApp
  <2>1. \A d \in Calls : call'[d].pc = "idle"
    BY <1>9 DEF KillApp, IdleCall
  <2>2. UNCHANGED <<order, attempt, toCloud, truth>>
    BY <1>9 DEF KillApp
  <2> QED
    BY <1>0, <2>1, <2>2, OtherStepsArePaidOnce
<1>10. ASSUME NEW s \in Slots, EdgeInitiates(s)
       PROVE  PaidOnceInv'
  <2>1. op[s].attempt \in Made
    BY <1>10 DEF EdgeInitiates, AnswersAreTrue, AnswerIsTrue, Made
  <2>2. toCloud' = toCloud \cup {op[s].attempt} /\ UNCHANGED <<order, attempt, call, truth>>
    BY <1>10 DEF EdgeInitiates
  <2> QED
    BY <1>0, <2>1, <2>2, OtherStepsArePaidOnce
<1>11. ASSUME NEW a \in Attempts,
              \/ CloudReceives(a) \/ LoseInitiation(a)
              \/ \E next \in PaymentAttemptStates : ProviderMoves(a, next)
       PROVE  PaidOnceInv'
  <2>1. UNCHANGED <<order, attempt, call>> /\ toCloud' \subseteq toCloud
    BY <1>11 DEF CloudReceives, LoseInitiation, ProviderMoves
  <2>2. a \in Made \/ truth' = truth
    <3>1. CloudReceives(a) => a \in Made
      BY <1>0 DEF CloudReceives
    <3>2. LoseInitiation(a) => truth' = truth
      BY DEF LoseInitiation
    <3>3. ASSUME NEW next \in PaymentAttemptStates, ProviderMoves(a, next)
          PROVE  a \in Made
      <4>1. truth[a] # NoRow
        BY <3>3 DEF ProviderMoves, Cloud!Move, Cloud!NoRow, NoRow
      <4> QED
        BY <1>0, <4>1
    <3> QED
      BY <1>11, <3>1, <3>2, <3>3
  <2>3. \A b \in Attempts : b # a => truth'[b] = truth[b]
    BY <1>11 DEF CloudReceives, LoseInitiation, ProviderMoves, Cloud!Move, Cloud!Appear, TypeOK
  <2> QED
    BY <1>0, <2>1, <2>2, <2>3, OtherStepsArePaidOnce
<1>12. ASSUME NEW s \in Slots,
              \/ LoseRequest(s) \/ EdgeReconciles(s) \/ EdgeCachesAnswer(s)
              \/ EdgeGivesUp(s) \/ CloudAnswers(s)
       PROVE  PaidOnceInv'
  <2>1. UNCHANGED <<order, attempt, call, toCloud, truth>>
    BY <1>12 DEF LoseRequest, EdgeReconciles, EdgeCachesAnswer, EdgeGivesUp, CloudAnswers
  <2> QED
    BY <1>0, <2>1, OtherStepsArePaidOnce
<1>13. CASE RestartEdge \/ OutageEnds \/ UNCHANGED vars
  <2>1. UNCHANGED <<order, attempt, call, toCloud, truth>>
    BY <1>13 DEF RestartEdge, OutageEnds, vars
  <2> QED
    BY <1>0, <2>1, OtherStepsArePaidOnce
<1> QED
  BY <1>1, <1>2, <1>3, <1>6, <1>7, <1>8, <1>9, <1>10, <1>11, <1>12, <1>13,
     StartPaymentIsPaidOnce DEF Next

\* At most one attempt has succeeded, and none of an order paid in cash.
LEMMA PaidOnceFollows ==
  ASSUME IInv, PaidOnceInv
  PROVE  OrderIsPaidOnce
<1> USE DEF IInv
<1> DEFINE paid == {a \in Attempts : truth[a] = "SUCCEEDED"}
<1>1. \A a \in paid : a \in Made /\ attempt[a].state # "FAILED"
  BY DEF PaidOnceInv, CloudKnowsMade, ResultsAreTrue, Terminal, NoRow
<1>2. \A a, b \in paid : a = b
  BY <1>1, AttemptNumbers DEF PaidOnceInv, AttemptsFollowFailures
<1>3. AllFailed => paid = {}
  BY <1>1 DEF AllFailed
<1>4. Cardinality({}) = 0 /\ \A a \in paid : Cardinality({a}) = 1
  BY FS_EmptySet, FS_Singleton
<1>5. Cardinality(paid) \in 0..1 /\ (paid = {} => Cardinality(paid) = 0)
  <2>1. CASE paid = {}
    BY <1>4, <2>1
  <2>2. ASSUME NEW a \in paid
        PROVE  Cardinality(paid) = 1 /\ paid # {}
    <3>1. paid = {a}
      BY <1>2
    <3>2. Cardinality({a}) = 1
      BY <1>4
    <3> HIDE DEF paid
    <3> QED
      BY <3>1, <3>2
  <2> QED
    BY <2>1, <2>2
<1>6. order.state = "CLOSED" /\ order.paidBy = NoAttempt => paid = {}
  BY <1>3 DEF PaidOnceInv, OrderFollowsTheNewest
<1>7. ChargedAtMostOnce
  <2> HIDE DEF paid
  <2>1. Charges = Cardinality(paid)
          + (IF order.state = "CLOSED" /\ order.paidBy = NoAttempt THEN 1 ELSE 0)
    BY DEF Charges, paid
  <2> QED
    BY <1>5, <1>6, <2>1 DEF ChargedAtMostOnce
<1>8. ClosedForItsTotal
  <2> SUFFICES ASSUME order.paidBy # NoAttempt
               PROVE  /\ truth[order.paidBy] = "SUCCEEDED"
                      /\ attempt[order.paidBy].amount = order.total
    BY DEF ClosedForItsTotal
  <2>1. order.state = "CLOSED"
    BY DEF PaidOnceInv, OrderFollowsTheNewest, TypeOK, Orders
  <2>2. /\ order.paidBy \in Attempts /\ attempt[order.paidBy].state = "SUCCEEDED"
        /\ attempt[order.paidBy].amount = order.total
    BY <2>1 DEF PaidOnceInv, OrderFollowsTheNewest
  <2> QED
    BY <2>2 DEF ResultsAreTrue, Terminal
<1> QED
  BY <1>7, <1>8 DEF OrderIsPaidOnce

\* The customer of an order pays once, in cash or by one successful attempt,
\* and what the attempt was made for: with one payment action at a time and a
\* register clock that is not set back, whatever is lost, late, repeated or
\* restarted (createAttempt, recordCash, applyProviderState).
THEOREM OrdersArePaidOnce ==
  ASSUME OneCallAtATime, ~ClockMayGoBack
  PROVE  Spec => []OrderIsPaidOnce
<1>1. PaidOnceInv /\ IInv /\ [Next]_vars => PaidOnceInv'
  BY StepIsPaidOnce
<1>2. PaidOnceInv /\ IInv => OrderIsPaidOnce
  BY PaidOnceFollows
<1> QED
  BY <1>1, <1>2, InitIsPaidOnce, PaymentsAreInductive, PTL DEF Spec
-----------------------------------------------------------------------------
(* CloudPayments, from here on.                                            *)

HIDE BoundsAssumption
HIDE ClockAssumption
HIDE CallsAssumption
HIDE DEF NoAttempt

-----------------------------------------------------------------------------
(* The inductive invariant.                                                 *)

\* Where the row's reference can come from, and when it is there.
ReferenceIsSound ==
  /\ row.status \in {NoRow, "CREATED"} => row.ref = NoCode
  /\ rail = "mpesa" /\ row.ref # NoCode => charge[row.ref] # "none"
  /\ rail = "pesapal_sabi" /\ row.status = "FAILED" => row.ref = NoCode
  /\ rail = "external_terminal" /\ row.ref # NoCode => row.status \in Terminal

\* M-PESA is asked for one charge, and for none before the Cloud has called.
OneChargeIsAsked ==
  rail = "mpesa" =>
    /\ \A c \in Codes : charge[c] # "mispaid"
    /\ \A c, d \in Codes : charge[c] # "none" /\ charge[d] # "none" => c = d
    /\ row.status = NoRow \/ owner.pc = "calling" => \A c \in Codes : charge[c] = "none"

\* The request that created the row: only M-PESA answers with a reference or a
\* rejection, and a rejected request is not charged.
OwnerIsSound ==
  /\ owner.pc # "none" => row.status # NoRow
  /\ owner.pc = "calling" /\ rail = "mpesa" => row.status \in {"CREATED", "UNKNOWN"}
  /\ owner.pc = "answered" =>
       /\ owner.status # NoRow
       /\ owner.ref # NoCode => rail = "mpesa" /\ charge[owner.ref] # "none"
       /\ owner.status = "FAILED" => /\ rail = "mpesa" /\ owner.ref = NoCode
                                     /\ \A c \in Codes : charge[c] = "none"
  /\ \A c \in owner.todo : event[c].pc = "unmatched"

\* A notification is about a charge, and names a success only on a card's rail.
EventIsSound(c) ==
  event[c].pc # "none" =>
    /\ event[c].status # NoRow /\ charge[c] # "none" /\ rail # "external_terminal"
    /\ event[c].status = "SUCCEEDED" => rail = "pesapal_sabi"
    /\ event[c].status = "SUCCEEDED" /\ event[c].right => charge[c] = "paid"
    /\ event[c].pc = "linked" /\ rail = "pesapal_sabi" =>
         row.status \in {"UNKNOWN", "SUCCEEDED", "FAILED"}

EventsAreSound == \A c \in Codes : EventIsSound(c)

\* A check asks about the row's reference, which stays; the timer's checks have
\* one.  What was replied is still true.
CheckIsSound(k) ==
  /\ k = Timer => check[k].pc # "review"
  /\ check[k].pc \in {"querying", "replied"} => check[k].ref \in Codes /\ check[k].ref = row.ref
  /\ check[k].pc = "replied" =>
       /\ check[k].status \in {"PENDING", "SUCCEEDED", "FAILED", "UNKNOWN"}
       /\ check[k].status = "SUCCEEDED" /\ check[k].right => charge[check[k].ref] = "paid"
       /\ check[k].status \notin {"SUCCEEDED", "UNKNOWN"} => rail = "mpesa"
       /\ check[k].status = "FAILED" => charge[check[k].ref] = "declined"

ChecksAreSound == \A k \in Checkers : CheckIsSound(k)

CloudInv ==
  /\ CloudTypeOK
  /\ ReferenceIsSound
  /\ OneChargeIsAsked
  /\ OwnerIsSound
  /\ EventsAreSound
  /\ ChecksAreSound
  /\ ChargesAreAccountedFor

-----------------------------------------------------------------------------
(* Types.                                                                   *)

USE CloudPaymentsAssumption DEF CloudPaymentsAssumption

\* How the groups of states relate.
LEMMA CloudStatesAreDistinct ==
  /\ NoRow \notin PaymentAttemptStates
  /\ Terminal \subseteq PaymentAttemptStates /\ Unresolved \subseteq PaymentAttemptStates
  /\ Terminal \cap Unresolved = {}
  /\ PaymentAttemptStates = {"CREATED"} \cup Unresolved \cup Terminal
BY DEF NoRow, PaymentAttemptStates, Terminal, Unresolved

RowType == [status : PaymentAttemptStates \cup {NoRow}, ref : Codes \cup {NoCode}]

JobType == [status : {NoRow, "PENDING", "MANUAL_REVIEW", "RESOLVED"}, tries : 0..RetryLimit - 1]

\* What a transaction writes to the job is a job.
LEMMA JobTypes ==
  ASSUME job \in JobType
  PROVE  /\ \A s \in {"PENDING", "MANUAL_REVIEW", "RESOLVED"} : JobIs(s) \in JobType
         /\ \A c, status, right : JobAfter(c, status, right) \in JobType
         /\ Retried(job) \in JobType
<1>1. ASSUME NEW s \in {"PENDING", "MANUAL_REVIEW", "RESOLVED"}
      PROVE  JobIs(s) \in JobType
  BY DEF JobIs, JobType
<1>2. \A c, status, right : JobAfter(c, status, right) \in JobType
  BY <1>1 DEF JobAfter
<1>3. Retried(job) \in JobType
  BY DEF Retried, JobType
<1> QED
  BY <1>1, <1>2, <1>3

\* And to the row a row.
LEMMA CloudRowTypes ==
  ASSUME row \in RowType, NEW c \in Codes, NEW status \in PaymentAttemptStates \cup {NoRow},
         NEW right \in BOOLEAN
  PROVE  RowAfter(c, status, right) \in RowType
<1>1. "UNKNOWN" \in PaymentAttemptStates
  BY DEF PaymentAttemptStates
<1> QED
  BY <1>1 DEF RowAfter, RowType

\* What a provider says of a card payment: a success that counts is one that
\* was paid.
Verdicts == [status : {"SUCCEEDED", "UNKNOWN"}, right : BOOLEAN]

\* A card verdict of success with the right amount speaks of a charge that was
\* made.
LEMMA CardVerdicts ==
  ASSUME NEW c, NEW v \in Verifications(c) \cup CardNotification(c)
  PROVE  /\ v \in Verdicts
         /\ v.status = "SUCCEEDED" /\ v.right => charge[c] = "paid"
<1> DEFINE paid == charge[c] = "paid"
<1>1. paid \in BOOLEAN /\ (paid => charge[c] = "paid")
  OBVIOUS
<1>2. ASSUME NEW w \in Verifications(c)
      PROVE  \/ w = [status |-> "SUCCEEDED", right |-> paid]
             \/ w = [status |-> "UNKNOWN", right |-> paid]
             \/ w = [status |-> "UNKNOWN", right |-> TRUE]
  BY DEF Verifications
<1>3. ASSUME NEW w \in CardNotification(c)
      PROVE  \E u \in Verifications(c) : w = [u EXCEPT !.right = paid]
  BY DEF CardNotification
<1> HIDE DEF paid
<1>4. ASSUME NEW w \in Verifications(c)
      PROVE  w \in Verdicts /\ (w.status = "SUCCEEDED" /\ w.right => charge[c] = "paid")
  <2>1. \A status \in {"SUCCEEDED", "UNKNOWN"}, right \in BOOLEAN :
          [status |-> status, right |-> right] \in Verdicts
    BY DEF Verdicts
  <2>2. /\ [status |-> "SUCCEEDED", right |-> paid] \in Verdicts
        /\ [status |-> "UNKNOWN", right |-> paid] \in Verdicts
        /\ [status |-> "UNKNOWN", right |-> TRUE] \in Verdicts
    BY <1>1, <2>1
  <2>3. w \in Verdicts
    BY <1>2, <2>2, Zenon
  <2>4. w.status = "SUCCEEDED" => w = [status |-> "SUCCEEDED", right |-> paid]
    BY <1>2
  <2>5. w.status = "SUCCEEDED" => w.right = paid
    BY <2>4
  <2>6. w.status = "SUCCEEDED" /\ w.right => paid
    BY <2>5, Zenon
  <2> QED
    BY <1>1, <2>3, <2>6, Zenon
<1>5. ASSUME NEW w \in CardNotification(c)
      PROVE  w \in Verdicts /\ (w.status = "SUCCEEDED" /\ w.right => charge[c] = "paid")
  <2>1. PICK u \in Verifications(c) : w = [u EXCEPT !.right = paid]
    BY <1>3
  <2>2. u \in Verdicts
    BY <1>4
  <2> QED
    BY <1>1, <2>1, <2>2 DEF Verdicts
<1> QED
  BY <1>4, <1>5

\* M-PESA's callback is no verdict; its answer to a query is.
LEMMA MpesaVerdicts ==
  /\ \A v \in MpesaCallback : v \in Verdicts /\ v.status = "UNKNOWN"
  /\ \A c : \A returned \in BOOLEAN :
       /\ QueryStatus(c, returned) \in {"PENDING", "SUCCEEDED", "FAILED", "UNKNOWN"}
       /\ QueryStatus(c, returned) = "FAILED" => charge[c] = "declined"
       /\ QueryStatus(c, returned) = "SUCCEEDED" => charge[c] \notin {"asked", "declined"}
BY DEF MpesaCallback, Verdicts, QueryStatus

\* So does a notification, of which M-PESA has none of success by itself.
LEMMA NotificationTypes ==
  ASSUME NEW c, NEW v \in Verified(c)
  PROVE  /\ v \in Verdicts /\ v.status \in PaymentAttemptStates
         /\ v.status = "SUCCEEDED" => rail # "mpesa"
         /\ v.status = "SUCCEEDED" /\ v.right => charge[c] = "paid"
<1>1. CASE rail = "mpesa"
  BY <1>1, MpesaVerdicts DEF Verified, Verdicts, PaymentAttemptStates
<1>2. CASE rail # "mpesa"
  BY <1>2, CardVerdicts DEF Verified, Verdicts, PaymentAttemptStates
<1> QED
  BY <1>1, <1>2

\* What a status query may answer: a card's success and every M-PESA result are
\* true.
LEMMA ReplyTypes ==
  ASSUME NEW c, NEW v \in StatusOf(c)
  PROVE  /\ v.status \in {"PENDING", "SUCCEEDED", "FAILED", "UNKNOWN"} /\ v.right \in BOOLEAN
         /\ rail # "mpesa" => /\ v.status \in {"SUCCEEDED", "UNKNOWN"}
                              /\ v.status = "SUCCEEDED" /\ v.right => charge[c] = "paid"
         /\ rail = "mpesa" =>
              /\ v.status = "FAILED" => charge[c] = "declined"
              /\ v.status = "SUCCEEDED" => charge[c] \notin {"asked", "declined"}
<1>1. CASE rail = "mpesa"
  <2>1. PICK returned \in Returns : v = [status |-> QueryStatus(c, returned), right |-> TRUE]
    BY <1>1 DEF StatusOf
  <2>2. returned \in BOOLEAN
    BY DEF Returns
  <2> QED
    BY <1>1, <2>1, <2>2, MpesaVerdicts
<1>2. CASE rail # "mpesa"
  <2>1. v \in Verifications(c)
    BY <1>2 DEF StatusOf
  <2> QED
    BY <1>2, <2>1, CardVerdicts DEF Verdicts
<1> QED
  BY <1>1, <1>2

\* The types hold at first.
LEMMA CloudInitType == CloudInit => CloudTypeOK
BY DEF CloudInit, CloudTypeOK, NoOwner, NoEvent, IdleCheck

\* Every step keeps the types.
LEMMA CloudNextType ==
  ASSUME CloudInv, [CloudNext]_cloudVars
  PROVE  CloudTypeOK'
<1> USE DEF CloudInv
<1>0. row \in RowType /\ job \in JobType
  BY DEF CloudTypeOK, RowType, JobType
<1>1. CASE Initiate
  BY <1>1 DEF Initiate, CloudTypeOK, PaymentAttemptStates
<1>2. CASE MpesaAnswers \/ RejectUnsent \/ TerminalAnswers
  <2>1. UNCHANGED <<request, row, job, event, check, cloudOutage>>
    BY <1>2 DEF MpesaAnswers, RejectUnsent, TerminalAnswers
  <2>2. charge' \in [Codes -> {"none", "asked", "paid", "mispaid", "declined"}]
    BY <1>2 DEF MpesaAnswers, RejectUnsent, TerminalAnswers, CloudTypeOK
  <2>3. PICK status, c : /\ Answered(status, c)
                         /\ status \in {"PENDING", "FAILED", "UNKNOWN"}
                         /\ c \in Codes \cup {NoCode}
    BY <1>2 DEF MpesaAnswers, RejectUnsent, TerminalAnswers, StkStatus
  <2>4. owner' \in [pc : {"none", "calling", "answered", "applied", "replaying"},
                    status : {NoRow, "PENDING", "FAILED", "UNKNOWN"},
                    ref : Codes \cup {NoCode}, todo : SUBSET Codes]
    BY <2>3 DEF Answered, CloudTypeOK
  <2> QED
    BY <2>1, <2>2, <2>4 DEF CloudTypeOK
<1>3. CASE ApplyInitiationResult
  <2>1. owner.status \in PaymentAttemptStates \cup {NoRow} /\ owner.ref \in Codes \cup {NoCode}
    BY DEF CloudTypeOK, PaymentAttemptStates
  <2>2. InitiationJob(owner.status, owner.ref) \in JobType
    BY <1>0, JobTypes DEF InitiationJob
  <2>3. row' \in RowType /\ job' \in JobType
    BY <1>0, <1>3, <2>1, <2>2 DEF ApplyInitiationResult, RowType
  <2> QED
    BY <1>3, <2>3 DEF ApplyInitiationResult, CloudTypeOK, RowType, JobType
<1>4. CASE FindUnmatched
  BY <1>4 DEF FindUnmatched, CloudTypeOK
<1>5. ASSUME NEW c \in Codes, ReplayEvent(c)
      PROVE  CloudTypeOK'
  <2>1. row' \in RowType /\ job' \in JobType
    <3>1. event[c].status \in PaymentAttemptStates \cup {NoRow} /\ event[c].right \in BOOLEAN
      BY DEF CloudTypeOK, PaymentAttemptStates
    <3> QED
      BY <1>0, <1>5, <3>1, JobTypes, CloudRowTypes DEF ReplayEvent
  <2> QED
    BY <1>5, <2>1 DEF ReplayEvent, CloudTypeOK, RowType, JobType
<1>6. CASE InitiationEnds
  BY <1>6 DEF InitiationEnds, NoOwner, CloudTypeOK
<1>7. CASE PromoteStaleCreated
  <2>1. job' \in JobType
    BY <1>0, <1>7, JobTypes DEF PromoteStaleCreated
  <2> QED
    BY <1>7, <2>1 DEF PromoteStaleCreated, CloudTypeOK, JobType, PaymentAttemptStates
<1>8. ASSUME NEW c \in Codes, Notify(c)
      PROVE  CloudTypeOK'
  <2>1. PICK v \in Verified(c) :
          /\ event' = [event EXCEPT ![c] =
               [pc |-> IF Matches(c) THEN "linked" ELSE "open",
                status |-> v.status, right |-> v.right]]
          /\ IF Matches(c)
             THEN /\ row' = RowAfter(c, v.status, v.right)
                  /\ job' = JobAfter(c, v.status, v.right)
             ELSE UNCHANGED <<row, job>>
    BY <1>8 DEF Notify
  <2>2. v.status \in {"SUCCEEDED", "UNKNOWN"} /\ v.right \in BOOLEAN
    BY NotificationTypes DEF Verdicts
  <2>3. v.status \in PaymentAttemptStates \cup {NoRow}
    BY NotificationTypes
  <2>4. row' \in RowType /\ job' \in JobType
    BY <1>0, <2>1, <2>2, <2>3, JobTypes, CloudRowTypes
  <2> QED
    BY <1>8, <2>1, <2>2, <2>4 DEF Notify, CloudTypeOK, RowType, JobType
<1>9. ASSUME NEW c \in Codes, CommitUnmatched(c)
      PROVE  CloudTypeOK'
  BY <1>9 DEF CommitUnmatched, CloudTypeOK
<1>10. ASSUME NEW k \in Checkers, BeginCheck(k)
       PROVE  CloudTypeOK'
  BY <1>10 DEF BeginCheck, IdleCheck, CloudTypeOK
<1>11. ASSUME NEW k \in Checkers, SendToReview(k) \/ CheckFails(k)
       PROVE  CloudTypeOK'
  <2>1. job' \in JobType
    BY <1>0, <1>11, JobTypes DEF SendToReview, CheckFails
  <2> QED
    <3>1. check' = [check EXCEPT ![k] = IdleCheck]
          /\ UNCHANGED <<request, row, owner, event, charge, cloudOutage>>
      BY <1>11 DEF SendToReview, CheckFails
    <3> QED
      BY <2>1, <3>1 DEF IdleCheck, CloudTypeOK, JobType
<1>12. ASSUME NEW k \in Checkers, ProviderReplies(k)
       PROVE  CloudTypeOK'
  <2>1. PICK v \in StatusOf(check[k].ref) :
          check' = [check EXCEPT ![k] =
            [@ EXCEPT !.pc = "replied", !.status = v.status, !.right = v.right]]
    BY <1>12 DEF ProviderReplies
  <2>2. v.status \in PaymentAttemptStates /\ v.right \in BOOLEAN
    BY ReplyTypes DEF PaymentAttemptStates
  <2> DEFINE replied == [check[k] EXCEPT !.pc = "replied", !.status = v.status, !.right = v.right]
             CheckType == [pc : {"idle", "review", "querying", "replied"},
                           ref : Codes \cup {NoCode},
                           status : PaymentAttemptStates \cup {NoRow},
                           right : BOOLEAN]
  <2>3. replied \in CheckType
    <3>1. \A x \in CheckType, status \in PaymentAttemptStates, right \in BOOLEAN :
            [x EXCEPT !.pc = "replied", !.status = status, !.right = right] \in CheckType
      OBVIOUS
    <3>2. check[k] \in CheckType
      BY DEF CloudTypeOK
    <3> HIDE DEF CheckType
    <3> QED
      BY <2>2, <3>1, <3>2
  <2>4. check' = [check EXCEPT ![k] = replied] /\ check \in [Checkers -> CheckType]
    BY <2>1 DEF CloudTypeOK
  <2> HIDE DEF replied, CheckType
  <2>5. check' \in [Checkers -> CheckType]
    BY <2>3, <2>4
  <2>6. UNCHANGED <<request, row, job, owner, event, charge, cloudOutage>>
    BY <1>12 DEF ProviderReplies
  <2> QED
    BY <2>5, <2>6 DEF CloudTypeOK, CheckType
<1>13. ASSUME NEW k \in Checkers, ApplyReply(k)
       PROVE  CloudTypeOK'
  <2>1. row' \in RowType /\ job' \in JobType
    <3>1. check[k].ref \in Codes
      BY <1>13 DEF ApplyReply, ChecksAreSound, CheckIsSound
    <3>2. check[k].status \in PaymentAttemptStates \cup {NoRow} /\ check[k].right \in BOOLEAN
      BY DEF CloudTypeOK
    <3> QED
      BY <1>0, <1>13, <3>1, <3>2, JobTypes, CloudRowTypes DEF ApplyReply
  <2> QED
    BY <1>13, <2>1 DEF ApplyReply, IdleCheck, CloudTypeOK, RowType, JobType
<1>14. ASSUME NEW c \in Codes, NEW outcome \in DOMAIN ResultOf, ConfirmManually(outcome, c)
       PROVE  CloudTypeOK'
  <2>1. job' \in JobType
    BY <1>0, <1>14, JobTypes DEF ConfirmManually
  <2>2. ResultOf[outcome] \in PaymentAttemptStates
    BY DEF ResultOf, PaymentAttemptStates
  <2> QED
    BY <1>14, <2>1, <2>2 DEF ConfirmManually, CloudTypeOK, JobType
<1>15. ASSUME NEW c \in Codes, NEW result \in {"paid", "mispaid", "declined"}, Charge(c, result)
       PROVE  CloudTypeOK'
  BY <1>15 DEF Charge, CloudTypeOK
<1>16. CASE Crash
  BY <1>16 DEF Crash, NoOwner, NoEvent, IdleCheck, CloudTypeOK
<1>17. CASE CloudOutageEnds \/ UNCHANGED cloudVars
  BY <1>17 DEF CloudOutageEnds, cloudVars, CloudTypeOK
<1> QED
  BY <1>1, <1>2, <1>3, <1>4, <1>5, <1>6, <1>7, <1>8, <1>9, <1>10, <1>11, <1>12, <1>13, <1>14,
     <1>15, <1>16, <1>17 DEF CloudNext

-----------------------------------------------------------------------------
(* What a provider said, applied.                                           *)

\* A verdict of the provider is written once, under the attempt's reference,
\* and its result is the provider's.
LEMMA AppliedTruth ==
  ASSUME CloudInv, row.status # NoRow, rail # "external_terminal",
         NEW c \in Codes, NEW status \in {"PENDING", "SUCCEEDED", "FAILED", "UNKNOWN"},
         NEW right \in BOOLEAN,
         rail = "mpesa" => charge[c] # "none",
         status = "SUCCEEDED" /\ right => charge[c] = "paid",
         status \notin {"SUCCEEDED", "UNKNOWN"} => rail = "mpesa",
         status = "FAILED" => charge[c] = "declined",
         row' = RowAfter(c, status, right), UNCHANGED <<request, charge>>
  PROVE  /\ ReferenceIsSound' /\ ResultsAreTheProviders'
         /\ row.ref # NoCode => row'.ref = row.ref
         /\ row'.status \in PaymentAttemptStates /\ CanTransition(row.status, row'.status)
         /\ rail = "pesapal_sabi" => row'.status \in {"UNKNOWN", "SUCCEEDED", "FAILED"}
         /\ Applies(c, status, right) => row'.status = status /\ row'.ref = c
<1> USE DEF CloudInv
<1>1. row \in RowType /\ row.status \in PaymentAttemptStates /\ rail' = rail /\ charge' = charge
  BY DEF CloudTypeOK, RowType, rail
<1>2. /\ ReferenceIsSound /\ ResultsAreTheProviders
      /\ rail \in {"mpesa", "pesapal_sabi"} /\ c # NoCode
  BY DEF CloudTypeOK, Requests, Rails, rail, ChargesAreAccountedFor
<1>3. CASE Contradicts(c, right)
  <2> DEFINE next == IF row.status \in Terminal THEN row.status ELSE "UNKNOWN"
  <2>1. row'.status = next /\ row'.ref = row.ref
    BY <1>1, <1>3 DEF RowAfter, RowType
  <2>2. ~Applies(c, status, right)
    BY <1>3 DEF Applies
  <2>3. CanTransition(row.status, next) /\ next \in Terminal \cup {"UNKNOWN"}
        /\ (next \in Terminal => next = row.status)
    BY <1>1 DEF CanTransition, AllowedTransitions, PaymentAttemptStates, Terminal
  <2> HIDE DEF next
  <2>4. ReferenceIsSound'
    BY <1>1, <1>2, <2>1, <2>3 DEF ReferenceIsSound, Terminal, NoRow
  <2>5. ResultsAreTheProviders'
    BY <1>1, <1>2, <2>1, <2>3 DEF ResultsAreTheProviders, Terminal
  <2> QED
    BY <2>1, <2>2, <2>3, <2>4, <2>5 DEF Terminal, PaymentAttemptStates
<1>4. CASE Applies(c, status, right)
  <2>1. row'.status = status /\ row'.ref = c /\ CanTransition(row.status, status)
        /\ (row.ref = NoCode \/ row.ref = c) /\ right
    BY <1>4 DEF Applies, RowAfter, Contradicts
  <2>2. rail = "pesapal_sabi" => status \in {"SUCCEEDED", "UNKNOWN"}
    BY <1>2
  <2>3. ReferenceIsSound'
    BY <1>1, <1>2, <2>1, <2>2 DEF ReferenceIsSound, NoRow
  <2>4. rail = "mpesa" /\ status = "FAILED" => \A d \in Codes : charge[d] \in {"none", "declined"}
    BY DEF OneChargeIsAsked
  <2>5. ResultsAreTheProviders'
    BY <1>1, <2>1, <2>4 DEF ResultsAreTheProviders
  <2> QED
    BY <2>1, <2>2, <2>3, <2>5 DEF PaymentAttemptStates
<1>5. CASE ~Contradicts(c, right) /\ ~Applies(c, status, right)
  <2>1. row' = row /\ ~CanTransition(row.status, status)
    BY <1>5 DEF Applies, RowAfter
  <2>2. row.status \in Terminal \/ row.status = "UNKNOWN" \/ status # "UNKNOWN"
    BY <1>1, <2>1 DEF CanTransition, AllowedTransitions, PaymentAttemptStates, Terminal
  <2>3. rail = "pesapal_sabi" => row.status \in {"UNKNOWN", "SUCCEEDED", "FAILED"}
    BY <1>1, <1>2, <2>1
       DEF CanTransition, AllowedTransitions, PaymentAttemptStates, Terminal
  <2>4. ReferenceIsSound' /\ ResultsAreTheProviders'
    BY <1>1, <1>2, <2>1 DEF ReferenceIsSound, ResultsAreTheProviders
  <2> QED
    BY <1>1, <1>5, <2>1, <2>3, <2>4 DEF CanTransition
<1> QED
  BY <1>3, <1>4, <1>5 DEF Applies

\* The job that is written with it.
LEMMA AppliedTruthIsTracked ==
  ASSUME CloudInv, NEW c \in Codes, NEW status \in {"PENDING", "SUCCEEDED", "FAILED", "UNKNOWN"},
         NEW right \in BOOLEAN,
         row'.status \in PaymentAttemptStates,
         Applies(c, status, right) => row'.status = status /\ row'.ref = c,
         status = "FAILED" => rail = "mpesa",
         \/ job' = JobAfter(c, status, right)
         \/ /\ Applies(c, status, right) /\ status \notin Terminal
            /\ job' = Retried(job)
  PROVE  /\ UnresolvedIsTracked'
         /\ rail # "mpesa" /\ row'.status = "FAILED" => job'.status = "MANUAL_REVIEW"
<1> USE DEF CloudInv
<1>1. job \in JobType /\ c # NoCode
  BY DEF CloudTypeOK, JobType
<1>2. CASE ~Applies(c, status, right)
  <2>1. job'.status = "MANUAL_REVIEW"
    BY <1>1, <1>2 DEF JobAfter, JobIs, JobType
  <2> QED
    BY <2>1 DEF UnresolvedIsTracked
<1>3. CASE Applies(c, status, right) /\ status \in Terminal
  BY <1>3 DEF UnresolvedIsTracked, Unresolved, Terminal
<1>4. CASE Applies(c, status, right) /\ status \notin Terminal
  <2>1. job'.status \in {"PENDING", "MANUAL_REVIEW"}
    BY <1>1, <1>4 DEF JobAfter, JobIs, JobType, Retried
  <2>2. row'.ref = c /\ row'.status # "FAILED"
    BY <1>4 DEF Terminal
  <2> QED
    BY <1>1, <2>1, <2>2 DEF UnresolvedIsTracked
<1> QED
  BY <1>2, <1>3, <1>4

\* After it no request, notification or check is mistaken about the row.
LEMMA AppliedTruthIsShared ==
  ASSUME CloudInv, rail # "external_terminal", UNCHANGED <<request, charge>>,
         row.status # NoRow, row'.status \in PaymentAttemptStates,
         row.ref # NoCode => row'.ref = row.ref,
         rail = "pesapal_sabi" => row'.status \in {"UNKNOWN", "SUCCEEDED", "FAILED"},
         NEW c \in Codes, rail = "mpesa" => charge[c] # "none"
  PROVE  /\ owner'.pc = owner.pc => OneChargeIsAsked'
         /\ owner' = owner /\ event' = event => OwnerIsSound'
         /\ \A d \in Codes : event'[d] = event[d] => EventIsSound(d)'
         /\ \A k \in Checkers : check'[k] = check[k] => CheckIsSound(k)'
<1> USE DEF CloudInv
<1>1. rail' = rail /\ charge' = charge /\ row'.status # NoRow
  BY CloudStatesAreDistinct DEF rail
<1>2. rail = "mpesa" => owner.pc # "calling"
  BY DEF OneChargeIsAsked
<1>3. owner'.pc = owner.pc => OneChargeIsAsked'
  BY <1>1, <1>2 DEF OneChargeIsAsked
<1>4. owner' = owner /\ event' = event => OwnerIsSound'
  BY <1>1, <1>2 DEF OwnerIsSound
<1>5. ASSUME NEW d \in Codes, event'[d] = event[d] PROVE EventIsSound(d)'
  BY <1>1, <1>5 DEF EventsAreSound, EventIsSound
<1>6. ASSUME NEW k \in Checkers, check'[k] = check[k] PROVE CheckIsSound(k)'
  <2>1. CheckIsSound(k)
    BY DEF ChecksAreSound
  <2> QED
    BY <1>1, <1>6, <2>1 DEF CheckIsSound
<1> QED
  BY <1>3, <1>4, <1>5, <1>6

-----------------------------------------------------------------------------
(* Every step keeps the invariant.                                          *)

\* The invariant holds at first.
LEMMA InitIsSound == CloudInit => CloudInv
<1> SUFFICES ASSUME CloudInit PROVE CloudInv
  OBVIOUS
<1>1. CloudTypeOK
  BY CloudInitType
<1>2. row.status = NoRow /\ row.ref = NoCode /\ NoRow \notin Unresolved
      /\ NoRow \notin {"SUCCEEDED", "FAILED"}
  BY DEF CloudInit, NoRow, Unresolved
<1>3. ReferenceIsSound /\ OneChargeIsAsked
  BY <1>2 DEF CloudInit, ReferenceIsSound, OneChargeIsAsked
<1>4. OwnerIsSound
  BY DEF CloudInit, NoOwner, OwnerIsSound
<1>5. EventsAreSound
  BY DEF CloudInit, NoEvent, EventsAreSound, EventIsSound
<1>6. ChecksAreSound
  BY DEF CloudInit, IdleCheck, ChecksAreSound, CheckIsSound
<1>7. ChargesAreAccountedFor
  BY <1>2 DEF ChargesAreAccountedFor, UnresolvedIsTracked, ResultsAreTheProviders,
     ContestedDeclinesAreReviewed
<1> QED
  BY <1>1, <1>3, <1>4, <1>5, <1>6, <1>7 DEF CloudInv

\* initiate: the attempt and its job in one transaction.
LEMMA InitiateIsSound ==
  ASSUME CloudInv, Initiate
  PROVE  CloudInv'
<1> USE DEF CloudInv
<1>1. /\ row.status = NoRow /\ row' = [row EXCEPT !.status = "CREATED"]
      /\ owner' = [owner EXCEPT !.pc = "calling"]
      /\ UNCHANGED <<request, job, event, check, charge, cloudOutage>>
  BY DEF Initiate
<1>2. /\ row'.status = "CREATED" /\ row'.ref = row.ref /\ row.ref = NoCode
      /\ owner'.pc = "calling" /\ owner'.todo = owner.todo /\ rail' = rail
  BY <1>1 DEF CloudTypeOK, ReferenceIsSound, rail
<1>3. CloudTypeOK'
  BY CloudNextType DEF CloudNext
<1>4. ReferenceIsSound' /\ OneChargeIsAsked' /\ OwnerIsSound'
  BY <1>1, <1>2 DEF ReferenceIsSound, OneChargeIsAsked, OwnerIsSound, NoRow
<1>5. \A c \in Codes : rail = "pesapal_sabi" => event[c].pc # "linked"
  BY <1>1 DEF EventsAreSound, EventIsSound, NoRow
<1>6. EventsAreSound'
  BY <1>1, <1>2, <1>5 DEF EventsAreSound, EventIsSound
<1>7. ChecksAreSound'
  BY <1>1, <1>2 DEF ChecksAreSound, CheckIsSound
<1>8. ChargesAreAccountedFor'
  BY <1>2 DEF ChargesAreAccountedFor, UnresolvedIsTracked, ResultsAreTheProviders,
     ContestedDeclinesAreReviewed, Unresolved
<1> QED
  BY <1>3, <1>4, <1>6, <1>7, <1>8

\* The provider answers the request, or it never left.
LEMMA AnswerIsSound ==
  ASSUME CloudInv, MpesaAnswers \/ RejectUnsent \/ TerminalAnswers
  PROVE  CloudInv'
<1> USE DEF CloudInv
<1>1. UNCHANGED <<request, row, job, event, check, cloudOutage>> /\ owner.pc = "calling"
      /\ rail' = rail
  BY DEF MpesaAnswers, RejectUnsent, TerminalAnswers, rail
<1>2. CloudTypeOK'
  BY CloudNextType DEF CloudNext
<1>3. PICK status, ref :
        /\ Answered(status, ref)
        /\ \/ /\ rail = "mpesa" /\ status \in {"PENDING", "UNKNOWN"}
              /\ \E c \in Codes : /\ charge' = [charge EXCEPT ![c] = "asked"]
                                  /\ ref \in {c, NoCode}
           \/ /\ rail = "mpesa" /\ status \in {"FAILED", "UNKNOWN"} /\ ref = NoCode
              /\ charge' = charge
           \/ rail # "mpesa" /\ status = "PENDING" /\ ref = NoCode /\ charge' = charge
  <2>1. CASE MpesaAnswers
    BY <2>1 DEF MpesaAnswers, StkStatus
  <2>2. CASE RejectUnsent
    BY <2>2 DEF RejectUnsent
  <2>3. CASE TerminalAnswers
    BY <2>3 DEF TerminalAnswers
  <2> QED
    BY <2>1, <2>2, <2>3
<1>4. /\ owner'.pc = "answered" /\ owner'.status = status /\ owner'.ref = ref
      /\ owner'.todo = owner.todo
  BY <1>3 DEF Answered, CloudTypeOK
<1>5. rail = "mpesa" => \A c \in Codes : charge[c] = "none"
  BY <1>1 DEF OneChargeIsAsked
<1>6. /\ charge \in [Codes -> {"none", "asked", "paid", "mispaid", "declined"}]
      /\ row.status # NoRow /\ (rail = "mpesa" => row.status \in {"CREATED", "UNKNOWN"})
      /\ row.ref \in Codes \cup {NoCode}
  BY <1>1 DEF CloudTypeOK, OwnerIsSound
<1>7. /\ rail # "mpesa" => charge' = charge
      /\ rail = "mpesa" => \A c \in Codes : charge'[c] \in {"none", "asked"}
      /\ rail = "mpesa" => \A c, d \in Codes : charge'[c] # "none" /\ charge'[d] # "none" => c = d
      /\ ref # NoCode => rail = "mpesa" /\ charge'[ref] # "none"
      /\ status = "FAILED" => rail = "mpesa" /\ ref = NoCode /\ \A c \in Codes : charge'[c] = "none"
      /\ status # NoRow
  <2>1. ASSUME NEW c \in Codes, charge' = [charge EXCEPT ![c] = "asked"]
        PROVE  charge'[c] = "asked" /\ \A d \in Codes : d # c => charge'[d] = charge[d]
    BY <1>6, <2>1
  <2> QED
    BY <1>3, <1>5, <2>1 DEF NoRow
<1>8. rail = "mpesa" => row.ref = NoCode
  BY <1>5, <1>6 DEF ReferenceIsSound
<1>9. ReferenceIsSound'
  BY <1>1, <1>7, <1>8 DEF ReferenceIsSound
<1>10. OneChargeIsAsked'
  BY <1>1, <1>4, <1>6, <1>7 DEF OneChargeIsAsked
<1>11. OwnerIsSound'
  BY <1>1, <1>4, <1>6, <1>7 DEF OwnerIsSound
<1>12. EventsAreSound'
  BY <1>1, <1>5, <1>7 DEF EventsAreSound, EventIsSound
<1>13. ChecksAreSound'
  <2>1. rail = "mpesa" => \A k \in Checkers : check[k].pc \notin {"querying", "replied"}
    BY <1>8 DEF ChecksAreSound, CheckIsSound
  <2> QED
    BY <1>1, <1>7, <2>1 DEF ChecksAreSound, CheckIsSound
<1>14. ChargesAreAccountedFor'
  BY <1>1, <1>6, <1>7 DEF ChargesAreAccountedFor, UnresolvedIsTracked, ResultsAreTheProviders,
     ContestedDeclinesAreReviewed
<1> QED
  BY <1>2, <1>9, <1>10, <1>11, <1>12, <1>13, <1>14

\* The answer is recorded, unless something else already was.
LEMMA ApplyInitiationResultIsSound ==
  ASSUME CloudInv, ApplyInitiationResult
  PROVE  CloudInv'
<1> USE DEF CloudInv
<1>1. /\ owner.pc = "answered" /\ owner' = [owner EXCEPT !.pc = "applied"]
      /\ UNCHANGED <<request, event, check, charge, cloudOutage>> /\ rail' = rail
  BY DEF ApplyInitiationResult, rail
<1>2. CloudTypeOK'
  BY CloudNextType DEF CloudNext
<1>3. owner'.pc = "applied" /\ owner'.todo = owner.todo
  BY <1>1 DEF CloudTypeOK
<1>4. /\ row.status # NoRow /\ owner.status \in {"PENDING", "FAILED", "UNKNOWN"}
      /\ owner.ref # NoCode => rail = "mpesa" /\ charge[owner.ref] # "none"
      /\ owner.status = "FAILED" => /\ rail = "mpesa" /\ owner.ref = NoCode
                                    /\ \A c \in Codes : charge[c] = "none"
  BY <1>1 DEF OwnerIsSound, CloudTypeOK
<1>5. CASE row.status = "CREATED"
  <2>1. /\ row' = [status |-> owner.status, ref |-> owner.ref]
        /\ job' = InitiationJob(owner.status, owner.ref)
    BY <1>5 DEF ApplyInitiationResult
  <2>2. row.ref = NoCode
    BY <1>5 DEF ReferenceIsSound
  <2>3. ReferenceIsSound' /\ OneChargeIsAsked' /\ OwnerIsSound'
    BY <1>1, <1>3, <1>4, <2>1 DEF ReferenceIsSound, OneChargeIsAsked, OwnerIsSound, NoRow
  <2>4. \A c \in Codes : rail = "pesapal_sabi" => event[c].pc # "linked"
    BY <1>5 DEF EventsAreSound, EventIsSound
  <2>5. EventsAreSound'
    BY <1>1, <2>4 DEF EventsAreSound, EventIsSound
  <2>6. ChecksAreSound'
    BY <1>1, <2>1, <2>2 DEF ChecksAreSound, CheckIsSound
  <2>7. UnresolvedIsTracked'
    BY <2>1 DEF UnresolvedIsTracked, InitiationJob, JobIs, Unresolved, CloudTypeOK
  <2>8. ResultsAreTheProviders'
    BY <1>1, <1>4, <2>1 DEF ResultsAreTheProviders
  <2>9. ContestedDeclinesAreReviewed'
    BY <1>1, <1>4, <2>1 DEF ContestedDeclinesAreReviewed, EventsAreSound, EventIsSound
  <2> QED
    BY <1>2, <2>3, <2>5, <2>6, <2>7, <2>8, <2>9 DEF ChargesAreAccountedFor
<1>6. CASE row.status # "CREATED"
  <2>1. UNCHANGED <<row, job>>
    BY <1>6 DEF ApplyInitiationResult
  <2>2. ReferenceIsSound' /\ OneChargeIsAsked' /\ OwnerIsSound'
    BY <1>1, <1>3, <1>4, <2>1 DEF ReferenceIsSound, OneChargeIsAsked, OwnerIsSound
  <2>3. EventsAreSound' /\ ChecksAreSound'
    BY <1>1, <2>1 DEF EventsAreSound, EventIsSound, ChecksAreSound, CheckIsSound
  <2>4. ChargesAreAccountedFor'
    BY <1>1, <2>1 DEF ChargesAreAccountedFor, UnresolvedIsTracked, ResultsAreTheProviders,
       ContestedDeclinesAreReviewed
  <2> QED
    BY <1>2, <2>2, <2>3, <2>4
<1> QED
  BY <1>5, <1>6

\* What neither the row nor a charge is changed by: the request that created the
\* row looks for unmatched events or ends, an event becomes visible, the Cloud stops.
LEMMA QuietStepIsSound ==
  ASSUME CloudInv,
         \/ FindUnmatched \/ InitiationEnds \/ (\E c \in Codes : CommitUnmatched(c))
         \/ Crash \/ CloudOutageEnds \/ UNCHANGED cloudVars
  PROVE  CloudInv'
<1> USE DEF CloudInv
<1>1. UNCHANGED <<request, row, job, charge>> /\ rail' = rail
  BY DEF FindUnmatched, InitiationEnds, CommitUnmatched, Crash, CloudOutageEnds, cloudVars, rail
<1>2. CloudTypeOK'
  BY CloudNextType DEF CloudNext
<1>3. /\ owner'.pc \in {"calling", "answered"} => owner' = owner
      /\ owner'.pc # "none" => owner.pc # "none"
  <2>1. CASE FindUnmatched
    BY <2>1 DEF FindUnmatched, CloudTypeOK
  <2>2. CASE ~FindUnmatched
    <3>1. owner' = NoOwner \/ owner' = owner
      BY <2>2 DEF InitiationEnds, CommitUnmatched, Crash, CloudOutageEnds, cloudVars
    <3> QED
      BY <3>1 DEF NoOwner
  <2> QED
    BY <2>1, <2>2
<1>4. ASSUME NEW c \in Codes
      PROVE  /\ event'[c].pc # "none" => /\ event[c].pc # "none"
                                         /\ event'[c].status = event[c].status
                                         /\ event'[c].right = event[c].right
             /\ event'[c].pc = "linked" => event[c].pc = "linked"
             /\ event[c].pc = "unmatched" => event'[c].pc = "unmatched"
  BY DEF FindUnmatched, InitiationEnds, CommitUnmatched, Crash, CloudOutageEnds, cloudVars, NoEvent, CloudTypeOK
<1>5. \A c \in owner'.todo : event'[c].pc = "unmatched"
  <2>1. owner.todo \subseteq Codes /\ \A c \in owner.todo : event[c].pc = "unmatched"
    BY DEF CloudTypeOK, OwnerIsSound
  <2>2. CASE FindUnmatched
    BY <2>2 DEF FindUnmatched, CloudTypeOK
  <2>3. CASE ~FindUnmatched
    <3>1. owner'.todo = {} \/ owner' = owner
      BY <2>3 DEF InitiationEnds, CommitUnmatched, Crash, CloudOutageEnds, cloudVars, NoOwner
    <3> QED
      BY <1>4, <2>1, <3>1
  <2> QED
    BY <2>2, <2>3
<1>6. \A k \in Checkers : check'[k] = check[k] \/ check'[k] = IdleCheck
  BY DEF FindUnmatched, InitiationEnds, CommitUnmatched, Crash, CloudOutageEnds, cloudVars
<1>7. ReferenceIsSound' /\ OneChargeIsAsked'
  BY <1>1, <1>3 DEF ReferenceIsSound, OneChargeIsAsked
<1>8. OwnerIsSound'
  BY <1>1, <1>3, <1>5 DEF OwnerIsSound
<1>9. EventsAreSound'
  BY <1>1, <1>4 DEF EventsAreSound, EventIsSound
<1>10. ChecksAreSound'
  BY <1>1, <1>6 DEF ChecksAreSound, CheckIsSound, IdleCheck
<1>11. ChargesAreAccountedFor'
  BY <1>1, <1>4 DEF ChargesAreAccountedFor, UnresolvedIsTracked, ResultsAreTheProviders,
     ContestedDeclinesAreReviewed
<1> QED
  BY <1>2, <1>7, <1>8, <1>9, <1>10, <1>11

\* What a notification does to the attempt that it matches, at once or replayed.
LEMMA EventAppliedIsSound ==
  ASSUME CloudInv, CloudNext, NEW c \in Codes, NEW status, NEW right \in BOOLEAN,
         status \in {"SUCCEEDED", "UNKNOWN"},
         row.status # NoRow, rail # "external_terminal", charge[c] # "none",
         status = "SUCCEEDED" => rail = "pesapal_sabi",
         status = "SUCCEEDED" /\ right => charge[c] = "paid",
         row' = RowAfter(c, status, right), job' = JobAfter(c, status, right),
         event' = [event EXCEPT ![c] = [pc |-> "linked", status |-> status, right |-> right]],
         owner' = [owner EXCEPT !.todo = @ \ {c}] \/ (owner' = owner /\ event[c].pc = "none"),
         UNCHANGED <<request, check, charge, cloudOutage>>
  PROVE  CloudInv'
<1> USE DEF CloudInv
<1>1. CloudTypeOK'
  BY CloudNextType
<1>2. /\ ReferenceIsSound' /\ ResultsAreTheProviders'
      /\ row.ref # NoCode => row'.ref = row.ref
      /\ row'.status \in PaymentAttemptStates
      /\ CanTransition(row.status, row'.status)
      /\ rail = "pesapal_sabi" => row'.status \in {"UNKNOWN", "SUCCEEDED", "FAILED"}
      /\ Applies(c, status, right) => row'.status = status /\ row'.ref = c
  BY AppliedTruth
<1>3. /\ UnresolvedIsTracked'
      /\ rail # "mpesa" /\ row'.status = "FAILED" => job'.status = "MANUAL_REVIEW"
  BY <1>2, AppliedTruthIsTracked
<1>4. /\ owner'.pc = owner.pc /\ owner'.status = owner.status /\ owner'.ref = owner.ref
      /\ owner'.todo \subseteq owner.todo \ {c}
  BY DEF CloudTypeOK, OwnerIsSound
<1>5. /\ OneChargeIsAsked'
      /\ \A d \in Codes : event'[d] = event[d] => EventIsSound(d)'
      /\ \A k \in Checkers : check'[k] = check[k] => CheckIsSound(k)'
  BY <1>2, <1>4, AppliedTruthIsShared
<1>6. event'[c] = [pc |-> "linked", status |-> status, right |-> right]
      /\ \A d \in Codes : d # c => event'[d] = event[d]
  BY DEF CloudTypeOK
<1>7. rail' = rail /\ charge' = charge /\ row'.status # NoRow
  BY <1>2, CloudStatesAreDistinct DEF rail
<1>8. EventIsSound(c)'
  <2>1. event'[c].pc = "linked" /\ event'[c].status = status /\ event'[c].right = right
    BY <1>6
  <2>2. status # NoRow
    BY DEF NoRow
  <2> QED
    BY <1>2, <1>7, <2>1, <2>2 DEF EventIsSound
<1>9. EventsAreSound' /\ ChecksAreSound'
  BY <1>5, <1>6, <1>8 DEF EventsAreSound, ChecksAreSound
<1>10. OwnerIsSound'
  <2>1. \A d \in owner'.todo : event'[d].pc = "unmatched"
    <3>1. owner.todo \subseteq Codes
      BY DEF CloudTypeOK
    <3> QED
      BY <1>4, <1>6, <3>1 DEF OwnerIsSound
  <2>2. owner.pc = "calling" => rail # "mpesa"
    BY DEF OneChargeIsAsked
  <2> QED
    BY <1>4, <1>7, <2>1, <2>2 DEF OwnerIsSound
<1>11. ContestedDeclinesAreReviewed'
  BY <1>3, <1>7, <1>9 DEF ContestedDeclinesAreReviewed, EventsAreSound, EventIsSound
<1> QED
  BY <1>1, <1>2, <1>3, <1>5, <1>9, <1>10, <1>11 DEF ChargesAreAccountedFor

\* applyUnmatchedCallbacks: notifications that came before the reference.
LEMMA ReplayEventIsSound ==
  ASSUME CloudInv, NEW c \in Codes, ReplayEvent(c)
  PROVE  CloudInv'
<1> USE DEF CloudInv
<1> DEFINE status == event[c].status
           right == event[c].right
<1>1. /\ event[c].pc = "unmatched" /\ row.status # NoRow
      /\ status \in {"SUCCEEDED", "UNKNOWN"} /\ right \in BOOLEAN
      /\ charge[c] # "none" /\ rail # "external_terminal"
      /\ status = "SUCCEEDED" => rail = "pesapal_sabi"
      /\ status = "SUCCEEDED" /\ right => charge[c] = "paid"
  BY DEF ReplayEvent, OwnerIsSound, EventsAreSound, EventIsSound, CloudTypeOK
<1>2. event' = [event EXCEPT ![c] = [pc |-> "linked", status |-> status, right |-> right]]
  <2>1. [event[c] EXCEPT !.pc = "linked"] = [pc |-> "linked", status |-> status, right |-> right]
    BY DEF CloudTypeOK
  <2> QED
    BY <2>1 DEF ReplayEvent
<1>3. /\ row' = RowAfter(c, status, right) /\ job' = JobAfter(c, status, right)
      /\ owner' = [owner EXCEPT !.todo = @ \ {c}] \/ (owner' = owner /\ event[c].pc = "none")
      /\ UNCHANGED <<request, check, charge, cloudOutage>>
  BY DEF ReplayEvent
<1>4. CloudNext
  BY DEF CloudNext
<1> HIDE DEF status, right, CloudInv
<1> QED
  BY <1>1, <1>2, <1>3, <1>4, EventAppliedIsSound

\* A notification of the provider, stored and applied in one transaction.
LEMMA NotifyIsSound ==
  ASSUME CloudInv, NEW c \in Codes, Notify(c)
  PROVE  CloudInv'
<1> USE DEF CloudInv
<1>1. PICK v \in Verified(c) :
        /\ event' = [event EXCEPT ![c] =
             [pc |-> IF Matches(c) THEN "linked" ELSE "open",
              status |-> v.status, right |-> v.right]]
        /\ IF Matches(c)
           THEN /\ row' = RowAfter(c, v.status, v.right)
                /\ job' = JobAfter(c, v.status, v.right)
           ELSE UNCHANGED <<row, job>>
  BY DEF Notify
<1>2. /\ rail # "external_terminal" /\ event[c].pc = "none" /\ charge[c] # "none"
      /\ UNCHANGED <<request, owner, check, charge, cloudOutage>> /\ rail' = rail
      /\ CloudNext
  BY DEF Notify, rail, CloudNext
<1> DEFINE status == v.status
           right == v.right
<1>3. /\ status \in {"SUCCEEDED", "UNKNOWN"} /\ right \in BOOLEAN
      /\ status = "SUCCEEDED" => rail = "pesapal_sabi"
      /\ status = "SUCCEEDED" /\ right => charge[c] = "paid"
  <2>1. rail \in Rails
    BY DEF CloudTypeOK, Requests, rail
  <2> QED
    BY <1>2, <2>1, NotificationTypes DEF Verdicts, Rails
<1>4. CASE Matches(c)
  <2>1. row.status # NoRow
    BY <1>4 DEF Matches, ReferenceIsSound
  <2>2. /\ event' = [event EXCEPT ![c] = [pc |-> "linked", status |-> status, right |-> right]]
        /\ row' = RowAfter(c, status, right) /\ job' = JobAfter(c, status, right)
    BY <1>1, <1>4
  <2> HIDE DEF status, right
  <2> QED
    BY <1>2, <1>3, <2>1, <2>2, EventAppliedIsSound
<1>5. CASE ~Matches(c)
  <2>1. /\ event' = [event EXCEPT ![c] = [pc |-> "open", status |-> status, right |-> right]]
        /\ UNCHANGED <<row, job>>
    BY <1>1, <1>5
  <2> HIDE DEF status, right
  <2>2. event'[c] = [pc |-> "open", status |-> status, right |-> right]
        /\ \A d \in Codes : d # c => event'[d] = event[d]
    BY <2>1 DEF CloudTypeOK
  <2>3. CloudTypeOK'
    BY <1>2, CloudNextType
  <2>4. ReferenceIsSound' /\ OneChargeIsAsked' /\ ChecksAreSound'
    BY <1>2, <2>1 DEF ReferenceIsSound, OneChargeIsAsked, ChecksAreSound, CheckIsSound
  <2>5. OwnerIsSound'
    <3>1. owner.todo \subseteq Codes /\ c \notin owner.todo
      BY <1>2 DEF CloudTypeOK, OwnerIsSound
    <3> QED
      BY <1>2, <2>1, <2>2, <3>1 DEF OwnerIsSound
  <2>6. EventIsSound(c)'
    <3>1. event'[c].pc = "open" /\ event'[c].status = status /\ event'[c].right = right
      BY <2>2
    <3>2. status # NoRow
      BY <1>3 DEF NoRow
    <3> QED
      BY <1>2, <1>3, <3>1, <3>2 DEF EventIsSound
  <2>7. EventsAreSound'
    BY <1>2, <2>1, <2>2, <2>6 DEF EventsAreSound, EventIsSound
  <2>8. ChargesAreAccountedFor'
    BY <1>2, <2>1, <2>2 DEF ChargesAreAccountedFor, UnresolvedIsTracked,
       ResultsAreTheProviders, ContestedDeclinesAreReviewed
  <2> QED
    BY <2>3, <2>4, <2>5, <2>7, <2>8
<1> QED
  BY <1>4, <1>5

\* The watchdog: an attempt whose request never came back.
LEMMA PromoteStaleCreatedIsSound ==
  ASSUME CloudInv, PromoteStaleCreated
  PROVE  CloudInv'
<1> USE DEF CloudInv
<1>1. /\ row.status = "CREATED" /\ row'.status = "UNKNOWN" /\ row'.ref = row.ref
      /\ job'.status = "MANUAL_REVIEW"
      /\ UNCHANGED <<request, owner, event, check, charge, cloudOutage>> /\ rail' = rail
  BY DEF PromoteStaleCreated, JobIs, CloudTypeOK, rail
<1>2. CloudTypeOK'
  BY CloudNextType DEF CloudNext
<1>3. ReferenceIsSound' /\ OneChargeIsAsked' /\ OwnerIsSound'
  BY <1>1 DEF ReferenceIsSound, OneChargeIsAsked, OwnerIsSound, NoRow
<1>4. EventsAreSound' /\ ChecksAreSound'
  BY <1>1 DEF EventsAreSound, EventIsSound, ChecksAreSound, CheckIsSound
<1>5. ChargesAreAccountedFor'
  BY <1>1 DEF ChargesAreAccountedFor, UnresolvedIsTracked, ResultsAreTheProviders,
     ContestedDeclinesAreReviewed
<1> QED
  BY <1>2, <1>3, <1>4, <1>5

\* A check that begins, and one that hears from the provider: nothing else changes.
LEMMA CheckGoesOnSoundly ==
  ASSUME CloudInv, NEW k \in Checkers, BeginCheck(k) \/ ProviderReplies(k)
  PROVE  CloudInv'
<1> USE DEF CloudInv
<1>1. UNCHANGED <<request, row, job, owner, event, charge, cloudOutage>> /\ rail' = rail
  BY DEF BeginCheck, ProviderReplies, rail
<1>2. CloudTypeOK'
  BY CloudNextType DEF CloudNext
<1>3. \A j \in Checkers : j # k => check'[j] = check[j]
  BY DEF BeginCheck, ProviderReplies, CloudTypeOK
<1>4. CheckIsSound(k)'
  <2>1. CASE BeginCheck(k)
    <3>1. /\ check'[k].pc = IF row.ref = NoCode THEN "review" ELSE "querying"
          /\ check'[k].ref = row.ref
      BY <2>1 DEF BeginCheck, IdleCheck, CloudTypeOK
    <3>2. k = Timer => row.ref # NoCode
      BY <2>1 DEF BeginCheck, Begins, ChargesAreAccountedFor, UnresolvedIsTracked
    <3>3. row.ref \in Codes \cup {NoCode}
      BY DEF CloudTypeOK
    <3> QED
      BY <1>1, <3>1, <3>2, <3>3 DEF CheckIsSound
  <2>2. CASE ProviderReplies(k)
    <3> DEFINE c == check[k].ref
    <3>1. PICK v \in StatusOf(c) : check' = [check EXCEPT ![k] =
            [@ EXCEPT !.pc = "replied", !.status = v.status, !.right = v.right]]
      BY <2>2 DEF ProviderReplies
    <3>2. /\ check'[k].pc = "replied" /\ check'[k].ref = c
          /\ check'[k].status = v.status /\ check'[k].right = v.right
      BY <3>1 DEF CloudTypeOK
    <3>3. c \in Codes /\ c = row.ref
      BY <2>2 DEF ProviderReplies, ChecksAreSound, CheckIsSound
    <3>4. rail = "mpesa" => charge[c] \in {"asked", "paid", "declined"}
      BY <3>3 DEF CloudTypeOK, ReferenceIsSound, OneChargeIsAsked
    <3>5. /\ v.status \in {"PENDING", "SUCCEEDED", "FAILED", "UNKNOWN"}
          /\ rail # "mpesa" => /\ v.status \in {"SUCCEEDED", "UNKNOWN"}
                               /\ v.status = "SUCCEEDED" /\ v.right => charge[c] = "paid"
          /\ rail = "mpesa" =>
               /\ v.status = "FAILED" => charge[c] = "declined"
               /\ v.status = "SUCCEEDED" => charge[c] \notin {"asked", "declined"}
      BY ReplyTypes
    <3> HIDE DEF c
    <3> QED
      BY <1>1, <3>2, <3>3, <3>4, <3>5 DEF CheckIsSound
  <2> QED
    BY <2>1, <2>2
<1>5. ChecksAreSound'
  BY <1>1, <1>3, <1>4 DEF ChecksAreSound, CheckIsSound
<1>6. /\ ReferenceIsSound' /\ OneChargeIsAsked' /\ OwnerIsSound' /\ EventsAreSound'
      /\ ChargesAreAccountedFor'
  BY <1>1 DEF ReferenceIsSound, OneChargeIsAsked, OwnerIsSound, EventsAreSound, EventIsSound,
     ChargesAreAccountedFor, UnresolvedIsTracked, ResultsAreTheProviders,
     ContestedDeclinesAreReviewed
<1> QED
  BY <1>2, <1>5, <1>6

\* A check that ends without an answer: only the timer's asks for another try, and
\* its attempt has a reference, so that it is no contested decline.
LEMMA CheckEndsSoundly ==
  ASSUME CloudInv, NEW k \in Checkers, SendToReview(k) \/ CheckFails(k)
  PROVE  CloudInv'
<1> USE DEF CloudInv
<1>1. /\ check' = [check EXCEPT ![k] = IdleCheck]
      /\ UNCHANGED <<request, row, owner, event, charge, cloudOutage>> /\ rail' = rail
  BY DEF SendToReview, CheckFails, rail
<1>2. CloudTypeOK'
  BY CloudNextType DEF CloudNext
<1>3. \/ job'.status = "MANUAL_REVIEW"
      \/ job'.status = "PENDING" /\ k = Timer /\ check[k].pc # "idle"
      \/ job' = job
  BY DEF SendToReview, CheckFails, JobIs, Retried, CloudTypeOK
<1>4. k = Timer /\ check[k].pc # "idle" => row.ref # NoCode
  BY DEF ChecksAreSound, CheckIsSound, CloudTypeOK
<1>5. ChecksAreSound'
  BY <1>1 DEF ChecksAreSound, CheckIsSound, IdleCheck, CloudTypeOK
<1>6. ReferenceIsSound' /\ OneChargeIsAsked' /\ OwnerIsSound' /\ EventsAreSound'
  BY <1>1 DEF ReferenceIsSound, OneChargeIsAsked, OwnerIsSound, EventsAreSound, EventIsSound
<1>7. UnresolvedIsTracked' /\ ResultsAreTheProviders'
  BY <1>1, <1>3, <1>4 DEF ChargesAreAccountedFor, UnresolvedIsTracked, ResultsAreTheProviders
<1>8. ContestedDeclinesAreReviewed'
  <2>1. ASSUME NEW c \in Codes, row.status = "FAILED",
               event[c].pc = "linked", event[c].status = "SUCCEEDED"
        PROVE  job.status = "MANUAL_REVIEW" /\ row.ref = NoCode
    BY <2>1 DEF ChargesAreAccountedFor, ContestedDeclinesAreReviewed, EventsAreSound,
       EventIsSound, ReferenceIsSound
  <2> QED
    BY <1>1, <1>3, <1>4, <2>1 DEF ContestedDeclinesAreReviewed
<1> QED
  BY <1>2, <1>5, <1>6, <1>7, <1>8 DEF ChargesAreAccountedFor

\* The second half of a status check, whatever happened since the first.
LEMMA ApplyReplyIsSound ==
  ASSUME CloudInv, NEW k \in Checkers, ApplyReply(k)
  PROVE  CloudInv'
<1> USE DEF CloudInv
<1> DEFINE c == check[k].ref
           status == check[k].status
           right == check[k].right
<1>1. /\ check[k].pc = "replied" /\ check' = [check EXCEPT ![k] = IdleCheck]
      /\ UNCHANGED <<request, owner, event, charge, cloudOutage>> /\ rail' = rail
  BY DEF ApplyReply, rail
<1>2. CloudTypeOK'
  BY CloudNextType DEF CloudNext
<1>3. \A j \in Checkers : check'[j] = check[j] \/ check'[j] = IdleCheck
  BY <1>1 DEF CloudTypeOK
<1>4. CASE row.status \in Unresolved
  <2>1. /\ row' = RowAfter(c, status, right)
        /\ \/ job' = JobAfter(c, status, right)
           \/ /\ Applies(c, status, right) /\ status \notin Terminal
              /\ job' = Retried(job)
    BY <1>4 DEF ApplyReply
  <2>2. /\ c \in Codes /\ c = row.ref /\ c # NoCode /\ right \in BOOLEAN
        /\ status \in {"PENDING", "SUCCEEDED", "FAILED", "UNKNOWN"}
        /\ status = "SUCCEEDED" /\ right => charge[c] = "paid"
        /\ status \notin {"SUCCEEDED", "UNKNOWN"} => rail = "mpesa"
        /\ status = "FAILED" => charge[c] = "declined"
    BY <1>1 DEF ChecksAreSound, CheckIsSound, CloudTypeOK
  <2>3. row.status # NoRow /\ row.status \notin Terminal
    BY <1>4, CloudStatesAreDistinct
  <2>4. rail # "external_terminal" /\ (rail = "mpesa" => charge[c] # "none")
    BY <2>2, <2>3 DEF ReferenceIsSound
  <2> HIDE DEF c, status, right
  <2>5. /\ ReferenceIsSound' /\ ResultsAreTheProviders'
        /\ row.ref # NoCode => row'.ref = row.ref
        /\ row'.status \in PaymentAttemptStates
        /\ rail = "pesapal_sabi" => row'.status \in {"UNKNOWN", "SUCCEEDED", "FAILED"}
        /\ Applies(c, status, right) => row'.status = status /\ row'.ref = c
    BY <1>1, <2>1, <2>2, <2>3, <2>4, AppliedTruth
  <2>6. /\ UnresolvedIsTracked'
        /\ rail # "mpesa" /\ row'.status = "FAILED" => job'.status = "MANUAL_REVIEW"
    BY <2>1, <2>2, <2>5, AppliedTruthIsTracked
  <2>7. /\ OneChargeIsAsked' /\ OwnerIsSound'
        /\ \A d \in Codes : EventIsSound(d)'
        /\ \A j \in Checkers : check'[j] = check[j] => CheckIsSound(j)'
    BY <1>1, <2>2, <2>3, <2>4, <2>5, AppliedTruthIsShared
  <2>8. ChecksAreSound'
    BY <1>3, <2>7 DEF ChecksAreSound, CheckIsSound, IdleCheck
  <2>9. ContestedDeclinesAreReviewed'
    BY <1>1, <2>6, <2>7 DEF ContestedDeclinesAreReviewed, EventIsSound
  <2> QED
    BY <1>2, <2>5, <2>6, <2>7, <2>8, <2>9 DEF EventsAreSound, ChargesAreAccountedFor
<1>5. CASE row.status \notin Unresolved
  <2>1. UNCHANGED <<row, job>>
    BY <1>5 DEF ApplyReply
  <2>2. ChecksAreSound'
    BY <1>1, <1>3, <2>1 DEF ChecksAreSound, CheckIsSound, IdleCheck
  <2>3. /\ ReferenceIsSound' /\ OneChargeIsAsked' /\ OwnerIsSound' /\ EventsAreSound'
        /\ ChargesAreAccountedFor'
    BY <1>1, <2>1 DEF ReferenceIsSound, OneChargeIsAsked, OwnerIsSound, EventsAreSound,
       EventIsSound, ChargesAreAccountedFor, UnresolvedIsTracked, ResultsAreTheProviders,
       ContestedDeclinesAreReviewed
  <2> QED
    BY <1>2, <2>2, <2>3
<1> QED
  BY <1>4, <1>5

\* A supervisor decides.
LEMMA ConfirmManuallyIsSound ==
  ASSUME CloudInv, NEW c \in Codes, NEW outcome \in DOMAIN ResultOf, ConfirmManually(outcome, c)
  PROVE  CloudInv'
<1> USE DEF CloudInv
<1>1. /\ row.status \in {"CREATED", "INITIATED", "PENDING"} /\ job'.status = "RESOLVED"
      /\ UNCHANGED <<request, owner, event, check, charge, cloudOutage>> /\ rail' = rail
  BY DEF ConfirmManually, JobIs, CloudTypeOK, rail
<1>2. CloudTypeOK'
  BY CloudNextType DEF CloudNext
<1>3. c # NoCode /\ row'.status \in {"SUCCEEDED", "FAILED"}
  BY DEF ConfirmManually, ResultOf, CloudTypeOK
<1>4. \/ /\ rail = "external_terminal" /\ row'.ref = c
         /\ row'.status = "SUCCEEDED" => charge[c] = "paid"
      \/ /\ rail = "pesapal_sabi" /\ row.ref = NoCode
         /\ row'.status = "FAILED" /\ row'.ref = NoCode
  BY DEF ConfirmManually, ResultOf, CloudTypeOK
<1>5. row.ref = NoCode
  BY <1>1, <1>4 DEF ReferenceIsSound, Terminal
<1>6. ReferenceIsSound' /\ OneChargeIsAsked' /\ OwnerIsSound'
  BY <1>1, <1>3, <1>4 DEF ReferenceIsSound, OneChargeIsAsked, OwnerIsSound, Terminal, NoRow
<1>7. \A d \in Codes : event[d].pc # "linked"
  BY <1>1, <1>4 DEF EventsAreSound, EventIsSound
<1>8. EventsAreSound'
  BY <1>1, <1>7 DEF EventsAreSound, EventIsSound
<1>9. ChecksAreSound'
  <2>1. \A k \in Checkers : check[k].pc \notin {"querying", "replied"}
    BY <1>5 DEF ChecksAreSound, CheckIsSound
  <2> QED
    BY <1>1, <2>1 DEF ChecksAreSound, CheckIsSound
<1>10. ChargesAreAccountedFor'
  BY <1>1, <1>3, <1>4, <1>7 DEF ChargesAreAccountedFor, UnresolvedIsTracked,
     ResultsAreTheProviders, ContestedDeclinesAreReviewed, Unresolved
<1> QED
  BY <1>2, <1>6, <1>8, <1>9, <1>10

\* The provider charges, whether or not the Cloud hears of it.
LEMMA ChargeIsSound ==
  ASSUME CloudInv, NEW c \in Codes, NEW result \in {"paid", "mispaid", "declined"}, Charge(c, result)
  PROVE  CloudInv'
<1> USE DEF CloudInv
<1>1. UNCHANGED <<request, row, job, owner, event, check, cloudOutage>> /\ rail' = rail
  BY DEF Charge, rail
<1>2. CloudTypeOK'
  BY CloudNextType DEF CloudNext
<1>3. charge'[c] = result /\ \A d \in Codes : d # c => charge'[d] = charge[d]
  BY DEF Charge, CloudTypeOK
<1>4. /\ rail = "mpesa" => charge[c] = "asked" /\ result # "mispaid"
      /\ rail # "mpesa" => charge[c] = "none"
  BY DEF Charge
<1>5. \A d \in Codes : /\ charge[d] = "paid" => charge'[d] = "paid"
                       /\ charge[d] = "declined" => charge'[d] = "declined"
                       /\ charge[d] # "none" => charge'[d] # "none"
  BY <1>3, <1>4
<1>6. row.ref \in Codes \cup {NoCode} /\ owner.ref \in Codes \cup {NoCode}
  BY DEF CloudTypeOK
<1>7. ReferenceIsSound'
  BY <1>1, <1>5, <1>6 DEF ReferenceIsSound
<1>8. OneChargeIsAsked'
  BY <1>1, <1>3, <1>4 DEF OneChargeIsAsked
<1>9. OwnerIsSound'
  BY <1>1, <1>4, <1>5, <1>6 DEF OwnerIsSound
<1>10. EventsAreSound'
  BY <1>1, <1>5 DEF EventsAreSound, EventIsSound
<1>11. ChecksAreSound'
  BY <1>1, <1>5 DEF ChecksAreSound, CheckIsSound
<1>12. ChargesAreAccountedFor'
  <2>1. ResultsAreTheProviders'
    BY <1>1, <1>4, <1>5 DEF ChargesAreAccountedFor, ResultsAreTheProviders
  <2> QED
    BY <1>1, <2>1 DEF ChargesAreAccountedFor, UnresolvedIsTracked, ContestedDeclinesAreReviewed
<1> QED
  BY <1>2, <1>7, <1>8, <1>9, <1>10, <1>11, <1>12

\* Every action of the specification keeps the invariant.
LEMMA NextIsSound == CloudInv /\ [CloudNext]_cloudVars => CloudInv'
<1> SUFFICES ASSUME CloudInv, [CloudNext]_cloudVars PROVE CloudInv'
  OBVIOUS
<1>1. CASE Initiate
  BY <1>1, InitiateIsSound
<1>2. CASE MpesaAnswers \/ RejectUnsent \/ TerminalAnswers
  BY <1>2, AnswerIsSound
<1>3. CASE ApplyInitiationResult
  BY <1>3, ApplyInitiationResultIsSound
<1>4. CASE FindUnmatched \/ InitiationEnds \/ Crash \/ CloudOutageEnds \/ UNCHANGED cloudVars
  BY <1>4, QuietStepIsSound
<1>5. CASE PromoteStaleCreated
  BY <1>5, PromoteStaleCreatedIsSound
<1>6. ASSUME NEW c \in Codes, ReplayEvent(c) \/ Notify(c) \/ CommitUnmatched(c)
      PROVE  CloudInv'
  BY <1>6, ReplayEventIsSound, NotifyIsSound, QuietStepIsSound
<1>7. ASSUME NEW k \in Checkers,
             \/ BeginCheck(k) \/ SendToReview(k) \/ ProviderReplies(k) \/ ApplyReply(k)
             \/ CheckFails(k)
      PROVE  CloudInv'
  BY <1>7, CheckGoesOnSoundly, CheckEndsSoundly, ApplyReplyIsSound
<1>8. ASSUME NEW c \in Codes, NEW outcome \in DOMAIN ResultOf, ConfirmManually(outcome, c)
      PROVE  CloudInv'
  BY <1>8, ConfirmManuallyIsSound
<1>9. ASSUME NEW c \in Codes, NEW result \in {"paid", "mispaid", "declined"}, Charge(c, result)
      PROVE  CloudInv'
  BY <1>9, ChargeIsSound
<1> QED
  BY <1>1, <1>2, <1>3, <1>4, <1>5, <1>6, <1>7, <1>8, <1>9 DEF CloudNext

-----------------------------------------------------------------------------
(* The theorems.                                                            *)

\* The invariant holds of every attempt, whatever order the requests, the
\* notifications, the checks, the watchdog and the crashes come in.
THEOREM SpecIsSound == CloudSpec => []CloudInv
<1>1. CloudInit => CloudInv
  BY InitIsSound
<1>2. CloudInv /\ [CloudNext]_cloudVars => CloudInv'
  BY NextIsSound
<1> QED
  BY <1>1, <1>2, PTL DEF CloudSpec

\* Every variable keeps its type; no job is retried more often than the limit.
THEOREM CloudPaymentsTypes == CloudSpec => []CloudTypeOK
<1>1. CloudInv => CloudTypeOK
  BY DEF CloudInv
<1> QED
  BY <1>1, SpecIsSound, PTL

\* No charge goes unnoticed and no result is made up: attempts without a result
\* are tracked, results are the provider's, contested declines go to people.
THEOREM CloudAccountsForCharges == CloudSpec => []ChargesAreAccountedFor
<1>1. CloudInv => ChargesAreAccountedFor
  BY DEF CloudInv
<1> QED
  BY <1>1, SpecIsSound, PTL

-----------------------------------------------------------------------------
(* The refinement of PaymentTruth.                                          *)

\* What a provider said moves the row along AllowedTransitions, and never to
\* another reference.
LEMMA AppliedTruthMoves ==
  ASSUME row \in RowType, row.status # NoRow, NEW c \in Codes,
         NEW status \in PaymentAttemptStates, NEW right \in BOOLEAN,
         row' = RowAfter(c, status, right)
  PROVE  /\ row.ref # NoCode => row'.ref = row.ref
         /\ row'.status \in PaymentAttemptStates /\ CanTransition(row.status, row'.status)
<1>1. row.status \in PaymentAttemptStates
  BY DEF RowType
<1>2. CanTransition(row.status, row.status)
  BY DEF CanTransition
<1>3. CASE Contradicts(c, right)
  <2> DEFINE next == IF row.status \in Terminal THEN row.status ELSE "UNKNOWN"
  <2>1. row'.status = next /\ row'.ref = row.ref
    BY <1>3 DEF RowAfter, RowType
  <2>2. next \in PaymentAttemptStates /\ CanTransition(row.status, next)
    BY <1>1 DEF CanTransition, AllowedTransitions, PaymentAttemptStates, Terminal
  <2> QED
    BY <2>1, <2>2
<1>4. CASE ~Contradicts(c, right)
  <2>1. row.ref # NoCode => row.ref = c
    BY <1>4 DEF Contradicts
  <2> QED
    BY <1>1, <1>2, <1>4, <2>1 DEF RowAfter
<1> QED
  BY <1>3, <1>4

\* A step of the Cloud is a step of the abstract attempt, or none.
LEMMA RowMoves ==
  ASSUME CloudInv, [CloudNext]_cloudVars
  PROVE  /\ row.ref # NoCode => row'.ref = row.ref
         /\ \/ row'.status = row.status
            \/ row.status = NoRow /\ row'.status = "CREATED"
            \/ /\ row.status # NoRow /\ row'.status \in PaymentAttemptStates
               /\ CanTransition(row.status, row'.status)
<1> USE DEF CloudInv
<1>0. row \in RowType
  BY DEF CloudTypeOK, RowType
<1>1. CASE Initiate
  BY <1>0, <1>1 DEF Initiate, RowType
<1>2. CASE ApplyInitiationResult
  <2>1. owner.status \in {"PENDING", "FAILED", "UNKNOWN"}
    BY <1>2 DEF ApplyInitiationResult, OwnerIsSound, CloudTypeOK
  <2>2. row.status = "CREATED" => row.ref = NoCode /\ row.status # NoRow
    BY DEF ReferenceIsSound, NoRow
  <2> QED
    BY <1>2, <2>1, <2>2
       DEF ApplyInitiationResult, CanTransition, AllowedTransitions, PaymentAttemptStates
<1>3. CASE PromoteStaleCreated
  <2>1. row.status = "CREATED" /\ row'.status = "UNKNOWN" /\ row'.ref = row.ref
    BY <1>0, <1>3 DEF PromoteStaleCreated, RowType
  <2> QED
    BY <2>1 DEF CanTransition, AllowedTransitions, PaymentAttemptStates, NoRow
<1>4. ASSUME NEW c \in Codes, ReplayEvent(c) \/ Notify(c) \/ CommitUnmatched(c)
      PROVE  \/ UNCHANGED row
             \/ row.status # NoRow /\ \E status \in PaymentAttemptStates, right \in BOOLEAN :
                  row' = RowAfter(c, status, right)
  <2>1. CASE ReplayEvent(c)
    <3>1. event[c].pc = "unmatched" /\ row.status # NoRow
      BY <2>1 DEF ReplayEvent, OwnerIsSound
    <3>2. event[c].status \in PaymentAttemptStates /\ event[c].right \in BOOLEAN
      BY <3>1 DEF EventsAreSound, EventIsSound, CloudTypeOK, PaymentAttemptStates
    <3> QED
      BY <2>1, <3>1, <3>2 DEF ReplayEvent
  <2>2. CASE Notify(c)
    <3>1. PICK v \in Verified(c) :
            IF Matches(c) THEN row' = RowAfter(c, v.status, v.right) ELSE UNCHANGED row
      BY <2>2 DEF Notify
    <3>2. v.status \in PaymentAttemptStates /\ v.right \in BOOLEAN
      BY NotificationTypes DEF Verdicts
    <3>3. Matches(c) => row.status # NoRow
      BY DEF Matches, ReferenceIsSound
    <3> QED
      BY <3>1, <3>2, <3>3
  <2>3. CASE CommitUnmatched(c)
    BY <2>3 DEF CommitUnmatched
  <2> QED
    BY <1>4, <2>1, <2>2, <2>3
<1>5. ASSUME NEW k \in Checkers, ApplyReply(k)
      PROVE  \/ UNCHANGED row
             \/ /\ row.status # NoRow
                /\ \E c \in Codes, status \in PaymentAttemptStates, right \in BOOLEAN :
                     row' = RowAfter(c, status, right)
  <2>1. /\ check[k].ref \in Codes /\ check[k].status \in PaymentAttemptStates
        /\ check[k].right \in BOOLEAN
    BY <1>5 DEF ApplyReply, ChecksAreSound, CheckIsSound, CloudTypeOK, PaymentAttemptStates
  <2> QED
    BY <1>5, <2>1, CloudStatesAreDistinct DEF ApplyReply
<1>6. ASSUME NEW c \in Codes, NEW outcome \in DOMAIN ResultOf, ConfirmManually(outcome, c)
      PROVE  /\ row.ref = NoCode /\ row.status \in {"CREATED", "INITIATED", "PENDING"}
             /\ row'.status \in {"SUCCEEDED", "FAILED"}
  BY <1>0, <1>6 DEF ConfirmManually, ResultOf, RowType, ReferenceIsSound, Terminal
<1>7. ASSUME NEW c \in Codes, NEW outcome \in DOMAIN ResultOf, ConfirmManually(outcome, c)
      PROVE  /\ row.ref = NoCode /\ row.status # NoRow
             /\ row'.status \in PaymentAttemptStates /\ CanTransition(row.status, row'.status)
  BY <1>6, <1>7 DEF CanTransition, AllowedTransitions, PaymentAttemptStates, NoRow
<1>8. ASSUME ~Initiate, ~ApplyInitiationResult, ~PromoteStaleCreated,
             \A c \in Codes : ~ReplayEvent(c) /\ ~Notify(c) /\ ~CommitUnmatched(c),
             \A k \in Checkers : ~ApplyReply(k),
             \A c \in Codes, outcome \in DOMAIN ResultOf : ~ConfirmManually(outcome, c)
      PROVE  UNCHANGED row
  BY <1>8 DEF CloudNext, cloudVars, MpesaAnswers, RejectUnsent, TerminalAnswers, FindUnmatched,
     InitiationEnds, BeginCheck, SendToReview, ProviderReplies, CheckFails, Charge, Crash,
     CloudOutageEnds
<1> QED
  BY <1>0, <1>1, <1>2, <1>3, <1>4, <1>5, <1>7, <1>8, AppliedTruthMoves

\* To the registers and the Edge an attempt moves as PaymentTruth says, and it
\* never changes its provider reference: applyProviderTruth, whoever calls it.
THEOREM CloudImplementsTruth == CloudSpec => ImplementsTruth
<1> DEFINE state == [a \in {1} |-> row.status]
<1>1. CloudInit => Truth!TruthInit
  <2>1. NoRow = Truth!NoRow
    BY DEF NoRow, Truth!NoRow
  <2> QED
    BY <2>1 DEF CloudInit, Truth!TruthInit
<1>2. ASSUME CloudInv, [CloudNext]_cloudVars
      PROVE  [Truth!TruthNext]_state /\ (row.ref # NoCode => row'.ref = row.ref)
  <2>1. NoRow = Truth!NoRow /\ PaymentAttemptStates = Truth!PaymentAttemptStates
        /\ \A from, to : CanTransition(from, to) <=> Truth!CanTransition(from, to)
    BY DEF NoRow, Truth!NoRow, PaymentAttemptStates, Truth!PaymentAttemptStates,
       CanTransition, Truth!CanTransition, AllowedTransitions, Truth!AllowedTransitions
  <2>2. /\ row.ref # NoCode => row'.ref = row.ref
        /\ \/ row'.status = row.status
           \/ row.status = NoRow /\ row'.status = "CREATED"
           \/ /\ row.status # NoRow /\ row'.status \in PaymentAttemptStates
              /\ CanTransition(row.status, row'.status)
    BY <1>2, RowMoves
  <2>3. state[1] = row.status /\ state'[1] = row'.status
        /\ \A x : [state EXCEPT ![1] = x] = [a \in {1} |-> x]
    OBVIOUS
  <2>4. CASE row'.status = row.status
    BY <2>2, <2>4
  <2>5. CASE row.status = NoRow /\ row'.status = "CREATED"
    BY <2>1, <2>2, <2>5 DEF Truth!TruthNext, Truth!Appear
  <2>6. CASE row.status # NoRow /\ row'.status \in PaymentAttemptStates
             /\ CanTransition(row.status, row'.status)
    BY <2>1, <2>2, <2>6 DEF Truth!TruthNext, Truth!Move
  <2> QED
    BY <2>2, <2>4, <2>5, <2>6
<1>3. ASSUME CloudInv, [CloudNext]_cloudVars
      PROVE  [row.ref # NoCode => row'.ref = row.ref]_cloudVars
  BY <1>2, <1>3
<1> QED
  BY <1>1, <1>2, <1>3, SpecIsSound, PTL
     DEF CloudSpec, ImplementsTruth, Truth!TruthSpec, ReferenceIsFinal
=============================================================================
