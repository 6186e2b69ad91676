---------------------------- MODULE CloudPayments ----------------------------
(***************************************************************************)
(* One payment attempt at the Cloud, from the request that creates it to   *)
(* its result.  Its row and its reconciliation job are written by the      *)
(* request that owns the initiation, by provider notifications, by status  *)
(* queries of the timer and of the register, by the watchdog for           *)
(* initiations that never ended, and by a supervisor.  Each transaction    *)
(* locks the row; a call of the provider stands between two transactions.  *)
(*                                                                          *)
(* `charge' is the truth outside: what happened at the provider, or on the *)
(* card terminal, under each provider reference.  For M-PESA the Cloud asks *)
(* for the charge; a terminal is charged by the cashier, at any time, and   *)
(* perhaps twice.  Attempts do not interact, so one is enough.              *)
(***************************************************************************)
EXTENDS Naturals, PaymentStates

CONSTANTS
  Codes,       \* provider references: CheckoutRequestIDs, confirmation codes
  Checkers,    \* status checks that can run at a time
  Timer,       \* the one of them that reconcileDue starts
  RetryLimit   \* failed checks until an attempt is left to people (6)

NoCode == "NO_CODE"

ASSUME CloudPaymentsAssumption ==
  /\ NoCode \notin Codes /\ Codes # {}
  /\ Timer \in Checkers
  /\ RetryLimit \in Nat \ {0}

Rails == {"mpesa", "pesapal_sabi", "external_terminal"}

\* An initiation as far as the Cloud looks at it.  A phone stands for all that
\* M-PESA wants of one, whole shillings too; the reference is the one that the
\* till keys into its terminal.
Requests == [rail : Rails, phone : BOOLEAN, reference : {"attempt", "other"}]

VARIABLES
  request,  \* what the register asks for: its columns never change
  row,      \* payment_attempts: status and provider_reference
  job,      \* payment_reconciliation_jobs: status and attempt_count
  owner,    \* the request that created the row: where it is, the provider's answer
  event,    \* payment_provider_events and the transactions that insert them
  check,    \* reconcileAttempt calls
  charge,   \* provider: what happened under each reference
  cloudOutage    \* calls may fail or be lost and the Cloud may stop

cloudVars == <<request, row, job, owner, event, check, charge, cloudOutage>>

rail == request.rail

NoOwner == [pc |-> "none", status |-> NoRow, ref |-> NoCode, todo |-> {}]
IdleCheck == [pc |-> "idle", ref |-> NoCode, status |-> NoRow, right |-> TRUE]
NoEvent == [pc |-> "none", status |-> NoRow, right |-> TRUE]

CloudInit ==
  /\ request \in Requests
  /\ row = [status |-> NoRow, ref |-> NoCode]
  /\ job = [status |-> NoRow, tries |-> 0]
  /\ owner = NoOwner
  /\ event = [c \in Codes |-> NoEvent]
  /\ check = [k \in Checkers |-> IdleCheck]
  /\ charge = [c \in Codes |-> "none"]
  /\ cloudOutage = TRUE

-----------------------------------------------------------------------------
(* What a provider says, written to the row and the job.                    *)

\* upsertReconciliationJob keeps the number of tries.
JobIs(status) == [job EXCEPT !.status = status]

\* Mutant of Contradicts: any reference is taken.
ContradictsInAmount(c, right) == ~right

\* The reference, the merchant reference, the amount or the currency differ.
Contradicts(c, right) == (row.ref # NoCode /\ row.ref # c) \/ ~right

\* Mutant of RowAfter: a result may be replaced by a later one.
RowAfterLast(c, status, right) ==
  IF Contradicts(c, right)
  THEN [row EXCEPT !.status = IF @ \in Terminal THEN @ ELSE "UNKNOWN"]
  ELSE [status |-> status, ref |-> c]

\* applyProviderTruth: the row ...
RowAfter(c, status, right) ==
  IF Contradicts(c, right)
  THEN [row EXCEPT !.status = IF @ \in Terminal THEN @ ELSE "UNKNOWN"]
  ELSE IF CanTransition(row.status, status) THEN [status |-> status, ref |-> c]
  ELSE row

Applies(c, status, right) ==
  ~Contradicts(c, right) /\ CanTransition(row.status, status)

\* Mutant of JobAfter: what cannot be applied is ignored.
JobAfterApplied(c, status, right) ==
  IF ~Applies(c, status, right) THEN job
  ELSE JobIs(IF status \in Terminal THEN "RESOLVED" ELSE "PENDING")

\* ... and the job.
JobAfter(c, status, right) ==
  JobIs(IF ~Applies(c, status, right) THEN "MANUAL_REVIEW"
        ELSE IF status \in Terminal THEN "RESOLVED" ELSE "PENDING")

\* Mutant of Retried: nobody counts.
RetriedForever(j) == [status |-> "PENDING", tries |-> j.tries + 1]

\* scheduleRetry, with bounded backoff.
Retried(j) ==
  IF j.tries + 1 >= RetryLimit THEN [j EXCEPT !.status = "MANUAL_REVIEW"]
  ELSE [status |-> "PENDING", tries |-> j.tries + 1]

-----------------------------------------------------------------------------
(* Initiation.                                                               *)

\* What a request is held to before anything is written.
Parsed(q) ==
  /\ q.phone => q.rail = "mpesa"
  /\ q.rail = "pesapal_sabi" => q.reference = "attempt"

\* Only the request that inserts the row calls the provider; a repeated one
\* returns the row as it is.
Initiate ==
  /\ Parsed(request)
  /\ row.status = NoRow
  /\ row' = [row EXCEPT !.status = "CREATED"]
  /\ owner' = [owner EXCEPT !.pc = "calling"]
  /\ UNCHANGED <<request, job, event, check, charge, cloudOutage>>

\* A call of a provider, and the token that M-PESA wants for one, returns a
\* body that can be used, or fails: no answer in time, an HTTP error, no JSON.
Returns == IF cloudOutage THEN BOOLEAN ELSE {TRUE}

\* What M-PESA's adapter makes of the call that asks for a charge.
StkStatus(returned, accepted) ==
  IF ~returned THEN "UNKNOWN" ELSE IF accepted THEN "PENDING" ELSE "FAILED"

Answered(status, c) ==
  owner' = [owner EXCEPT !.pc = "answered", !.status = status, !.ref = c]

\* M-PESA accepts the request under a reference, which may be lost on the way
\* back, rejects it, or is never reached.
MpesaAnswers ==
  /\ rail = "mpesa" /\ owner.pc = "calling" /\ request.phone
  /\ \E returned \in Returns :
       \/ \E c \in Codes :
            /\ charge' = [charge EXCEPT ![c] = "asked"]
            /\ Answered(StkStatus(returned, TRUE), IF returned THEN c ELSE NoCode)
       \/ Answered(StkStatus(returned, FALSE), NoCode) /\ UNCHANGED charge
  /\ UNCHANGED <<request, row, job, event, check, cloudOutage>>

\* A request without a phone is rejected before it is sent.
RejectUnsent ==
  /\ rail = "mpesa" /\ owner.pc = "calling" /\ ~request.phone
  /\ Answered("FAILED", NoCode)
  /\ UNCHANGED <<request, row, job, event, check, charge, cloudOutage>>

\* A terminal is not called: the attempt waits for its notification.
TerminalAnswers ==
  /\ rail # "mpesa" /\ owner.pc = "calling"
  /\ Answered("PENDING", NoCode)
  /\ UNCHANGED <<request, row, job, event, check, charge, cloudOutage>>

\* Mutant of InitiationJob: without a reference there is nothing to reconcile.
InitiationJobOfReference(status, c) ==
  IF c # NoCode THEN JobIs(IF status = "FAILED" THEN "RESOLVED" ELSE "PENDING") ELSE job

InitiationJob(status, c) ==
  JobIs(IF status = "FAILED" THEN "RESOLVED"
        ELSE IF c # NoCode THEN "PENDING" ELSE "MANUAL_REVIEW")

ApplyInitiationResult ==
  /\ owner.pc = "answered"
  /\ IF row.status = "CREATED"
     THEN /\ row' = [status |-> owner.status, ref |-> owner.ref]
          /\ job' = InitiationJob(owner.status, owner.ref)
     ELSE UNCHANGED <<row, job>>
  /\ owner' = [owner EXCEPT !.pc = "applied"]
  /\ UNCHANGED <<request, event, check, charge, cloudOutage>>

\* A notification of M-PESA is matched by the provider's reference, a card's by
\* the one that the till keyed, taken for the attempt's id.
Matches(c) ==
  IF rail = "mpesa" THEN row.ref = c
  ELSE row.status # NoRow /\ request.reference = "attempt"

\* applyUnmatchedCallbacks: the query, then a transaction for each event.
FindUnmatched ==
  /\ owner.pc = "applied"
  /\ owner' = [owner EXCEPT !.pc = "replaying",
                 !.todo = {c \in Codes : event[c].pc = "unmatched" /\ Matches(c)}]
  /\ UNCHANGED <<request, row, job, event, check, charge, cloudOutage>>

ReplayEvent(c) ==
  /\ owner.pc = "replaying" /\ c \in owner.todo
  /\ owner' = [owner EXCEPT !.todo = @ \ {c}]
  /\ event' = [event EXCEPT ![c].pc = "linked"]
  /\ row' = RowAfter(c, event[c].status, event[c].right)
  /\ job' = JobAfter(c, event[c].status, event[c].right)
  /\ UNCHANGED <<request, check, charge, cloudOutage>>

InitiationEnds ==
  /\ \/ owner.pc = "replaying" /\ owner.todo = {}
     \/ owner.pc # "none" /\ cloudOutage
  /\ owner' = NoOwner
  /\ UNCHANGED <<request, row, job, event, check, charge, cloudOutage>>

\* The watchdog, a minute after the row was created.
PromoteStaleCreated ==
  /\ row.status = "CREATED"
  /\ owner.pc \in {"calling", "answered"} => cloudOutage
  /\ row' = [row EXCEPT !.status = "UNKNOWN"]
  /\ job' = JobIs("MANUAL_REVIEW")
  /\ UNCHANGED <<request, owner, event, check, charge, cloudOutage>>

-----------------------------------------------------------------------------
(* Notifications.                                                            *)

\* verify: a card payment counts when Pesapal has posted it completely, with
\* amount, currency, merchant reference and a card brand.  One that is not posted
\* yet still shows its amount; of a call that fails nothing is known.
Verifications(c) ==
  {[status |-> "SUCCEEDED", right |-> charge[c] = "paid"]} \cup
  (IF cloudOutage THEN {[status |-> "UNKNOWN", right |-> charge[c] = "paid"],
                   [status |-> "UNKNOWN", right |-> TRUE]}
   ELSE {})

\* parseAndVerifyWebhook: M-PESA's callback is never believed, whatever result
\* it names; it carries the amount of a success.
MpesaCallback == {[status |-> "UNKNOWN", right |-> r] : r \in BOOLEAN}

\* A card's is verified with the provider; what that does not say of the amount
\* the notification does.
CardNotification(c) ==
  {[v EXCEPT !.right = charge[c] = "paid"] : v \in Verifications(c)}

Verified(c) == IF rail = "mpesa" THEN MpesaCallback ELSE CardNotification(c)

\* The event is inserted and the attempt looked up in one transaction.  An
\* attempt that is there is locked, and the event is applied to it.
Notify(c) ==
  /\ rail # "external_terminal" /\ event[c].pc = "none"
  /\ charge[c] \in {"paid", "mispaid", "declined"}
  /\ \E v \in Verified(c) :
       /\ event' = [event EXCEPT ![c] =
            [pc |-> IF Matches(c) THEN "linked" ELSE "open",
             status |-> v.status, right |-> v.right]]
       /\ IF Matches(c)
          THEN /\ row' = RowAfter(c, v.status, v.right)
               /\ job' = JobAfter(c, v.status, v.right)
          ELSE UNCHANGED <<row, job>>
  /\ UNCHANGED <<request, owner, check, charge, cloudOutage>>

\* The event of an attempt that was not there becomes visible; a repeated
\* notification is a duplicate from now on.
CommitUnmatched(c) ==
  /\ event[c].pc = "open"
  /\ event' = [event EXCEPT ![c].pc = "unmatched"]
  /\ UNCHANGED <<request, row, job, owner, check, charge, cloudOutage>>

-----------------------------------------------------------------------------
(* Status checks.                                                            *)

Unresolved == {"INITIATED", "PENDING", "UNKNOWN"}

\* Mutant of Begins: only due jobs are checked, whoever asks.
BeginsWhenDue(k) == row.status \in Unresolved /\ job.status = "PENDING"

\* The timer takes due jobs; the register asks whenever the cashier does.
Begins(k) ==
  /\ row.status \in Unresolved
  /\ k = Timer => job.status = "PENDING"

BeginCheck(k) ==
  /\ check[k].pc = "idle" /\ Begins(k)
  /\ check' = [check EXCEPT ![k] =
       [IdleCheck EXCEPT !.pc = IF row.ref = NoCode THEN "review" ELSE "querying",
                         !.ref = row.ref]]
  /\ UNCHANGED <<request, row, job, owner, event, charge, cloudOutage>>

\* There was no reference to ask the provider about.
SendToReview(k) ==
  /\ check[k].pc = "review"
  /\ job' = JobIs("MANUAL_REVIEW")
  /\ check' = [check EXCEPT ![k] = IdleCheck]
  /\ UNCHANGED <<request, row, owner, event, charge, cloudOutage>>

\* Mutant of QueryStatus: a call that fails is a decline.
QueryStatusDeclining(c, returned) ==
  CASE ~returned -> "FAILED"
    [] returned /\ charge[c] = "asked" -> "PENDING"
    [] returned /\ charge[c] = "declined" -> "FAILED"
    [] OTHER -> "SUCCEEDED"

\* M-PESA's answer about a reference: a result, or that the request was taken.
QueryStatus(c, returned) ==
  CASE ~returned -> "UNKNOWN"
    [] returned /\ charge[c] = "asked" -> "PENDING"
    [] returned /\ charge[c] = "declined" -> "FAILED"
    [] OTHER -> "SUCCEEDED"

\* The provider's answer about a reference, or a call that fails.
StatusOf(c) ==
  IF rail = "mpesa"
  THEN {[status |-> QueryStatus(c, returned), right |-> TRUE] : returned \in Returns}
  ELSE Verifications(c)

ProviderReplies(k) ==
  /\ check[k].pc = "querying"
  /\ \E v \in StatusOf(check[k].ref) :
       check' = [check EXCEPT ![k] =
         [@ EXCEPT !.pc = "replied", !.status = v.status, !.right = v.right]]
  /\ UNCHANGED <<request, row, job, owner, event, charge, cloudOutage>>

\* The row is locked and read again before the reply is written.
ApplyReply(k) ==
  /\ check[k].pc = "replied"
  /\ LET c == check[k].ref  status == check[k].status  right == check[k].right IN
     IF row.status \in Unresolved
     THEN /\ row' = RowAfter(c, status, right)
          /\ job' = IF Applies(c, status, right) /\ status \notin Terminal
                    THEN Retried(job) ELSE JobAfter(c, status, right)
     ELSE UNCHANGED <<row, job>>
  /\ check' = [check EXCEPT ![k] = IdleCheck]
  /\ UNCHANGED <<request, owner, event, charge, cloudOutage>>

\* A check that throws: reconcileDue schedules a retry, whatever the row says.
CheckFails(k) ==
  /\ cloudOutage /\ check[k].pc # "idle"
  /\ check' = [check EXCEPT ![k] = IdleCheck]
  /\ job' = IF k = Timer THEN Retried(job) ELSE job
  /\ UNCHANGED <<request, row, owner, event, charge, cloudOutage>>

-----------------------------------------------------------------------------
(* A supervisor's confirmation of a terminal that cannot report for itself.  *)

\* What is written for the outcome that the supervisor records.
ResultOf == [APPROVED |-> "SUCCEEDED", DECLINED |-> "FAILED"]

ConfirmManually(outcome, c) ==
  /\ row.status \in {"CREATED", "INITIATED", "PENDING"}
  /\ \/ /\ rail = "external_terminal"
        /\ outcome = "APPROVED" => charge[c] = "paid"
        /\ row' = [status |-> ResultOf[outcome], ref |-> c]
     \/ /\ rail = "pesapal_sabi" /\ outcome = "DECLINED" /\ row.ref = NoCode
        /\ row' = [row EXCEPT !.status = ResultOf[outcome]]
  /\ job' = JobIs("RESOLVED")
  /\ UNCHANGED <<request, owner, event, check, charge, cloudOutage>>

-----------------------------------------------------------------------------
(* Outside.                                                                  *)

\* A customer answers the M-PESA request, or pays at the terminal, where the
\* cashier keys the amount.
Charge(c, result) ==
  /\ \/ rail = "mpesa" /\ charge[c] = "asked" /\ result \in {"paid", "declined"}
     \/ rail # "mpesa" /\ charge[c] = "none" /\ result \in {"paid", "mispaid"}
  /\ charge' = [charge EXCEPT ![c] = result]
  /\ UNCHANGED <<request, row, job, owner, event, check, cloudOutage>>

\* The Cloud stops: open transactions roll back, calls are forgotten.
Crash ==
  /\ cloudOutage
  /\ owner' = NoOwner
  /\ check' = [k \in Checkers |-> IdleCheck]
  /\ event' = [c \in Codes |-> IF event[c].pc = "open" THEN NoEvent ELSE event[c]]
  /\ UNCHANGED <<request, row, job, charge, cloudOutage>>

CloudOutageEnds ==
  /\ cloudOutage /\ cloudOutage' = FALSE
  /\ UNCHANGED <<request, row, job, owner, event, check, charge>>

CloudNext ==
  \/ Initiate \/ MpesaAnswers \/ RejectUnsent \/ TerminalAnswers \/ ApplyInitiationResult
  \/ FindUnmatched \/ InitiationEnds \/ PromoteStaleCreated
  \/ \E c \in Codes : ReplayEvent(c) \/ Notify(c) \/ CommitUnmatched(c)
  \/ \E k \in Checkers :
       \/ BeginCheck(k) \/ SendToReview(k) \/ ProviderReplies(k) \/ ApplyReply(k)
       \/ CheckFails(k)
  \/ \E c \in Codes, outcome \in DOMAIN ResultOf : ConfirmManually(outcome, c)
  \/ \E c \in Codes, result \in {"paid", "mispaid", "declined"} : Charge(c, result)
  \/ Crash
  \/ CloudOutageEnds

CloudSpec == CloudInit /\ [][CloudNext]_cloudVars

(***************************************************************************)
(* Checks under way end (the provider's calls have timeouts), the register *)
(* keeps asking while its cashier waits, and outages end.                   *)
(***************************************************************************)
CheckGoesOn(k) ==
  SendToReview(k) \/ ProviderReplies(k) \/ ApplyReply(k) \/ CheckFails(k)

CloudFairSpec ==
  /\ CloudSpec
  /\ \A k \in Checkers : WF_cloudVars(CheckGoesOn(k)) /\ WF_cloudVars(BeginCheck(k))
  /\ WF_cloudVars(CloudOutageEnds)

-----------------------------------------------------------------------------
(* Properties                                                                *)

\* Every variable keeps its type.
CloudTypeOK ==
  /\ request \in Requests
  /\ row \in [status : PaymentAttemptStates \cup {NoRow}, ref : Codes \cup {NoCode}]
  /\ job \in [status : {NoRow, "PENDING", "MANUAL_REVIEW", "RESOLVED"},
              tries : 0..RetryLimit - 1]
  /\ owner \in [pc : {"none", "calling", "answered", "applied", "replaying"},
                status : {NoRow, "PENDING", "FAILED", "UNKNOWN"},
                ref : Codes \cup {NoCode}, todo : SUBSET Codes]
  /\ event \in [Codes -> [pc : {"none", "open", "unmatched", "linked"},
                          status : {NoRow, "SUCCEEDED", "UNKNOWN"}, right : BOOLEAN]]
  /\ check \in [Checkers -> [pc : {"idle", "review", "querying", "replied"},
                             ref : Codes \cup {NoCode},
                             status : PaymentAttemptStates \cup {NoRow},
                             right : BOOLEAN]]
  /\ charge \in [Codes -> {"none", "asked", "paid", "mispaid", "declined"}]
  /\ cloudOutage \in BOOLEAN

\* An attempt without a result is never forgotten: either its job is polled,
\* and then there is a reference to ask the provider about, or a person has to
\* look at it (upsertReconciliationJob, in every transaction that writes it).
UnresolvedIsTracked ==
  row.status \in Unresolved =>
    \/ job.status = "MANUAL_REVIEW"
    \/ job.status = "PENDING" /\ row.ref # NoCode

\* Success is a charge of the right amount under the attempt's own reference,
\* and a failed M-PESA attempt took no money: a timeout, a lost answer or an
\* unverified notification is never a result.
ResultsAreTheProviders ==
  /\ row.status = "SUCCEEDED" => row.ref \in Codes /\ charge[row.ref] = "paid"
  /\ row.status = "FAILED" /\ rail = "mpesa" =>
       \A c \in Codes : charge[c] \in {"none", "declined"}

\* docs/PAYMENTS.md: a verified success that comes after a supervised decline
\* is neither applied nor dropped; the attempt is left to people.
ContestedDeclinesAreReviewed ==
  \A c \in Codes :
    row.status = "FAILED" /\ event[c].pc = "linked" /\ event[c].status = "SUCCEEDED"
      => job.status = "MANUAL_REVIEW"

\* No charge goes unnoticed and no result is made up: what has no result is
\* tracked, what has one has the provider's, what people contest people decide.
ChargesAreAccountedFor ==
  UnresolvedIsTracked /\ ResultsAreTheProviders /\ ContestedDeclinesAreReviewed

\* Once an attempt has a provider reference it keeps it: Edge takes a change
\* for a conflict and the provider is asked about that one only.
ReferenceIsFinal == [][row.ref # NoCode => row'.ref = row.ref]_cloudVars

\* To the other tiers the row moves as PaymentTruth says, under one reference.
Truth == INSTANCE PaymentTruth WITH
  PaymentAttempts <- {1}, state <- [a \in {1} |-> row.status]
ImplementsTruth == Truth!TruthSpec /\ ReferenceIsFinal

\* A charge under the attempt's reference becomes its result, through failed
\* checks, restarts and exhausted retries, as long as the register asks.
ChargesAreSettled ==
  \A c \in Codes :
    row.ref = c /\ charge[c] \in {"paid", "declined"} ~> row.status \in Terminal

\* plans/006-payments-mpesa.md: conflicting financial truth is never
\* last-write-wins.  An attempt that was charged twice, both charges known to
\* the Cloud, does not count as settled without a review.
DoubleChargesAreReviewed ==
  \A c, d \in Codes :
    /\ c # d /\ event[c].pc = "linked" /\ event[d].pc = "linked"
    /\ row.status = "SUCCEEDED"
    => job.status = "MANUAL_REVIEW"

=============================================================================
