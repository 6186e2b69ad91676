---------------------------- MODULE PaymentStates ----------------------------
(***************************************************************************)
(* The states of a payment attempt and the transitions that the register,  *)
(* the Edge cache and the Cloud all accept.  The same table stands in      *)
(* packages/domain/src/payment.ts and in the register's PaymentRules.kt.   *)
(***************************************************************************)

PaymentAttemptStates ==
  {"CREATED", "INITIATED", "PENDING", "SUCCEEDED", "FAILED", "UNKNOWN"}

Terminal == {"SUCCEEDED", "FAILED"}

\* Not a state: the tier has no row for the attempt.
NoRow == "NO_ROW"

AllowedTransitions ==
  [ CREATED   |-> PaymentAttemptStates \ {"CREATED"},
    INITIATED |-> PaymentAttemptStates \ {"CREATED", "INITIATED"},
    PENDING   |-> {"SUCCEEDED", "FAILED", "UNKNOWN"},
    UNKNOWN   |-> {"PENDING", "SUCCEEDED", "FAILED"},
    SUCCEEDED |-> {},
    FAILED    |-> {} ]

\* Repeating the current state is always accepted, terminal states included.
CanTransition(from, to) == from = to \/ to \in AllowedTransitions[from]

\* What the register makes of a call that failed: uncertainty never undoes
\* a provider result that is already known.
StateAfterTransportUncertainty(current) ==
  IF current \in Terminal THEN current ELSE "UNKNOWN"

=============================================================================
