---------------------------- MODULE PaymentTruth ----------------------------
(***************************************************************************)
(* What the Cloud promises about payment attempts, to a tier that only     *)
(* sees their states: an attempt appears as CREATED and then moves along   *)
(* AllowedTransitions.  A result is never taken back.                      *)
(***************************************************************************)
EXTENDS PaymentStates

CONSTANT PaymentAttempts

VARIABLE state   \* of each attempt, or NoRow

TruthInit == state = [a \in PaymentAttempts |-> NoRow]

Appear(a) ==
  /\ state[a] = NoRow
  /\ state' = [state EXCEPT ![a] = "CREATED"]

Move(a, next) ==
  /\ state[a] # NoRow /\ CanTransition(state[a], next)
  /\ state' = [state EXCEPT ![a] = next]

TruthNext ==
  \E a \in PaymentAttempts :
    Appear(a) \/ \E next \in PaymentAttemptStates : Move(a, next)

TruthSpec == TruthInit /\ [][TruthNext]_state

=============================================================================
