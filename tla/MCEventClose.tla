----------------------------- MODULE MCEventClose -----------------------------
(* A cash order and a provider order at two places; two reductions of the   *)
(* cash order that exceed it together, its cash declared, and closes and a  *)
(* reopening that overlap them.                                             *)
EXTENDS EventClose, TLC

CONSTANTS c1, c2, w1, w2, sold, paid, till, bar, transfer, alert, tally

MCTotal == [o \in Orders |-> 2]
MCPlace == [o \in Orders |-> IF o = sold THEN till ELSE bar]
Adjust(key, kind, amount) ==
    [key |-> key, id |-> key, order |-> sold, kind |-> kind, amount |-> amount]
TwoReductions == {Adjust(1, "DISCOUNT", 1), Adjust(2, "VOID", 2)}
RefundAndDiscount == {Adjust(1, "CASH_REFUND", 2), Adjust(2, "DISCOUNT", 1)}
CashOfTill == {[key |-> 3, id |-> 3, kind |-> "CASH", scope |-> till, amount |-> 2]}
CloseReopenClose ==
    {[id |-> 1, action |-> "OPERATIONALLY_CLOSE"], [id |-> 2, action |-> "REOPEN"],
     [id |-> 3, action |-> "OPERATIONALLY_CLOSE"]}
Symmetry == Permutations({c1, c2})
=============================================================================
