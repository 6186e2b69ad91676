---------------------------- MODULE MCCloudSync -----------------------------
(* One register with two events that go to the Cloud one by one, an order  *)
(* that may change its location between them, an assignment that changes   *)
(* while they wait, and one given-up request that arrives after all.       *)
EXTENDS CloudSync
=============================================================================
