---------------------------- MODULE MCDeviceSync ----------------------------
(* A register that comes from before menus, with a short log: three events *)
(* in batches of two, so that a log takes two batches, a batch can be a    *)
(* retry of another one with more events in it, and a delayed batch can    *)
(* arrive after its successor.  Edge assigns it a location once, while its *)
(* sales are pending or on their way.                                      *)
EXTENDS DeviceSync
=============================================================================
