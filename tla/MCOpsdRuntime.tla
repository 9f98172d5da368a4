---------------------------- MODULE MCOpsdRuntime ----------------------------
(* The runtime with one-slot and two-slot lanes, so that every lane fills. *)
EXTENDS OpsdRuntime

MCModules == {"risk", "broker", "reconciliation"}
MCStandardCapacity == [t \in MCModules |-> IF t = "broker" THEN 2 ELSE 1]
MCHighCapacity == [t \in MCModules |-> 1]
=============================================================================
