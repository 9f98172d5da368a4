------------------------ MODULE IntradayReconciliation ------------------------
(***************************************************************************)
(* rust/opsd/src/reconciliation.rs, reconcile_intraday: the local view of  *)
(* position, working orders, fills and trading permissions against the     *)
(* broker's, and the control action a difference calls for.  The engine    *)
(* retains the latest artifact only.  What a request leaves unvalidated    *)
(* (a negative tolerance among it) is compared as it stands.               *)
(***************************************************************************)
EXTENDS Integers, FiniteSets

CONSTANTS
  NetPositions,   \* net positions, in contracts
  Tolerances,     \* position tolerances a request may carry
  WorkingOrders,  \* broker order ids
  Fills,          \* execution ids
  Permissions,    \* trading-permission states
  NoArtifact      \* no artifact yet

ASSUME IntradayAssumption == NetPositions \subseteq Int /\ Tolerances \subseteq Int

View == [position : NetPositions, working : SUBSET WorkingOrders,
         fills : SUBSET Fills, permission : Permissions]

Categories == {"position", "working_orders", "fills", "permissions"}

(* The control actions, from the mildest to the strictest. *)
ActionRank == [none |-> 0, restrict |-> 1, exit_only |-> 2, flatten_and_withdraw |-> 3]

VARIABLE latestIntraday    \* the latest artifact, or NoArtifact

IntradayInit == latestIntraday = NoArtifact

----------------------------------------------------------------------------
Distance(m, n) == IF m < n THEN n - m ELSE m - n

Agree(category, local, broker, tolerance) ==
  CASE category = "position"       -> Distance(broker.position, local.position) <= tolerance
    [] category = "working_orders" -> local.working = broker.working
    [] category = "fills"          -> local.fills = broker.fills
    [] category = "permissions"    -> local.permission = broker.permission

IntradayDiscrepancies(local, broker, tolerance) ==
  {category \in Categories : ~Agree(category, local, broker, tolerance)}

RequiredAction(discrepancies) ==
  IF discrepancies = {} THEN "none"
  ELSE IF "permissions" \in discrepancies THEN "flatten_and_withdraw"
  ELSE IF "position" \in discrepancies THEN "exit_only" ELSE "restrict"

ReconcileIntraday(local, broker, tolerance) ==
  LET discrepancies == IntradayDiscrepancies(local, broker, tolerance)
  IN  latestIntraday' = [local |-> local, broker |-> broker, tolerance |-> tolerance,
                         discrepancies |-> discrepancies,
                         action |-> RequiredAction(discrepancies),
                         blocksNewEntries |-> discrepancies # {}]

IntradayNext ==
  \E local, broker \in View, tolerance \in Tolerances : ReconcileIntraday(local, broker, tolerance)

IntradaySpec == IntradayInit /\ [][IntradayNext]_latestIntraday

----------------------------------------------------------------------------
(* Types of the retained artifact (struct IntradayReconciliationArtifact). *)
IntradayTypeOK ==
  latestIntraday = NoArtifact
  \/ /\ latestIntraday.discrepancies \subseteq Categories
     /\ latestIntraday.action \in DOMAIN ActionRank
     /\ latestIntraday.local \in View /\ latestIntraday.broker \in View

(* A further difference never relaxes the response to the ones already there:
   had fewer categories differed, the action would be no stricter. *)
DifferencesNeverRelax ==
  latestIntraday # NoArtifact =>
    \A fewer \in SUBSET latestIntraday.discrepancies :
      ActionRank[RequiredAction(fewer)] <= ActionRank[latestIntraday.action]

=============================================================================
