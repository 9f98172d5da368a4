----------------------- MODULE MCLedgerReconciliation -----------------------
(* A session with a fill, an adjustment, a restatement and a discrepancy, with
   snapshots that carry a figure and one that carries none, and a
   second one that books fills, the first session's callback among them;
   statements that agree and disagree with each. *)
EXTENDS LedgerReconciliation

MCMetrics == {"position", "commission"}

Request(class, scope, callback, discrepancy, position, figure) ==
  [class |-> class, scope |-> scope, callback |-> callback, discrepancy |-> discrepancy,
   amounts |-> [m \in MCMetrics |-> IF m = "position" THEN position ELSE 0],
   figure |-> figure, sequence |-> 0]

MCEventRequests ==
  { Request("booked_fill", "s1", "c1", None, 1, None),
    Request("booked_fill", "s2", "c2", None, 1, None),
    Request("unresolved_discrepancy", "s1", None, "d1", 0, None),
    Request("reconciliation_adjustment", "s1", None, "d1", -1, None),
    Request("broker_eod_margin_snapshot", "s1", None, None, 0, 1),
    Request("broker_eod_position", "s1", None, None, 0, 1),
    Request("booked_fill", "s2", "c1", None, 1, None),
    Request("broker_eod_position", "s1", None, "d1", 0, None),
    Request("restatement", "s1", None, None, -1, None) }

(* The second session can become eligible too. *)
MCTwoSessionRequests == MCEventRequests \cup {Request("broker_eod_margin_snapshot", "s2", None, None, 0, 1)}

MCStatement(scope, fills, position) ==
  [scope |-> scope, fills |-> fills, margin |-> 1,
   totals |-> [m \in MCMetrics |-> IF m = "position" THEN position ELSE 0]]

MCStatements ==
  { MCStatement("s1", {"c1"}, 1), MCStatement("s1", {"c1"}, 0), MCStatement("s1", {}, 0),
    MCStatement("s2", {"c2"}, 1) }
=============================================================================
