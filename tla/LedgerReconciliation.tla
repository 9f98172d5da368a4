------------------------ MODULE LedgerReconciliation ------------------------
(***************************************************************************)
(* rust/opsd/src/reconciliation.rs, over the ledger and through the        *)
(* runtime: the authoritative daily close of a session close against the   *)
(* broker's statement set; and the policy layer's audit of session closes. *)
(*                                                                         *)
(* The runtime looks the session close up by id among all it ever built    *)
(* and hands it over together with the events its scope has now.  The      *)
(* engine retains only the latest daily close, and health reads the next   *)
(* session's eligibility off it.                                           *)
(***************************************************************************)
EXTENDS AccountingLedger

CONSTANTS
  Statements,         \* [scope, fills, totals, margin] authoritative sets
  MaxDailyCloses      \* bound: daily closes produced

Statement ==
  [scope : Scopes, fills : SUBSET Callbacks, totals : [Metrics -> Int], margin : Figures]

ASSUME ReconciliationAssumption ==
  /\ Statements \subseteq Statement /\ "position" \in Metrics
  /\ MaxDailyCloses \in Nat

VARIABLE dailyCloses    \* daily-close artifacts, oldest first; health sees the last

reconciliationVars == <<ledgerVars, dailyCloses>>

ReconciliationInit == LedgerInit /\ dailyCloses = <<>>

----------------------------------------------------------------------------
BookedFillIds(evs) ==
  {evs[n].callback : n \in {m \in DOMAIN evs : evs[m].class = "booked_fill"}} \ {None}

(* Faulty variant: nothing beyond metrics and fills compared. *)
IgnoresOpenDiscrepancies(close, statement, unrealizedAgrees) ==
  {metric \in Metrics : close.reconciled[metric] # statement.totals[metric]}
  \cup (IF BookedFillIds(ScopedEvents(close.scope)) = statement.fills THEN {}
        ELSE {"fill_execution_ids"})

(* What the statement set leaves unexplained.  Fills are compared with the
   events booked so far; totals, margin and open discrepancies with what the
   session close recorded when it was built. *)
DailyDiscrepancies(close, statement, unrealizedAgrees) ==
  {metric \in Metrics : close.reconciled[metric] # statement.totals[metric]}
  \cup (IF BookedFillIds(ScopedEvents(close.scope)) = statement.fills THEN {}
        ELSE {"fill_execution_ids"})
  \cup (IF unrealizedAgrees THEN {} ELSE {"unrealized_pnl"})
  \cup (IF close.margin = statement.margin THEN {} ELSE {"margin"})
  \cup close.unresolved

DailyStatus(close, discrepancies) ==
  IF close.status = "violation" THEN "violation"
  ELSE IF discrepancies = {} THEN "pass" ELSE "review_required"

Eligibility(status, waived) ==
  IF status = "pass" THEN "eligible" ELSE IF waived THEN "review_required" ELSE "blocked"

(* build_authoritative_ledger_close and reconcile_daily_close; a waiver always
   comes with its id, or the request is refused. *)
ReconcileDailyClose(n, statement, unrealizedAgrees, waived) ==
  LET close == closes[n]
      discrepancies == DailyDiscrepancies(close, statement, unrealizedAgrees)
      status == DailyStatus(close, discrepancies)
  IN  /\ statement.scope = close.scope      \* else the scope mismatch is refused
      /\ Len(dailyCloses) < MaxDailyCloses
      /\ dailyCloses' =
           Append(dailyCloses,
                  [close |-> n, scope |-> close.scope, statement |-> statement,
                   discrepancies |-> discrepancies, status |-> status, waived |-> waived,
                   eligibility |-> Eligibility(status, waived)])
      /\ UNCHANGED ledgerVars

(* latest_next_session_eligibility, which the health report publishes. *)
NextSessionEligibility ==
  IF dailyCloses = <<>> THEN None ELSE Last(dailyCloses).eligibility

ReconciliationNext ==
  \/ LedgerNext /\ UNCHANGED dailyCloses
  \/ \E n \in DOMAIN closes, statement \in Statements, unrealizedAgrees, waived \in BOOLEAN :
       ReconcileDailyClose(n, statement, unrealizedAgrees, waived)

ReconciliationSpec == ReconciliationInit /\ [][ReconciliationNext]_reconciliationVars

----------------------------------------------------------------------------
(***************************************************************************)
(* shared/policy/accounting_ledger.py: the close of an accounting ledger   *)
(* as the policy layer evaluates it, from the events of one account and    *)
(* symbol.  It is a second implementation of the arithmetic of the         *)
(* runtime's ledger, with a stricter verdict: the broker's end-of-day      *)
(* evidence must be there, and the position must match it.  Here it audits *)
(* the session closes from the events each traces.                         *)
(***************************************************************************)
(* validate_append_only_ledger, by its reason code *)
AppendOnlyReason(evs, scope) ==
  IF \E n \in 2..Len(evs) : evs[n].sequence <= evs[n - 1].sequence THEN "LEDGER_SEQUENCE_OUT_OF_ORDER"
  ELSE IF \E n \in DOMAIN evs : evs[n].scope # scope THEN "LEDGER_SCOPE_MISMATCH"
  ELSE "LEDGER_APPEND_ONLY_VALID"

(* _aggregate_totals over the booked classes, or over the reconciling ones too *)
AuditTotals(evs, reconciled) ==
  [metric \in Metrics |->
     TotalOf(evs, metric, IF reconciled THEN BookedClasses \cup ReconcilingClasses ELSE BookedClasses)]

(* _latest_broker_snapshot: the last end-of-day position and the last margin
   snapshot, whichever came later. *)
BrokerAuthoritativeSnapshot(evs) ==
  LET Of(class) == {n \in DOMAIN evs : evs[n].class = class}
      Figure(class) == IF Of(class) = {} THEN None ELSE evs[Max(Of(class))].figure
  IN  [position |-> Figure("broker_eod_position"), margin |-> Figure("broker_eod_margin_snapshot"),
       complete |-> Of("broker_eod_position") # {} /\ Of("broker_eod_margin_snapshot") # {}]

(* _unresolved_discrepancy_ids *)
UnresolvedIds(evs) ==
  LET Named(classes) == {evs[n].discrepancy : n \in {m \in DOMAIN evs : evs[m].class \in classes}}
  IN  Named({"unresolved_discrepancy"}) \ (Named(ReconcilingClasses) \cup {None})

(* _difference: as-booked against as-reconciled, and as-reconciled against the
   broker's figure where there is one. *)
PositionDifference(evs) ==
  LET figure == BrokerAuthoritativeSnapshot(evs).position
      reconciled == AuditTotals(evs, TRUE).position
  IN  [booked |-> reconciled - AuditTotals(evs, FALSE).position,
       broker |-> IF figure = None THEN 0 ELSE reconciled - figure]

(* _close_status *)
AuditStatus(evs, scope) ==
  IF AppendOnlyReason(evs, scope) # "LEDGER_APPEND_ONLY_VALID" THEN "violation"
  ELSE IF \/ ~BrokerAuthoritativeSnapshot(evs).complete
          \/ UnresolvedIds(evs) # {}
          \/ PositionDifference(evs).broker # 0
       THEN "review_required" ELSE "pass"

(* evaluate_accounting_ledger_close *)
EvaluateAccountingLedgerClose(evs, scope) ==
  [status |-> AuditStatus(evs, scope), booked |-> AuditTotals(evs, FALSE), reconciled |-> AuditTotals(evs, TRUE),
   snapshot |-> BrokerAuthoritativeSnapshot(evs), unresolved |-> UnresolvedIds(evs),
   restatements |-> {evs[n].sequence : n \in {m \in DOMAIN evs : evs[m].class = "restatement"}}]

----------------------------------------------------------------------------
(* Types of the retained reconciliation artifacts (struct ReconciliationEngine). *)
ReconciliationTypeOK ==
  \A n \in DOMAIN dailyCloses :
    /\ dailyCloses[n].close \in DOMAIN closes
    /\ dailyCloses[n].eligibility \in {"eligible", "review_required", "blocked"}
    /\ dailyCloses[n].discrepancies \subseteq
         Metrics \cup Discrepancies \cup {"fill_execution_ids", "unrealized_pnl", "margin"}

(* A session is only declared eligible when the events its session close
   traced add up to the broker's statement, carry the broker's margin, and
   leave no discrepancy open: a waiver never turns a difference into
   eligibility. *)
EligibleIsReconciled ==
  \A n \in DOMAIN dailyCloses :
    dailyCloses[n].eligibility = "eligible" =>
      LET close == closes[dailyCloses[n].close]
          traced == Traced(close)
      IN  /\ Totals(traced, BookedClasses \cup ReconcilingClasses) = dailyCloses[n].statement.totals
          /\ LatestFigure(traced, "broker_eod_margin_snapshot") = dailyCloses[n].statement.margin
          /\ UnresolvedDiscrepancies(traced) = {}
          /\ dailyCloses[n].statement.scope = close.scope

(* Any unexplained discrepancy blocks new entries for the next session until
   reviewed, waived or resolved (Plan_1.md, 10.15): a session is not declared
   eligible while its ledger holds an unresolved discrepancy. *)
OpenDiscrepancyBlocks ==
  [][dailyCloses' # dailyCloses /\ NextSessionEligibility' = "eligible"
       => UnresolvedDiscrepancies(ScopedEvents(Last(dailyCloses').scope)) = {}]_reconciliationVars

(* The two ledgers agree: audited at any later time from the events it traces,
   a session close of the runtime shows the figures and the open discrepancies
   the audit computes, and an audit passes no close that the runtime did not,
   nor one whose position is not the broker's (a position snapshot may carry
   no figure, and then counts as evidence all the same). *)
AuditsAgreeWithCloses ==
  \A n \in DOMAIN closes :
    LET close == closes[n]
        audit == EvaluateAccountingLedgerClose(Traced(close), close.scope)
    IN  /\ audit.booked = close.booked /\ audit.reconciled = close.reconciled
        /\ audit.unresolved = close.unresolved /\ audit.restatements = close.restatements
        /\ audit.snapshot.position = close.position /\ audit.snapshot.margin = close.margin
        /\ audit.status = "violation" <=> close.status = "violation"
        /\ audit.status = "pass" =>
             close.status = "pass" /\ close.position \in {None, close.reconciled.position}

(* The type invariants of the ledger and of what is reconciled. *)
BooksTypeOK == LedgerTypeOK /\ ReconciliationTypeOK

(* What the books retain is well formed and can be recomputed at any later time,
   by the rules of the runtime's ledger and by those of the policy layer. *)
BooksAreSound == BooksTypeOK /\ ClosesAreReproducible /\ AuditsAgreeWithCloses
=============================================================================
