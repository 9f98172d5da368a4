---------------------------- MODULE ViabilityScreens ----------------------------
(***************************************************************************)
(* shared/policy/viability_gate.py and fast_screening.py: whether a lane,  *)
(* an execution symbol, a port from one symbol to another, a strategy's    *)
(* fidelity and a fast screening path are good enough to go on with.       *)
(*                                                                         *)
(* Every check compares measurements with thresholds and passes when all   *)
(* of them hold.  A reading is therefore the set of measurements that hold; *)
(* which of them a check asks for is a table from checks to sets.  The     *)
(* evaluators keep nothing; SelectionGates keeps the reports.              *)
(***************************************************************************)
EXTENDS Naturals, FiniteSets, GateChain

(* The checks of a table that fail on a reading. *)
FailedChecks(table, reading) == {c \in DOMAIN table : ~(table[c] \subseteq reading)}

----------------------------------------------------------------------------
(* The checks of the early viability gate, each on its facts. *)
LaneChecks ==
  [LC01 |-> {"oz1_entitled", "session_coverage_verified", "ibkr_setup_confirmed"},
   LC02 |-> {"data_profile_release_approved", "bar_construction_deterministic"},
   LC03 |-> {"opsd_routing_ok", "paper_routing_ok", "shadow_live_suppression_ok", "statement_ingestion_ok",
             "reconciliation_ok"},
   LC04 |-> {"oz1_tradable_by_session_class"},
   LC05 |-> {"account_type_ok", "permissions_ok", "contract_definition_ok", "operational_reset_ok"}]

(* _determine_failure_outcome: data and tradability are fundamental *)
LaneFailureOutcome(failed) ==
  FirstClosed(<<Gate(failed \cap {"LC01", "LC04"} # {} /\ Cardinality(failed) >= 3, "terminate"),
                Gate(failed \cap {"LC01", "LC04", "LC05"} # {}, "pivot")>>, "narrow")

(* evaluate_viability_gate *)
EvaluateViabilityGate(reading) ==
  LET failed == FailedChecks(LaneChecks, reading) IN IF failed = {} THEN "continue" ELSE LaneFailureOutcome(failed)

----------------------------------------------------------------------------
LiquidityChecks ==
  [VS01 |-> {"quote_presence_ratio", "print_presence_ratio"},
   VS02 |-> {"median_spread_bps", "bar_completeness_ratio"}]
FeasibilityChecks ==
  [VS03 |-> {"contract_count", "round_trip_cost_bps", "round_trip_cost_usd"},
   VS04 |-> {"tradable_session_coverage_ratio", "protected_windows", "maintenance_fence"},
   VS05 |-> {"holding_period_minutes"}]
ScreenChecks ==
  [c \in DOMAIN LiquidityChecks \cup DOMAIN FeasibilityChecks |->
     IF c \in DOMAIN LiquidityChecks THEN LiquidityChecks[c] ELSE FeasibilityChecks[c]]

(* A screen is given the dimensions that were measured, at least one, and what
   held of them: a dimension nobody measured does not fail. *)
ScreenRequest ==
  [research : STRING, execution : STRING, native : BOOLEAN, observed : BOOLEAN,
   measured : (SUBSET DOMAIN ScreenChecks) \ {{}}, reading : SUBSET UNION {ScreenChecks[c] : c \in DOMAIN ScreenChecks}]

(* _determine_screen_failure_outcome: missing evidence narrows, whatever failed *)
ScreenFailureOutcome(q, failed) ==
  FirstClosed(<<Gate(~q.native \/ ~q.observed, "narrow"),
                Gate(Cardinality(failed) >= 3, "terminate"),
                Gate(failed \cap {"VS01", "VS04", "VS05"} # {}, "pivot")>>, "narrow")

(* evaluate_execution_symbol_first_viability_screen: the evidence is only asked
   for when the execution symbol is 1OZ. *)
EvaluateScreen(q) ==
  LET failed == FailedChecks(ScreenChecks, q.reading) \cap q.measured
      deep == failed = {} /\ (q.execution = "1OZ" => q.native /\ q.observed)
  IN  [research |-> q.research, execution |-> q.execution, passed |-> failed = {}, deep |-> deep,
       outcome |-> IF deep THEN "continue" ELSE ScreenFailureOutcome(q, failed)]

----------------------------------------------------------------------------
AgreementChecks ==
  [PT01 |-> {"directional_agreement_ratio"}, PT02 |-> {"median_timing_delta_seconds"},
   PT03 |-> {"trade_count_drift_ratio"}, PT04 |-> {"fill_sensitivity_bps"}]
EconomicsChecks ==
  [PT05 |-> {"cost_sensitivity_bps"}, PT06 |-> {"turnover_drift_ratio"}, PT07 |-> {"after_cost_degradation_bps"}]

CertificationRequest ==
  [research : STRING, execution : STRING, screened : BOOLEAN, studied : BOOLEAN,
   measured : SUBSET (DOMAIN AgreementChecks \cup DOMAIN EconomicsChecks), reading : SUBSET STRING,
   history : BOOLEAN, native : {"none", "failed", "passed"}]

Ported(q) ==
  LET failed == (FailedChecks(AgreementChecks, q.reading) \cup FailedChecks(EconomicsChecks, q.reading)) \cap q.measured
  IN  q.research = q.execution \/ (q.studied /\ q.measured # {} /\ failed = {})
StudyMissing(q) == q.research # q.execution /\ ~(q.studied /\ q.measured # {})
NativeRequired(q) == q.execution = "1OZ" /\ q.history

NativeValid(q) == NativeRequired(q) => q.native = "passed"

(* evaluate_portability_and_native_validation *)
EvaluatePortability(q) ==
  [execution |-> q.execution, allowed |-> q.screened /\ Ported(q) /\ NativeValid(q),
   outcome |-> FirstClosed(<<Gate(~q.screened, "terminate"),
                             Gate(StudyMissing(q), "narrow"),
                             Gate(~Ported(q), "pivot"),
                             Gate(NativeRequired(q) /\ q.native = "none", "narrow"),
                             Gate(~NativeValid(q), "terminate")>>, "continue")]

----------------------------------------------------------------------------
CalibrationChecks ==
  [FC01 |-> {"decision_interval_seconds", "bar_coverage_ratio", "largest_gap_seconds"},
   FC02 |-> {"slippage_bps", "slippage_usd"}]
SessionChecks ==
  [FC03 |-> {"passive_fill_ratio", "adverse_selection_bps"},
   FC04 |-> {"surface_documented", "separate_surface_used", "liquidity_supported"}]
LiveLaneConstraints ==
  [LL01 |-> {"decision_interval_seconds"}, LL02 |-> {"bar_based_or_one_bar_late"},
   LL03 |-> {"no_order_book_imbalance"}, LL04 |-> {"no_queue_position_edge"},
   LL05 |-> {"no_sub_minute_market_making"}, LL06 |-> {"no_premium_live_depth"}]

(* evaluate_fidelity_calibration of the viability gate: here too, only the
   dimensions that were measured can fail. *)
PromotableForLiveLane(measured, reading) ==
  /\ (FailedChecks(CalibrationChecks, reading) \cup FailedChecks(SessionChecks, reading)) \cap measured = {}
  /\ FailedChecks(LiveLaneConstraints, reading) = {}

----------------------------------------------------------------------------
(* What a fast screening request declares, by the check that asks for it. *)
EligibilityFacts ==
  {"decision_basis", "order_semantics", "order_management_mode", "no_passive_queue", "no_microstructure"}
EquivalenceFacts ==
  {"comparison_engine", "study_passed", "dimensions", "signal_mismatch", "fill_rate_delta", "pnl_drift_bps",
   "run_log_per_seed", "artifact_ids", "diff_ids"}
ControlFacts == {"promotion_blocked", "no_other_action"}
FollowOnFacts == {"full_nautilus_screening", "full_validation", "full_stress", "null_comparison"}
FastScreeningChecks ==
  [FS01 |-> EligibilityFacts, FS02 |-> EquivalenceFacts, FS03 |-> ControlFacts, FS04 |-> FollowOnFacts]
FastScreeningRequest ==
  [supported : BOOLEAN, wellFormed : BOOLEAN, continuation : BOOLEAN, abandonment : BOOLEAN,
   reading : SUBSET UNION {FastScreeningChecks[c] : c \in DOMAIN FastScreeningChecks}]

(* _admissible_actions: other actions are listed as declared *)
AdmissibleActions(q) ==
  (IF q.continuation THEN {"continuation"} ELSE {}) \cup (IF q.abandonment THEN {"abandonment"} ELSE {})
    \cup (IF "no_other_action" \in q.reading THEN {} ELSE {"other"})

(* evaluate_fast_screening_path: a request that is refused still lists its
   actions, except when it was malformed. *)
EvaluateFastScreening(q) ==
  IF ~q.supported \/ ~q.wellFormed THEN [status |-> "invalid", failed |-> {"FS00"}, actions |-> {}]
  ELSE LET failed == FailedChecks(FastScreeningChecks, q.reading)
       IN  [status |-> IF failed = {} THEN "pass" ELSE "violation", failed |-> failed, actions |-> AdmissibleActions(q)]
----------------------------------------------------------------------------
Harshness == [continue |-> 0, narrow |-> 1, pivot |-> 2, terminate |-> 3]
=============================================================================
