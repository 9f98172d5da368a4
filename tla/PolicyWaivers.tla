----------------------------- MODULE PolicyWaivers -----------------------------
(***************************************************************************)
(* shared/policy/policy_engine.py, artifact_classes.py and                 *)
(* baseline_risk_controls.py: waivers, the decisions they may turn, the    *)
(* admissibility of artifacts, and the controls every live order meets.    *)
(*                                                                         *)
(* Fractions of equity are in percent, times are instants of one clock.    *)
(***************************************************************************)
EXTENDS Integers, FiniteSets, GateChain

CONSTANT NoExpiry   \* the expiry of a waiver that never lapses

(* An empty list of a waiver narrows nothing. *)
PolicyWaiver ==
  [categories : SUBSET STRING, rules : SUBSET STRING, reasons : SUBSET STRING, expires : Nat \cup {NoExpiry}]
IsActive(w, now) == w.expires = NoExpiry \/ w.expires >= now

Matches(w, category, rule, reason, now) ==
  /\ IsActive(w, now)
  /\ w.categories = {} \/ category \in w.categories
  /\ w.rules = {} \/ rule \in w.rules
  /\ w.reasons = {} \/ reason \in w.reasons

----------------------------------------------------------------------------
PolicyRuleEvaluation == [id : STRING, passed : BOOLEAN, reason : STRING]

(* _finalize_trace: every failing rule must be waived on its own. *)
FinalizeTrace(category, rules, waivers, now) ==
  LET failing == {r \in rules : ~r.passed}
      unwaived == {r \in failing : \A w \in waivers : ~Matches(w, category, r.id, r.reason, now)}
  IN  FirstClosed(<<Gate(unwaived # {}, "block"), Gate(failing # {}, "allow_with_waiver")>>, "allow")

(* The rule that a packet was judged under the policy bundle of the engine. *)
BundleAlignmentRule(aligned) ==
  [id |-> "policy_bundle_alignment", passed |-> aligned, reason |-> "POLICY_ENGINE_BUNDLE_HASH_MISMATCH"]
ReportRule(id, report) == [id |-> id, passed |-> report.status = "pass", reason |-> report.reason]

IntegrityBound ==
  {"research_run", "family_decision_record", "dataset_release", "analytic_release", "data_profile_release",
   "resolved_context_bundle", "execution_profile_release", "candidate_bundle", "replay_fixture", "state_snapshot",
   "broker_session_fixture", "signed_manifest"}
FreshnessBound ==
  {"execution_profile_calibration", "portability_study", "native_execution_symbol_validation_study",
   "execution_symbol_tradability_study", "databento_ibkr_bar_parity_study", "paper_pass_evidence",
   "shadow_pass_evidence", "session_readiness_packet", "fee_schedule_snapshot", "broker_margin_snapshot",
   "operating_envelope_recalibration_evidence"}

DependencyStates == {"valid", "suspect", "quarantined", "revoked", "recert_required"}
FreshnessStates == {"not_applicable", "fresh", "expired", "superseded_compatible", "superseded_incompatible"}

(* evaluate_artifact_admissibility, by its reason: dependencies first, and
   freshness only of what must be fresh. *)
EvaluateArtifact(artifact, dependency, freshness) ==
  FirstClosed(<<Gate(dependency = "suspect", "ARTIFACT_DEPENDENCY_SUSPECT"),
                Gate(dependency = "quarantined", "ARTIFACT_DEPENDENCY_QUARANTINED"),
                Gate(dependency = "revoked", "ARTIFACT_DEPENDENCY_REVOKED"),
                Gate(dependency = "recert_required", "ARTIFACT_DEPENDENCY_RECERT_REQUIRED"),
                Gate(artifact \in IntegrityBound, "ADMISSIBLE"),
                Gate(freshness = "not_applicable", "ARTIFACT_FRESHNESS_STATE_MISSING"),
                Gate(freshness = "expired", "ARTIFACT_FRESHNESS_EXPIRED"),
                Gate(freshness = "superseded_incompatible", "ARTIFACT_FRESHNESS_SUPERSEDED_INCOMPATIBLY")>>,
              "ADMISSIBLE")

(* evaluate_gate_admissibility: a diagnostic per artifact, none for an artifact
   nobody listed. *)
GateDiagnostics(items) ==
  {[artifact |-> i.artifact, answer |-> EvaluateArtifact(i.artifact, i.dependency, i.freshness)] : i \in items}

(* evaluate_freshness_gate *)
FreshnessRules(items) ==
  {[id |-> d.artifact, passed |-> d.answer = "ADMISSIBLE", reason |-> d.answer] : d \in GateDiagnostics(items)}

(* What the engine decides on, by category: a report of another evaluator, with
   its status and its reason code, is a rule. *)
RulesOf(category, q) ==
  CASE category = "lifecycle_transition" -> {ReportRule("release_lifecycle_transition", q.transition)}
    [] category = "freshness_check" -> FreshnessRules(q.items)
    [] category = "session_readiness" ->
         {BundleAlignmentRule(q.aligned), ReportRule("bundle_readiness_record", q.record),
          ReportRule("session_readiness_packet", q.packet)}
    [] category = "promotion_decision" ->
         {BundleAlignmentRule(q.aligned), ReportRule("promotion_packet", q.packet)}
           \cup (IF q.chain.status = "none" THEN {} ELSE {ReportRule("family_decision_evidence_chain", q.chain)})

----------------------------------------------------------------------------
BaselineRiskDefaults ==
  [maxPosition : Nat, maxIntents : Nat, dailyLoss : Nat, drawdown : Nat, initial : Nat, maintenance : Nat,
   strictOvernight : BOOLEAN, bars : Nat, minutes : Nat, seed : BOOLEAN]

(* inherited_baseline_risk_defaults: limits of the account, warm-up of the
   strategy contract, and at least one concurrent intent, by execution symbol.
   Of a symbol the account has no limit for there are none: the look-up raises. *)
InheritedDefaults(account, warmup) ==
  [symbol \in DOMAIN account.maxPositionBySymbol |->
     LET limit == account.maxPositionBySymbol[symbol]
     IN  [maxPosition |-> limit, maxIntents |-> IF limit > 1 THEN limit ELSE 1,
          dailyLoss |-> account.dailyLoss, drawdown |-> account.drawdown, initial |-> account.initial,
          maintenance |-> account.maintenance, strictOvernight |-> account.strictOvernight,
          bars |-> warmup.bars, minutes |-> warmup.minutes, seed |-> warmup.seed]]

BaselineRiskRequest ==
  [known : BOOLEAN, symbol : STRING, current : Int, projected : Int, pending : Int, degraded : BOOLEAN, increases : BOOLEAN,
   loss : Int, drawdown : Int, delivery : BOOLEAN, bars : Int, minutes : Int, seeded : BOOLEAN, initial : Int,
   maintenance : Int, posture : STRING, overnight : BOOLEAN, approved : BOOLEAN]

Size(position) == IF position < 0 THEN -position ELSE position

(* The controls, each by what triggers it. *)
PositionExceeded(q, d) == Size(q.projected) > d.maxPosition \/ Size(q.current) > d.maxPosition
TooManyIntents(q, d) == q.pending > d.maxIntents
EntryOnDegradedData(q) == q.degraded /\ q.increases
LossLockedOut(q, d) == q.loss >= d.dailyLoss
DrawdownReached(q, d) == q.drawdown >= d.drawdown
InDeliveryWindow(q) == q.delivery /\ q.projected # 0
WarmedUp(q, d) == q.bars >= d.bars /\ q.minutes >= d.minutes /\ (d.seed => q.seeded)
FirstTradeTooSoon(q, d) == q.current = 0 /\ q.projected # 0 /\ ~WarmedUp(q, d)
MarginExceeded(q, d) == q.initial > d.initial \/ q.maintenance > d.maintenance
PostureTooLoose(q, d) == d.strictOvernight /\ q.posture # "overnight_strict"
OvernightUnapproved(q, d) == q.overnight /\ (~q.approved \/ PostureTooLoose(q, d))

TriggeredControls(q, d) ==
  {c \in {"max_position_limit", "max_concurrent_order_intents", "degraded_data_entry_suppression",
          "daily_loss_lockout", "max_drawdown_flatten", "delivery_fence_forced_flat", "warmup_hold",
          "margin_pretrade_check", "overnight_approval"} :
     CASE c = "max_position_limit" -> PositionExceeded(q, d)
       [] c = "max_concurrent_order_intents" -> TooManyIntents(q, d)
       [] c = "degraded_data_entry_suppression" -> EntryOnDegradedData(q)
       [] c = "daily_loss_lockout" -> LossLockedOut(q, d)
       [] c = "max_drawdown_flatten" -> DrawdownReached(q, d)
       [] c = "delivery_fence_forced_flat" -> InDeliveryWindow(q)
       [] c = "warmup_hold" -> FirstTradeTooSoon(q, d)
       [] c = "margin_pretrade_check" -> MarginExceeded(q, d)
       [] c = "overnight_approval" -> OvernightUnapproved(q, d)}

ControlActionOf(c, q, d) ==
  CASE c = "max_position_limit" -> IF Size(q.current) > d.maxPosition THEN "exit_only" ELSE "restrict"
    [] c = "daily_loss_lockout" -> "exit_only"
    [] c = "max_drawdown_flatten" -> "flatten"
    [] c = "delivery_fence_forced_flat" -> IF q.current # 0 THEN "flatten" ELSE "restrict"
    [] c = "margin_pretrade_check" -> "halt"
    [] c = "overnight_approval" -> IF q.current # 0 THEN "exit_only" ELSE "restrict"
    [] OTHER -> "restrict"

(* One reason per control, but for the overnight one: there the posture, when
   it is too loose, hides a missing approval. *)
ControlReason(c, q, d) ==
  IF c # "overnight_approval" THEN c
  ELSE IF PostureTooLoose(q, d) THEN "strict_posture_required" ELSE "overnight_approval_required"

(* _matching_waiver_ids *)
ControlWaived(c, q, d, waivers, now) ==
  \E w \in waivers : /\ IsActive(w, now)
                     /\ w.categories = {} \/ "baseline_risk_controls" \in w.categories
                     /\ w.rules = {} \/ c \in w.rules
                     /\ w.reasons = {} \/ ControlReason(c, q, d) \in w.reasons

BaselineRequestInvalid(q) ==
  \/ ~q.known \/ q.posture \notin {"intraday_flat_default", "overnight_strict"}
  \/ \E n \in {q.pending, q.bars, q.minutes, q.loss, q.drawdown, q.initial, q.maintenance} : n < 0

(* Faulty variant: one waiver of a control lets the whole request through. *)
OneWaiverForAll(q, d, waivers, now) ==
  LET triggered == TriggeredControls(q, d)
      waived == \E c \in triggered : ControlWaived(c, q, d, waivers, now)
      Orders(action) == \E c \in triggered : ControlActionOf(c, q, d) = action
  IN  FirstClosed(<<Gate(BaselineRequestInvalid(q), "halt"),
                    Gate(waived, "allow_with_waiver"),
                    Gate(Orders("halt"), "halt"), Gate(Orders("flatten"), "flatten"),
                    Gate(Orders("exit_only"), "exit_only"), Gate(triggered # {}, "restrict")>>, "allow")

(* evaluate_baseline_risk_controls, by its action: the most severe of the
   controls nobody waived. *)
EvaluateBaselineRisk(q, d, waivers, now) ==
  LET triggered == TriggeredControls(q, d)
      unwaived == {c \in triggered : ~ControlWaived(c, q, d, waivers, now)}
      Orders(action) == \E c \in unwaived : ControlActionOf(c, q, d) = action
  IN  FirstClosed(<<Gate(BaselineRequestInvalid(q), "halt"),
                    Gate(Orders("halt"), "halt"), Gate(Orders("flatten"), "flatten"),
                    Gate(Orders("exit_only"), "exit_only"), Gate(unwaived # {}, "restrict"),
                    Gate(triggered # {}, "allow_with_waiver")>>, "allow")
=============================================================================
