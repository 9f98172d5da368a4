----------------------------- MODULE RuntimeRisk -----------------------------
(***************************************************************************)
(* rust/opsd/src/risk.rs: evaluate_runtime_risk puts one request to every   *)
(* control, and the strictest answer decides what the runtime may do.  The  *)
(* evaluator is pure: a state is one evaluation.  Positions and the limits  *)
(* scaled by the envelope are integers; every other threshold a request     *)
(* passes or fails is a breach, a member of the request's "breaches".       *)
(***************************************************************************)
EXTENDS Integers, FiniteSetsExt, GateChain

CONSTANTS
  Positions,      \* current and projected positions, in contracts
  Pending,        \* pending order intents
  Limits,         \* max_position_contracts and max_concurrent_order_intents
  Multipliers,    \* envelope multipliers, in basis points
  BreachSets,     \* the breaches a request may combine
  NoRequest       \* nothing evaluated yet

ASSUME RiskAssumption ==
  /\ Positions \subseteq Int /\ Pending \subseteq Nat
  /\ Limits \subseteq Nat \ {0}
  /\ \A bps \in Multipliers : bps \in Nat \ {0} /\ bps <= 10000

EnvelopeActions == {"forced_flatten", "exit_only", "no_new_overnight_carry", "entry_suppression",
                    "passive_entry_suppression", "size_reduction", "lower_max_trades"}

(* "drift" is beyond the approved threshold and "severe" beyond the severe
   one; "fit" likewise, with its hard stop.  "malformed" is a request that
   the checks at the head of evaluate_runtime_risk refuse. *)
Breaches == EnvelopeActions \cup
  {"malformed", "session_closed", "data_degraded", "behavior_drift", "behavior_severe",
   "quality_drift", "quality_severe", "fit_low", "fit_hard_stop", "recalibration",
   "daily_loss", "drawdown", "delivery_window", "warmup_unmet", "margin",
   "overnight_requested", "overnight_unapproved", "posture_mismatch"}

Severity == [allow |-> 0, restrict |-> 1, exit_only |-> 2, flatten |-> 3, halt |-> 4]
ModeSeverity == [normal |-> 0, passive_only |-> 1, no_new_entries |-> 2,
                 exit_only |-> 3, forced_flatten |-> 4]

VARIABLE request    \* the request evaluated, or NoRequest

RiskInit == request = NoRequest

----------------------------------------------------------------------------
Abs(n) == IF n < 0 THEN -n ELSE n

(* scaled_contract_limit, scaled_count_limit: rounded up, never below one.
   The saturation of the product is out of reach of the limits used here. *)
ScaledLimit(base, bps) == Max({1, (base * bps + 9999) \div 10000})

Holding(r) == Abs(r.current) > 0
PositionLimit(r) == ScaledLimit(r.maxPosition, r.sizeMultiplier)
IntentLimit(r) == ScaledLimit(r.maxIntents, r.tradeMultiplier)

(* A decision: the control's action and entry mode. *)
Decision(action, mode) == [action |-> action, mode |-> mode]
Pass     == Decision("allow", "normal")
Suppress == Decision("restrict", "no_new_entries")
ExitOnly == Decision("exit_only", "exit_only")
Flatten  == Decision("flatten", "forced_flatten")
Halt     == Decision("halt", "no_new_entries")

If(condition, decision) == IF condition THEN decision ELSE Pass
IfHolding(r, decision) == IF Holding(r) THEN decision ELSE Suppress

(* strategy_behavior_drift_control, strategy_data_quality_control and
   operating_envelope_fit_control: the severe threshold is tried first. *)
BehaviorControl(r) ==
  IF "behavior_severe" \in r.breaches THEN IfHolding(r, ExitOnly)
  ELSE If("behavior_drift" \in r.breaches, Suppress)

QualityControl(r) ==
  IF "quality_severe" \in r.breaches THEN Halt ELSE If("quality_drift" \in r.breaches, Suppress)

FitControl(r) ==
  IF "fit_hard_stop" \in r.breaches THEN IfHolding(r, Flatten)
  ELSE If({"recalibration", "fit_low"} \cap r.breaches # {}, IfHolding(r, ExitOnly))

(* envelope_control: the first of these that applies answers. *)
EnvelopeGates(r) ==
  LET Has(action) == action \in r.breaches
  IN  << Gate(Has("forced_flatten"), Flatten),
         Gate(Has("exit_only"), ExitOnly),
         Gate(Has("no_new_overnight_carry") /\ Has("overnight_requested"), IfHolding(r, ExitOnly)),
         Gate(Has("entry_suppression"), Suppress),
         Gate(Has("passive_entry_suppression"), Decision("restrict", "passive_only")),
         Gate(Has("posture_mismatch"), Suppress),
         Gate(Has("size_reduction") \/ Has("lower_max_trades"), Decision("restrict", "normal")) >>

EnvelopeControl(r) == FirstClosed(EnvelopeGates(r), Pass)

(* The baseline controls, in the order evaluate_runtime_risk asks them. *)
PositionControl(r) ==
  IF Abs(r.current) > PositionLimit(r) THEN ExitOnly
  ELSE If(Abs(r.projected) > PositionLimit(r), Suppress)

FirstTradePending(r) == ~Holding(r) /\ Abs(r.projected) > 0 /\ r.increasesRisk

ExposureControls(r) ==
  LET Has(breach) == breach \in r.breaches
  IN  { If(Has("session_closed"), IfHolding(r, ExitOnly)),
        PositionControl(r),
        If(r.pending > IntentLimit(r), Suppress),
        If(Has("data_degraded") /\ r.increasesRisk, Suppress) }

LossControls(r) ==
  LET Has(breach) == breach \in r.breaches
  IN  { If(Has("daily_loss"), ExitOnly),
        If(Has("drawdown"), Flatten),
        If(Has("delivery_window") /\ Abs(r.projected) > 0, IfHolding(r, Flatten)) }

CarryControls(r) ==
  LET Has(breach) == breach \in r.breaches
  IN  { If(Has("warmup_unmet") /\ FirstTradePending(r), Suppress),
        If(Has("margin"), Halt),
        If(Has("overnight_requested") /\ Has("overnight_unapproved"), IfHolding(r, ExitOnly)) }

Decisions(r) ==
  IF "malformed" \in r.breaches THEN {Halt}
  ELSE ExposureControls(r) \cup LossControls(r) \cup CarryControls(r)
         \cup {BehaviorControl(r), QualityControl(r), FitControl(r), EnvelopeControl(r)}

(* Faulty variant: the mildest failed control decides. *)
MildestAction(decisions) ==
  LET failed == {d \in decisions : d.action # "allow"}
  IN  IF failed = {} THEN "allow"
      ELSE (CHOOSE d \in failed : \A e \in failed : Severity[d.action] <= Severity[e.action]).action

(* dominant_action, dominant_entry_mode: a passed control counts as allow. *)
DominantAction(decisions) ==
  (CHOOSE d \in decisions : \A e \in decisions : Severity[e.action] <= Severity[d.action]).action

DominantEntryMode(decisions, action) ==
  CASE action = "flatten" -> "forced_flatten" [] action = "exit_only" -> "exit_only"
    [] action = "halt" -> "no_new_entries"    [] action = "allow" -> "normal"
    [] OTHER -> (CHOOSE d \in decisions : \A e \in decisions :
                   ModeSeverity[e.mode] <= ModeSeverity[d.mode]).mode

(* evaluate_runtime_risk *)
EvaluateRuntimeRisk(r) ==
  LET action == DominantAction(Decisions(r))
      mode   == DominantEntryMode(Decisions(r), action)
  IN  [action |-> action, mode |-> mode,
       tradingEligible |-> action \in {"allow", "restrict"},
       allowNewRisk |-> mode \in {"normal", "passive_only"},
       requireFlatten |-> action = "flatten"]

Evaluate(r) == request' = r

RiskNext ==
  request = NoRequest /\
    \E breaches \in BreachSets, current, projected \in Positions, pending \in Pending,
       maxPosition, maxIntents \in Limits, sizeMultiplier, tradeMultiplier \in Multipliers,
       increasesRisk \in BOOLEAN :
      Evaluate([breaches |-> breaches, current |-> current, projected |-> projected,
                pending |-> pending, maxPosition |-> maxPosition, maxIntents |-> maxIntents,
                sizeMultiplier |-> sizeMultiplier, tradeMultiplier |-> tradeMultiplier,
                increasesRisk |-> increasesRisk])

RiskSpec == RiskInit /\ [][RiskNext]_request

----------------------------------------------------------------------------
(* A limit is never scaled to nothing nor raised, and the flags of a report
   agree: new risk needs eligibility, a flatten rules both out, and a
   restricted runtime is never told to leave its position. *)
RiskTypeOK ==
  request # NoRequest =>
    /\ PositionLimit(request) \in 1..request.maxPosition
    /\ IntentLimit(request) \in 1..request.maxIntents
    /\ LET report == EvaluateRuntimeRisk(request)
       IN  /\ report.action \in DOMAIN Severity /\ report.mode \in DOMAIN ModeSeverity
           /\ report.allowNewRisk => report.tradingEligible
           /\ report.requireFlatten => ~report.tradingEligible /\ ~report.allowNewRisk
           /\ report.mode \in {"exit_only", "forced_flatten"} => ~report.tradingEligible

(* One more breach never relaxes the response: without any one of them the
   action would be no stricter, whatever the other controls answer. *)
BreachesNeverRelax ==
  request # NoRequest =>
    \A breach \in request.breaches :
      Severity[EvaluateRuntimeRisk([request EXCEPT !.breaches = @ \ {breach}]).action]
        <= Severity[EvaluateRuntimeRisk(request).action]

(* "Operating-envelope fit fell below the hard-stop threshold while exposure
   was open, so the runtime must flatten immediately": so does the report. *)
HardStopFlattens ==
  request # NoRequest /\ "fit_hard_stop" \in request.breaches /\ Holding(request)
    /\ "malformed" \notin request.breaches
  => EvaluateRuntimeRisk(request).requireFlatten
=============================================================================
