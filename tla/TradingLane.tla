------------------------------ MODULE TradingLane ------------------------------
(***************************************************************************)
(* shared/policy/operating_envelope.py and overnight_candidate.py, and a   *)
(* live lane that obeys them, the baseline controls and the policy engine: *)
(* it takes an order the controls and the entry mode allow, carries a      *)
(* position over the close when the session's rule and the qualification   *)
(* of the candidate allow it, and closes it otherwise.                     *)
(*                                                                         *)
(* A multiplier is counted in halves: 2 stands for 1.0.                    *)
(***************************************************************************)
EXTENDS PolicyWaivers, SequencesExt, Foundations

CONSTANTS
  EnvelopeProfile,     \* the operating-envelope profile of the lane
  RiskProfiles,        \* the session-conditioned risk profiles that may be bound to it
  EnvelopeReadings,    \* what the dimensions may read
  EnvelopeCalls,       \* [supported, posture]: the schema and the posture an envelope request may give
  LaneDefaults,        \* the inherited baseline limits, by execution symbol
  LaneOrders,          \* [delta, terms]: orders, with the rest of their baseline request
  OvernightRequests,   \* the qualification requests of the candidate
  EngineQuestions,     \* [category, about]: what the policy engine is asked
  LaneSessions,        \* the session classes the lane goes through
  WaiverOffers,        \* the waivers somebody may sign
  MaxLaneWaivers, MaxLaneTime, MaxLanePosition,
  NoBound,             \* a band edge, a profile, a buffer or a threshold that is not given
  NotANumber,          \* the float that compares with nothing
  NoLaneRecord

BandSeverity == [green |-> 0, yellow |-> 1, red |-> 2, invalid |-> 3]
Bands == {"green", "yellow", "red"}
OperatingPostures == {"intraday_flat_default", "overnight_strict"}
RequiredDimensions ==
  {"spread_regime", "stale_quote_rate", "live_bar_parity_degradation", "realized_volatility_bucket",
   "session_or_event_class", "freshness_watermark_lag", "broker_round_trip_latency"}
RequiredSessionClasses == {"overnight", "regular_comex", "maintenance_adjacent", "macro_event", "degraded_data"}

Suppressing == {"entry_suppression", "exit_only", "forced_flatten"}
EnvelopeActions ==
  Suppressing \cup {"maintain", "size_reduction", "lower_max_trades", "passive_entry_suppression", "no_new_overnight_carry"}
ActionSize(a) == IF a \in Suppressing THEN 0 ELSE IF a = "size_reduction" THEN 1 ELSE 2
ActionTrades(a) == IF a \in Suppressing THEN 0 ELSE IF a = "lower_max_trades" THEN 1 ELSE 2

OperatingEnvelopeBand ==
  [band : Bands, min : Int \cup {NoBound}, max : Int \cup {NoBound}, values : SUBSET STRING, actions : SUBSET EnvelopeActions]
OperatingEnvelopeDimension == [id : STRING, kind : {"numeric", "categorical"}, bands : Seq(OperatingEnvelopeBand)]
SessionConditionedRiskRule ==
  [class : RequiredSessionClasses, band : Bands, actions : SUBSET EnvelopeActions, size : 0..2, trades : 0..2,
   posture : OperatingPostures, carry : BOOLEAN]

(* sorted by severity, in the order of declaration within a colour *)
InSeverity(bands) ==
  LET Of(colour) == SelectSeq(bands, LAMBDA b : b.band = colour)
  IN  Of("green") \o Of("yellow") \o Of("red")

(* _validate_band_spec *)
NumericBandsValid(bands) ==
  LET b == InSeverity(bands)
  IN  /\ \A i \in DOMAIN b : b[i].values = {} /\ (b[i].max = NoBound => b[i].band = "red")
      /\ \A i, j \in DOMAIN b :
           /\ i < j /\ b[i].max # NoBound /\ b[j].min # NoBound
           /\ \A k \in (i + 1)..(j - 1) : b[k].max = NoBound
           => b[j].min >= b[i].max
BandsValid(d) ==
  /\ {d.bands[i].band : i \in DOMAIN d.bands} = Bands
  /\ \/ d.kind = "numeric" /\ NumericBandsValid(d.bands)
     \/ /\ d.kind = "categorical"
        /\ \A i, j \in DOMAIN d.bands :
             d.bands[i].values # {} /\ (i # j => d.bands[i].values \cap d.bands[j].values = {})

Distinct(ids) == \A i, j \in DOMAIN ids : i # j => ids[i] # ids[j]
IdsOf(dimensions) == [i \in DOMAIN dimensions |-> dimensions[i].id]
ClassesOf(rules) == [i \in DOMAIN rules |-> rules[i].class]

(* validate_operating_envelope_profile, its part about the session rules *)
RiskProfileValid(risk, profile) ==
  /\ risk.supported /\ risk.profile = profile.id
  /\ {risk.rules[i].class : i \in DOMAIN risk.rules} = RequiredSessionClasses
  /\ Distinct(ClassesOf(risk.rules))
EnvelopeProfileValid(profile, risk) ==
  LET ids == {profile.dimensions[i].id : i \in DOMAIN profile.dimensions}
  IN  /\ profile.supported /\ profile.posture \in OperatingPostures
      /\ Distinct(IdsOf(profile.dimensions))
      /\ RequiredDimensions \cup (IF profile.drift THEN {"signal_score_drift"} ELSE {}) \subseteq ids
      /\ ids \subseteq RequiredDimensions \cup {"signal_score_drift"}
      /\ \A i \in DOMAIN profile.dimensions : BandsValid(profile.dimensions[i])
      /\ risk # NoBound => RiskProfileValid(risk, profile)

(* _matches_numeric_band and _evaluate_dimension: a value no comparison holds of
   lies outside no band, and takes the mildest. *)
InBand(value, b, kind) ==
  IF kind = "categorical" THEN value \in b.values
  ELSE value = NotANumber \/ ((b.min # NoBound => value >= b.min) /\ (b.max # NoBound => value < b.max))
MatchingBands(d, value) == SelectSeq(InSeverity(d.bands), LAMBDA b : InBand(value, b, d.kind))

(* _derive_entry_mode *)
EntryMode(actions) ==
  FirstClosed(<<Gate("forced_flatten" \in actions, "forced_flatten"), Gate("exit_only" \in actions, "exit_only"),
                Gate("entry_suppression" \in actions, "no_new_entries"),
                Gate("passive_entry_suppression" \in actions, "passive_only")>>, "normal")

InvalidEnvelope == [status |-> "invalid", actions |-> {}, size |-> 0, trades |-> 0, mode |-> "no_new_entries", carry |-> FALSE]

(* Schema and posture are supported, both profiles are valid, the session class is
   canonical, and every dimension was observed. *)
EnvelopeEvaluable(profile, risk, values, class, call) ==
  /\ call.supported /\ call.posture \in OperatingPostures
  /\ EnvelopeProfileValid(profile, risk) /\ class \in RequiredSessionClasses
  /\ \A i \in DOMAIN profile.dimensions : profile.dimensions[i].id \in DOMAIN values

RulesFor(rules, class) == Picked(rules, {i \in DOMAIN rules : rules[i].class = class})

(* evaluate_operating_envelope, without an overlay when risk is NoBound *)
EvaluateOperatingEnvelope(profile, risk, values, class, call) ==
  LET dimensions == {profile.dimensions[i] : i \in DOMAIN profile.dimensions}
      found == {MatchingBands(d, values[d.id]) : d \in dimensions}
      rules == IF risk = NoBound THEN <<>> ELSE RulesFor(risk.rules, class)
      results == {Head(f) : f \in found} \cup {rules[i] : i \in {1} \cap DOMAIN rules}
      actions == UNION {r.actions : r \in {s \in results : s.band # "green"}}
  IN  IF ~EnvelopeEvaluable(profile, risk, values, class, call) \/ <<>> \in found \/ (risk # NoBound /\ rules = <<>>)
      THEN InvalidEnvelope
      ELSE [status |-> CHOOSE b \in Bands : /\ \E r \in results : r.band = b
                                            /\ \A r \in results : BandSeverity[r.band] <= BandSeverity[b],
            actions |-> actions,
            size |-> Min({IF rules = <<>> THEN 2 ELSE Head(rules).size} \cup {ActionSize(a) : a \in actions}),
            trades |-> Min({IF rules = <<>> THEN 2 ELSE Head(rules).trades} \cup {ActionTrades(a) : a \in actions}),
            mode |-> EntryMode(actions),
            carry |-> (rules # <<>> => Head(rules).carry) /\ "no_new_overnight_carry" \notin actions]

----------------------------------------------------------------------------
(* The overnight candidate class. *)
StrictCarryActions == {"no_new_overnight_carry", "entry_suppression", "exit_only", "forced_flatten"}
StrictDegradationActions == {"entry_suppression", "exit_only", "forced_flatten"}
StrictBrokerActions == {"exit_only", "forced_flatten"}
CarryTriggers == {"maintenance_window", "severe_data_degradation", "reconciliation_uncertainty", "broker_disconnect"}
MarginBoundaries == {"session_close", "maintenance_window", "next_session_open"}

OvernightEvidenceRecord == [lane : {"paper", "shadow_live"}, scenario : STRING, passed : BOOLEAN, kept : BOOLEAN]
CarryRestrictionRule == [trigger : CarryTriggers, action : EnvelopeActions, blocks : BOOLEAN]
SessionBoundaryMarginCheck ==
  [boundary : MarginBoundaries, basis : {"initial", "maintenance"}, required : Nat, buffer : Nat \cup {NoBound}]

DeclaredStrict(q) == q.allow /\ q.class = "strict_overnight" /\ q.posture = "overnight_strict" /\ q.fit.overnight
FitsOvernight(q) ==
  q.fit.status = "pass" /\ q.fit.overnight /\ q.fit.posture = "overnight_strict" /\ q.fit.gapPassed
(* A dict built from a list keeps the last entry of a key. *)
SessionsProtected(risk) ==
  /\ {"overnight", "maintenance_adjacent", "degraded_data"} \subseteq {risk.rules[i].class : i \in DOMAIN risk.rules}
  /\ LET rule == Last(RulesFor(risk.rules, "overnight")) IN rule.posture = "overnight_strict" /\ rule.carry
  /\ \A class \in {"maintenance_adjacent", "degraded_data"} :
       LET rule == Last(RulesFor(risk.rules, class))
       IN  rule.actions \cap StrictCarryActions # {} /\ ~rule.carry
ScenariosEvidenced(records) ==
  LET shown == {r \in records : r.passed /\ r.kept}
  IN  /\ \A lane \in {"paper", "shadow_live"}, scenario \in {"overnight_hold", "overnight_exit", "restart_while_holding"} :
           \E r \in shown : r.lane = lane /\ r.scenario = scenario
      /\ \A scenario \in {"broker_disconnect", "data_degradation"} : \E r \in shown : r.scenario = scenario
CarryRestricted(rules) ==
  /\ {rules[i].trigger : i \in DOMAIN rules} = CarryTriggers
  /\ \A trigger \in CarryTriggers :
       LET rule == Last(Picked(rules, {i \in DOMAIN rules : rules[i].trigger = trigger}))
       IN  /\ rule.blocks
           /\ rule.action \in CASE trigger = "maintenance_window" -> StrictCarryActions
                                [] trigger = "broker_disconnect" -> StrictBrokerActions
                                [] OTHER -> StrictDegradationActions
(* A report without thresholds has no boundary results at all. *)
MarginsPassed(q) ==
  /\ q.fit.thresholds # NoBound
  /\ {c.boundary : c \in q.margins} = MarginBoundaries
  /\ \A c \in q.margins :
       100 * (c.required + (IF c.buffer = NoBound THEN q.fit.fees ELSE c.buffer))
         <= q.fit.thresholds[c.basis] * q.fit.thresholds.equity

OvernightRequestValid(q) == q.supported /\ q.fit.candidate = q.candidate /\ q.fit.posture = q.posture

(* evaluate_overnight_candidate *)
EvaluateOvernightCandidate(q) ==
  FirstClosed(
    <<Gate(~OvernightRequestValid(q), "invalid"),
      Gate(q.fit.status = "stale", "stale"), Gate(q.fit.status = "invalid", "invalid"),
      Gate(\/ ~DeclaredStrict(q) \/ ~FitsOvernight(q) \/ ~SessionsProtected(q.risk) \/ ~ScenariosEvidenced(q.evidence)
           \/ ~CarryRestricted(q.carry) \/ ~MarginsPassed(q), "blocked")>>, "qualified")

ASSUME TradingLaneAssumption ==
  /\ {MaxLaneWaivers, MaxLaneTime, MaxLanePosition} \subseteq Nat
  /\ EnvelopeProfile.dimensions \in Seq(OperatingEnvelopeDimension)
  /\ \A p \in RiskProfiles : p.rules \in Seq(SessionConditionedRiskRule)
  /\ \A symbol \in DOMAIN LaneDefaults : LaneDefaults[symbol] \in BaselineRiskDefaults
  /\ \A o \in LaneOrders : o.delta \in Int /\ o.terms \in BaselineRiskRequest
  /\ LaneSessions \subseteq RequiredSessionClasses
  /\ WaiverOffers \subseteq PolicyWaiver
  /\ \A q \in OvernightRequests : /\ q.risk # NoBound /\ q.risk.rules \in Seq(SessionConditionedRiskRule)
                                  /\ q.evidence \subseteq OvernightEvidenceRecord
                                  /\ q.carry \in Seq(CarryRestrictionRule)
                                  /\ q.margins \subseteq SessionBoundaryMarginCheck
  /\ \A q \in EngineQuestions :
       /\ RulesOf(q.category, q.about) \subseteq PolicyRuleEvaluation
       /\ q.category = "freshness_check" =>
            q.about.items \subseteq [artifact : IntegrityBound \cup FreshnessBound, dependency : DependencyStates,
                                    freshness : FreshnessStates]
----------------------------------------------------------------------------
VARIABLES
  position,     \* the signed position of the lane
  session,      \* the class of the session
  readings,     \* what the dimensions read
  laneTime,     \* the evaluation clock
  signed,       \* the waivers signed so far
  qualified,    \* the risk profile the candidate last qualified under, or NoLaneRecord
  taken         \* what the last step did on the strength of an answer, or NoLaneRecord

laneVars == <<position, session, readings, laneTime, signed, qualified, taken>>

LaneInit ==
  /\ position = 0 /\ laneTime = 0 /\ signed = {} /\ qualified = NoLaneRecord /\ taken = NoLaneRecord
  /\ session = "regular_comex" /\ readings \in EnvelopeReadings

Between(before, after) == (before >= after /\ after >= 0) \/ (before <= after /\ after <= 0)

(* What a lane that obeys both answers may do with an order. *)
Obeys(action, mode, before, after) ==
  /\ action \notin {"halt", "restrict"}
  /\ action = "flatten" \/ mode = "forced_flatten" => after = 0
  /\ action = "exit_only" \/ mode \in {"no_new_entries", "exit_only"} => Between(before, after)

BaselineRequest(order) ==
  [order.terms EXCEPT !.current = position, !.projected = position + order.delta,
                      !.increases = Size(position + order.delta) > Size(position)]

(* The controls answer a request about a symbol the account has a limit for; about
   any other they raise, and the lane is left without an answer. *)
Limited(q) == q.symbol \in DOMAIN LaneDefaults
LimitsOf(q) == LaneDefaults[q.symbol]

(* The entry modes of the envelope now, with one overlay or another, or none. *)
ModesInForce ==
  {EvaluateOperatingEnvelope(EnvelopeProfile, risk, readings, session, call).mode :
     risk \in RiskProfiles \cup {NoBound}, call \in EnvelopeCalls}

PlaceOrder(order, mode) ==
  LET q == BaselineRequest(order)
  IN  /\ Size(q.projected) <= MaxLanePosition
      /\ Limited(q)
      /\ Obeys(EvaluateBaselineRisk(q, LimitsOf(q), signed, laneTime), mode, position, q.projected)
      /\ position' = q.projected
      /\ taken' = [kind |-> "order", request |-> q]
      /\ UNCHANGED <<session, readings, laneTime, signed, qualified>>

(* The session closes over an open position: it is carried when the rule of the
   session, the controls and the qualification allow it, and closed otherwise. *)
CloseSession(order, call) ==
  LET q == [BaselineRequest(order) EXCEPT !.projected = position, !.overnight = TRUE]
      carried == /\ qualified # NoLaneRecord
                 /\ EvaluateOperatingEnvelope(EnvelopeProfile, qualified, readings, session, call).carry
                 /\ Limited(q)
                 /\ EvaluateBaselineRisk(q, LimitsOf(q), signed, laneTime) \in {"allow", "allow_with_waiver"}
  IN  /\ position # 0 /\ order.delta = 0
      /\ position' = IF carried THEN position ELSE 0
      /\ taken' = IF carried THEN [kind |-> "carry", request |-> q, class |-> session] ELSE NoLaneRecord
      /\ session' \in LaneSessions
      /\ UNCHANGED <<readings, laneTime, signed, qualified>>

(* A candidate is qualified again, under another profile or with other evidence. *)
QualifyOvernight(q) ==
  /\ qualified' = IF EvaluateOvernightCandidate(q) = "qualified" THEN q.risk ELSE NoLaneRecord
  /\ taken' = NoLaneRecord
  /\ UNCHANGED <<position, session, readings, laneTime, signed>>

AskEngine(question) ==
  LET rules == RulesOf(question.category, question.about)
  IN  /\ taken' = [kind |-> "decision", category |-> question.category, about |-> question.about,
                   answer |-> FinalizeTrace(question.category, rules, signed, laneTime)]
      /\ UNCHANGED <<position, session, readings, laneTime, signed, qualified>>

SignWaiver(w) ==
  /\ w \notin signed /\ Cardinality(signed) < MaxLaneWaivers
  /\ signed' = signed \cup {w}
  /\ taken' = NoLaneRecord
  /\ UNCHANGED <<position, session, readings, laneTime, qualified>>
PassLaneTime ==
  /\ laneTime < MaxLaneTime
  /\ laneTime' = laneTime + 1
  /\ taken' = NoLaneRecord
  /\ UNCHANGED <<position, session, readings, signed, qualified>>
ReadDimensions(values, class) ==
  /\ readings' = values /\ session' = class
  /\ taken' = NoLaneRecord
  /\ UNCHANGED <<position, laneTime, signed, qualified>>

SignOrWait == PassLaneTime \/ \E w \in WaiverOffers : SignWaiver(w)
LaneNext ==
  \/ \E mode \in ModesInForce, order \in LaneOrders : PlaceOrder(order, mode)
  \/ \E order \in LaneOrders, call \in EnvelopeCalls : CloseSession(order, call)
  \/ \E q \in OvernightRequests : QualifyOvernight(q)
  \/ \E values \in EnvelopeReadings, class \in LaneSessions : ReadDimensions(values, class)
  \/ SignOrWait

LaneTypeOK ==
  /\ position \in -MaxLanePosition..MaxLanePosition /\ session \in RequiredSessionClasses
  /\ readings \in EnvelopeReadings /\ laneTime \in 0..MaxLaneTime
  /\ signed \subseteq PolicyWaiver
  /\ qualified # NoLaneRecord => qualified.rules \in Seq(SessionConditionedRiskRule)

(* Risk is taken with the consent the policies ask for.  An order that grows the
   position, and a position carried over a close, have a waiver of their own,
   still in force, for every control they trigger; no position is carried out
   of a maintenance-adjacent or degraded session, although the envelope reads
   the first rule of a session class and the qualification reads the last; and
   an answer of the engine that is not a block leaves no rule, and no stale or
   broken artifact, that an unexpired waiver of its category does not name. *)
Covered(category, rule, reason) ==
  \E w \in signed : /\ w.expires # NoExpiry => w.expires >= laneTime
                    /\ \A pair \in {<<w.categories, category>>, <<w.rules, rule>>, <<w.reasons, reason>>} :
                         pair[1] # {} => pair[2] \in pair[1]
RiskIsPermitted ==
  taken # NoLaneRecord =>
    /\ taken.kind = "carry" => taken.class \notin {"maintenance_adjacent", "degraded_data"}
    /\ taken.kind \in {"order", "carry"} /\ (taken.kind = "carry" \/ taken.request.increases) =>
         \A c \in TriggeredControls(taken.request, LimitsOf(taken.request)) :
           Covered("baseline_risk_controls", c, ControlReason(c, taken.request, LimitsOf(taken.request)))
    /\ taken.kind = "decision" /\ taken.answer # "block" =>
         \A r \in RulesOf(taken.category, taken.about) : r.passed \/ Covered(taken.category, r.id, r.reason)
=============================================================================
