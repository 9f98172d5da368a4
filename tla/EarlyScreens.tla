------------------------------ MODULE EarlyScreens ------------------------------
(***************************************************************************)
(* What is asked before anything is tuned.                                 *)
(*                                                                         *)
(* The screens of viability_gate.py and fast_screening.py, on their own:   *)
(* any reading may be screened at any time.  And the two gates of          *)
(* feature_availability.py: which features a surface may decide on, and    *)
(* which contract segment it may hold.  The last answer of the screens and *)
(* the last answer of the gates are kept with what they were asked about.  *)
(***************************************************************************)
EXTENDS ViabilityScreens, Integers, Sequences

CONSTANTS
  NotScreened,    \* nothing screened yet
  LaneReadings,   \* facts the early gate may be given
  FidelityReadings,  \* measurements of a strategy's fidelity that may hold
  EarlyRequests,  \* execution-symbol screens that may be run
  FastRequests    \* fast screening requests that may be made

ASSUME EarlyScreensAssumption ==
  EarlyRequests \subseteq ScreenRequest /\ FastRequests \subseteq FastScreeningRequest

VARIABLE earlyReport   \* the last answer, with what it was asked about

EarlyInit == earlyReport = NotScreened

RunEarlyGate(reading) ==
  earlyReport' = [kind |-> "lane", reading |-> reading, outcome |-> EvaluateViabilityGate(reading)]

RunScreen(q) ==
  earlyReport' = [kind |-> "screen", reading |-> q, outcome |-> EvaluateScreen(q).outcome]

RunFastScreening(q) ==
  earlyReport' = [kind |-> "fast", reading |-> q, outcome |-> EvaluateFastScreening(q)]

RunCalibration(measured, reading) ==
  earlyReport' = [kind |-> "fidelity", reading |-> reading, outcome |-> PromotableForLiveLane(measured, reading)]

EarlyNext ==
  \/ \E reading \in LaneReadings : RunEarlyGate(reading)
  \/ \E q \in EarlyRequests : RunScreen(q)
  \/ \E q \in FastRequests : RunFastScreening(q)
  \/ \E measured \in SUBSET {"FC01", "FC02", "FC03", "FC04"}, reading \in FidelityReadings : RunCalibration(measured, reading)
EarlySpec == EarlyInit /\ [][EarlyNext]_earlyReport

----------------------------------------------------------------------------
(* A lane where more is wrong, and a screen where more failed on the same
   evidence, is never answered more mildly than one where less is. *)
WorseReadingsNeverSoften ==
  /\ (earlyReport # NotScreened /\ earlyReport.kind = "lane") =>
       \A better \in LaneReadings :
         earlyReport.reading \subseteq better
           => Harshness[EvaluateViabilityGate(better)] <= Harshness[earlyReport.outcome]
  /\ (earlyReport # NotScreened /\ earlyReport.kind = "screen") =>
       \A better \in EarlyRequests :
         earlyReport.reading.reading \subseteq better.reading /\ better = [earlyReport.reading EXCEPT !.reading = better.reading]
           => Harshness[EvaluateScreen(better).outcome] <= Harshness[earlyReport.outcome]

----------------------------------------------------------------------------
CONSTANTS
  FeatureRequests,   \* what surfaces ask of the feature gate
  RollRequests,      \* what surfaces ask of the roll policy
  NotAsked           \* nothing asked yet

LatencyOrder == [intra_bar |-> 0, bar_close |-> 1, session_close |-> 2, next_session |-> 3]

FeatureAvailabilityContract ==
  [supported : BOOLEAN, complete : BOOLEAN, barClose : BOOLEAN, sessionClose : BOOLEAN,
   latency : DOMAIN LatencyOrder, profiles : SUBSET STRING]
FeatureAvailabilityGateRequest ==
  [latency : DOMAIN LatencyOrder, profile : STRING, contracts : SUBSET FeatureAvailabilityContract]

(* Faulty variant: the declared latency taken at its word. *)
DeclaredRank(c) == LatencyOrder[c.latency]

(* _required_latency_rank: of the declared latency and the closes waited for, the last. *)
RequiredLatencyRank(c) ==
  LET ranks == {LatencyOrder[c.latency]}
                 \cup (IF c.barClose THEN {LatencyOrder["bar_close"]} ELSE {})
                 \cup (IF c.sessionClose THEN {LatencyOrder["session_close"]} ELSE {})
  IN  CHOOSE r \in ranks : \A s \in ranks : s <= r

(* validate_feature_availability_contract *)
ContractValid(c) ==
  /\ c.supported /\ c.complete /\ c.profiles # {}
  /\ c.sessionClose => c.barClose
  /\ LatencyOrder[c.latency] >= RequiredLatencyRank(c)

(* The verdict on one feature block: its contract, its data, then its timing. *)
BlockVerdict(c, q) ==
  FirstClosed(<<Gate(~ContractValid(c), "invalid"), Gate(q.profile \notin c.profiles, "data_profile"),
                Gate(LatencyOrder[q.latency] < RequiredLatencyRank(c), "timing")>>, "accepted")

(* evaluate_feature_availability_gate *)
EvaluateFeatureGate(q) ==
  LET verdicts == {BlockVerdict(c, q) : c \in q.contracts}
      mismatches == verdicts \cap {"timing", "data_profile"}
  IN  FirstClosed(<<Gate(q.contracts = {} \/ "invalid" \in verdicts, "invalid"),
                    Gate(mismatches = {"timing"}, "incompatible_timing"),
                    Gate(mismatches = {"data_profile"}, "incompatible_data_profile"),
                    Gate(mismatches # {}, "incompatible")>>, "pass")

----------------------------------------------------------------------------
(* What a roll request states, as the facts that hold of it. *)
BindingFacts == {"known_product", "required_fields", "resolved_calendar"}
ActiveContractFacts == {"point_in_time", "delivery_aware", "fence_enforced", "segment_evaluation"}
WindowFacts == {"outside_window", "reviewed_roll", "next_segment"}
RollFacts == BindingFacts \cup ActiveContractFacts \cup WindowFacts

RollPolicySurfaces == {"analytics", "backtest", "replay", "paper", "shadow_live", "live"}
SeriesUsages == {"none", "analytics_only", "visualization_only", "execution"}
RollPolicyRequest ==
  [surface : RollPolicySurfaces, continuous : BOOLEAN, usage : SeriesUsages, facts : SUBSET RollFacts]

RollAnswer(status, action) == [status |-> status, action |-> action]
Refusal(status) == RollAnswer(status, "blocked")

BindingGates(q) ==
  <<Gate("known_product" \notin q.facts, Refusal("invalid")),
    Gate("required_fields" \notin q.facts, Refusal("invalid")),
    Gate("resolved_calendar" \notin q.facts, Refusal("violation"))>>

(* Continuous series are for analytics that say so. *)
SeriesGates(q) ==
  <<Gate(q.usage = "execution" \/ (q.surface # "analytics" /\ q.continuous), Refusal("violation")),
    Gate(q.continuous /\ q.usage \notin {"analytics_only", "visualization_only"}, RollAnswer("invalid", "hold"))>>

ActiveContractGates(q) ==
  <<Gate(~({"point_in_time", "delivery_aware", "fence_enforced"} \subseteq q.facts), Refusal("violation")),
    Gate(q.surface = "backtest" /\ "segment_evaluation" \notin q.facts, Refusal("violation"))>>

(* Inside the delivery window of a product that asks for reviewed rolls, as every
   one of the catalogue does. *)
DeliveryWindowGates(q) ==
  LET inside == "outside_window" \notin q.facts
  IN  <<Gate(inside /\ "reviewed_roll" \notin q.facts, Refusal("violation")),
        Gate(inside /\ "next_segment" \notin q.facts, Refusal("invalid")),
        Gate(inside, RollAnswer("pass", "roll"))>>

(* evaluate_roll_policy *)
EvaluateRollPolicy(q) ==
  FirstClosed(BindingGates(q),
    FirstClosed(SeriesGates(q),
      FirstClosed(ActiveContractGates(q), FirstClosed(DeliveryWindowGates(q), RollAnswer("pass", "hold")))))

ASSUME FeaturePolicyAssumption ==
  FeatureRequests \subseteq FeatureAvailabilityGateRequest /\ RollRequests \subseteq RollPolicyRequest
----------------------------------------------------------------------------
VARIABLE surfaceReport   \* the last answer, with the request it was given to

FeatureInit == surfaceReport = NotAsked

AskFeatureGate(q) ==
  surfaceReport' = [kind |-> "features", request |-> q, status |-> EvaluateFeatureGate(q)]
AskRollPolicy(q) ==
  surfaceReport' = [kind |-> "roll", request |-> q, status |-> EvaluateRollPolicy(q).status]

FeatureNext ==
  \/ \E q \in FeatureRequests : AskFeatureGate(q)
  \/ \E q \in RollRequests : AskRollPolicy(q)
FeatureSpec == FeatureInit /\ [][FeatureNext]_surfaceReport

----------------------------------------------------------------------------
(* The closes that have happened when a decision of a latency class is taken,
   and those a feature waits for, by its own account and by its latency. *)
Past(latency) ==
  CASE latency = "intra_bar" -> {} [] latency = "bar_close" -> {"bar"}
    [] latency = "session_close" -> {"bar", "session"} [] latency = "next_session" -> {"bar", "session", "night"}
Awaits(c) ==
  Past(c.latency) \cup (IF c.barClose THEN {"bar"} ELSE {}) \cup (IF c.sessionClose THEN {"session"} ELSE {})

(* No surface passes that decides on a feature before it is there, and none gains
   a pass, of either gate, by deciding earlier, by binding another feature, or by
   having fewer of the facts the roll policy asks for. *)
SurfacesNeverLookAhead ==
  surfaceReport # NotAsked /\ surfaceReport.status = "pass" =>
    LET q == surfaceReport.request
    IN  /\ surfaceReport.kind = "features" =>
             /\ \A c \in q.contracts : Awaits(c) \subseteq Past(q.latency)
             /\ \A better \in FeatureRequests :
                  /\ better.contracts # {} /\ better.contracts \subseteq q.contracts
                  /\ better.profile = q.profile /\ Past(q.latency) \subseteq Past(better.latency)
                  => EvaluateFeatureGate(better) = "pass"
        /\ surfaceReport.kind = "roll" =>
             \A better \in RollRequests :
               better = [q EXCEPT !.facts = better.facts] /\ q.facts \subseteq better.facts
                 => EvaluateRollPolicy(better).status = "pass"
=============================================================================
