----------------------------- MODULE MCPolicyGates -----------------------------
(***************************************************************************)
(* The policies of shared/policy that judge requests: the evaluation of a  *)
(* candidate, the funding of its family, the recovery documents, the       *)
(* authority over control actions, the evidence before paper, shadow and   *)
(* live, the selection, a live lane, and the review of exceptions.  They   *)
(* share no state, so each behaviour runs one of them and leaves the       *)
(* others as they start.                                                   *)
(***************************************************************************)
EXTENDS CandidateEvaluation, ResearchFunding, RuntimeRecovery, RuntimeAuthority, CertificationEvidence,
        SelectionGates, SoloGovernance

(* Evidence for the evaluation of a candidate: complete, or short of one piece. *)
MCFold(id, passed) == [id |-> id, passed |-> passed, kept |-> TRUE]
MCProtocol ==
  [wellFormed |-> TRUE,
   stages |-> [i \in 1..6 |-> [stage |-> EvaluationStages[i], completed |-> TRUE, kept |-> TRUE]],
   folds |-> <<MCFold("w1", TRUE), MCFold("w2", TRUE)>>,
   parameters |-> {[ratio |-> 2, allowed |-> 2, passed |-> TRUE, kept |-> TRUE]},
   intervals |-> {[lower |-> 0, upper |-> 0, passed |-> TRUE, kept |-> TRUE]},
   omissions |-> [dimension : OmissionDimensions, passed : {TRUE}, kept : {TRUE}],
   power |-> [edge |-> 2, detectable |-> 1, power |-> 8, requiredPower |-> 8, samples |-> 9, requiredSamples |-> 9,
              kept |-> TRUE],
   deep |-> TRUE,
   lockbox |-> [finalists |-> 1, cap |-> 2, accessLogged |-> TRUE, incidents |-> FALSE, reviewed |-> FALSE, kept |-> TRUE],
   freeze |-> [ready |-> TRUE, named |-> TRUE, manifest |-> TRUE, kept |-> TRUE]]
MCProtocolRequests ==
  {MCProtocol,
   [MCProtocol EXCEPT !.lockbox.incidents = TRUE],
   [MCProtocol EXCEPT !.lockbox.incidents = TRUE, !.lockbox.reviewed = TRUE],
   [MCProtocol EXCEPT !.folds = <<MCFold("w1", TRUE), MCFold("w1", TRUE)>>],
   [MCProtocol EXCEPT !.stages[6].completed = FALSE, !.freeze.ready = FALSE]}
MCAccesses ==
  {[logged |-> logged, approved |-> TRUE, finalists |-> {"c1"}, purpose |-> "final_review", ranking |-> ranking] :
     logged, ranking \in BOOLEAN}
  \cup {[logged |-> TRUE, approved |-> TRUE, finalists |-> {"c1", "c2"}, purpose |-> "admit_finalists", ranking |-> FALSE]}
MCIncidents == LockboxIncidentRecord
MCTrial(id, disposition) ==
  [id |-> id, seed |-> 1, referenced |-> TRUE, kept |-> TRUE, disposition |-> disposition, reason |-> FALSE]
MCRun(id, family, subfamily, parents, seeds) ==
  [id |-> id, family |-> family, subfamily |-> subfamily, seeds |-> seeds, outputs |-> TRUE, codeDigests |-> TRUE,
   parents |-> parents]
MCBatch(run, stage, trials) ==
  [supported |-> TRUE, run |-> run, family |-> "f1", subfamily |-> "s1",
   decision |-> [family |-> "f1", type |-> "continue", state |-> "active", budget |-> 1, evidence |-> <<"r0">>,
                 attested |-> TRUE],
   prior |-> SubSeq(TuningStages, 1, stage - 1), stage |-> TuningStages[stage], anchored |-> TRUE,
   liveEligible |-> TRUE, deep |-> TRUE, researchKernel |-> "k1", liveKernel |-> "k1",
   replayable |-> TRUE, seeds |-> {1}, trials |-> trials, logged |-> TRUE, outcome |-> "freeze", reasons |-> TRUE]
MCTuningBatches ==
  {MCBatch(run, stage, <<MCTrial("t1", disposition)>>) :
     run \in {MCRun("r1", "f1", "s1", {}, TRUE), MCRun("r2", "f1", "s1", {"r1"}, TRUE)},
     stage \in {1, 3}, disposition \in {"finalist", "prune"}}
  \cup {[MCBatch(run, 3, <<MCTrial("t1", "finalist")>>) EXCEPT !.family = run.family] :
          run \in {MCRun("r1", "f2", "s1", {}, TRUE), MCRun("r1", "f1", "s2", {}, TRUE), MCRun("r1", "f1", "s1", {}, FALSE)}}

MCBudgetLimits ==
  [trials |-> 1, data |-> 1, compute |-> 1, hours |-> 1, exploratory |-> 1, continuation |-> 2, screened |-> TRUE]
MCClosureReviews ==
  [tradable : BOOLEAN, net : {-1, 1}, threshold : {0}, friction : {0, 1}, approvedCapital : {1}, requiredCapital : {1, 2},
   hours : {1}, maxHours : {1}, offers : SUBSET {"intraday", "alternate_symbol", "paper", "higher_capital"}]

MCSignals(connected, fresh, mismatch, latency) ==
  [dataFresh |-> fresh, staleQuotes |-> 0, parityHealthy |-> TRUE, connected |-> connected, clockSynced |-> TRUE,
   latency |-> latency, policyHealthy |-> TRUE, mismatch |-> mismatch]
MCSignalSets == {MCSignals(c, f, m, l) : c, f, m \in BOOLEAN, l \in {1000, 1001}}
MCRecoveryRequests ==
  {[supported |-> TRUE, complete |-> TRUE, recovering |-> TRUE, entriesFenced |-> fenced, mutationsBlocked |-> TRUE,
    positionsReconciled |-> reconciled, ordersReconciled |-> TRUE, mappingsRepaired |-> TRUE, ambiguous |-> FALSE,
    disposition |-> disposition, reset |-> reset, packet |-> packet] :
     fenced, reconciled, reset \in BOOLEAN, disposition \in {"none", "halt", "flatten"},
     packet \in {"none", "not_green", "other_deployment", "green"}}
MCLedgerCloses ==
  [supported : {TRUE}, complete : {TRUE}, reviewed : BOOLEAN, reviewNamed : BOOLEAN, discrepancy : {FALSE},
   eligibility : {"eligible", "blocked", "review_required"}, cash : BOOLEAN, commissions : {TRUE}, margin : {TRUE}]
MCRestoreDrills ==
  [supported : {TRUE}, complete : {TRUE}, offHost : {TRUE}, digestChain : BOOLEAN, cleanHost : {TRUE},
   recovering : {TRUE}, brokerClean : BOOLEAN, waiver : BOOLEAN, rpoTarget : {1}, rpo : {1}, rtoTarget : {1}, rto : {1, 2},
   visible : {TRUE}]
MCLabels ==
  {[correlation |-> 1, decision |-> 1, artifact |-> TRUE], [correlation |-> 2, decision |-> 1, artifact |-> TRUE],
   [correlation |-> 1, decision |-> 2, artifact |-> FALSE]}
MCRequiredPaths == {{}, {"opsd"}, {"guardian", "watchdog"}}

MCTrace(n, last) ==
  [s \in Streams |-> IF s = "order_intent" THEN [i \in 1..n |-> IF i = n THEN last ELSE 1] ELSE <<1>>]
MCTraces == {MCTrace(n, last) : n \in 0..2, last \in {1, 2}}
MCParity(expires, drift, dimensions) ==
  [supported |-> TRUE, complete |-> TRUE, approvedFeeds |-> TRUE,
   dimensions |-> [i \in 1..Len(dimensions) |-> [id |-> dimensions[i], drifts |-> <<0, drift>>, tolerances |-> <<1, 1>>]],
   expectations |-> TRUE, artifacts |-> TRUE, expires |-> expires]
MCDimensions == <<"session_boundaries", "ohlcv_construction", "anchor_timing", "event_window_labeling",
                  "bar_availability_timing">>
MCParityStudies ==
  {MCParity(expires, drift, dims) :
     expires \in 0..2, drift \in 0..2, dims \in {MCDimensions, <<"anchor_timing">>}}
MCCalibrations ==
  {[interval |-> interval, basis |-> basis, needsPassive |-> passive, bookImbalance |-> FALSE, queueEdge |-> FALSE,
    subMinute |-> FALSE, premiumDepth |-> FALSE, materialDifference |-> different,
    sessions |-> [i \in 1..count |-> [class |-> <<"day", "overnight">>[i], interval |-> 60, sufficient |-> TRUE,
                                      slippage |-> slippage, allowed |-> 1, passive |-> i = 1, refs |-> TRUE]]] :
     interval \in {59, 60}, basis \in {"bar_close", "tick"}, passive, different \in BOOLEAN, count \in {1, 2},
     slippage \in {1, 2}}
MCStageBatches ==
  {[lane |-> lane, missing |-> missing \cap StageObjectives[lane], failed |-> {}] : lane \in {"paper", "shadow_live"},
     missing \in {{}, {"live_market_data_behavior", "suppressed_order_mutation_sink"}}}
  \cup {[lane |-> "paper", missing |-> PaperObjectives \ failed, failed |-> failed] :
          failed \in {{"live_market_data_behavior"}, {"broker_api_behavior"}}}
  \cup {[lane |-> "shadow_live", missing |-> {}, failed |-> {"real_operator_controls"}]}
MCOvernightBatches ==
  {[lane : {"paper"}, scenario : LaneScenarios, passed : {TRUE}],
   [lane : {"shadow_live"}, scenario : LaneScenarios \cup GlobalScenarios, passed : {TRUE}],
   [lane : {"paper"}, scenario : {"overnight_hold"}, passed : {FALSE}]}
MCStageTerms ==
  {[supported |-> TRUE, laneKnown |-> TRUE, class |-> "strict_overnight", paperPass |-> paper, shadowPass |-> TRUE,
    entitlement |-> TRUE] : paper \in BOOLEAN}
  \cup {[supported |-> TRUE, laneKnown |-> TRUE, class |-> "none", paperPass |-> TRUE, shadowPass |-> shadow,
          entitlement |-> TRUE] : shadow \in BOOLEAN}

MCScreens ==
  {[research |-> "GC", execution |-> execution, native |-> native, observed |-> TRUE, measured |-> DOMAIN ScreenChecks,
    reading |-> UNION {ScreenChecks[c] : c \in DOMAIN ScreenChecks \ broken}] :
     execution \in {"1OZ", "MGC"}, native \in BOOLEAN, broken \in {{}, {"VS01"}}}
MCSymbolCertification(execution, history, native, broken) ==
  [research |-> "GC", execution |-> execution, screened |-> FALSE, studied |-> TRUE,
   measured |-> DOMAIN AgreementChecks \cup DOMAIN EconomicsChecks,
   reading |-> UNION {AgreementChecks[c] : c \in DOMAIN AgreementChecks \ broken}
                 \cup UNION {EconomicsChecks[c] : c \in DOMAIN EconomicsChecks \ broken},
   history |-> history, native |-> native]
MCSymbolCertifications ==
  {MCSymbolCertification("1OZ", TRUE, "passed", {}), MCSymbolCertification("1OZ", TRUE, "none", {}),
   MCSymbolCertification("MGC", FALSE, "none", {}), MCSymbolCertification("MGC", FALSE, "none", {"PT05"})}
(* 1 contract at 5 a side against 10% of 1000 of equity *)
MCFit(symbol, initial, until) ==
  [wellFormed |-> TRUE, aligned |-> TRUE, symbol |-> symbol, contracts |-> 1, overnight |-> TRUE, daily |-> 90,
   drawdown |-> 90, gap |-> 90,
   margin |-> [initial |-> initial, maintenance |-> 80, from |-> 0, to |-> until],
   fee |-> [perSide |-> 5, from |-> 0, to |-> 1],
   thresholds |-> [approvedSymbols |-> {"1OZ", "MGC"}, maxSize |-> 1, equity |-> 1000, initial |-> 10, maintenance |-> 10,
                   daily |-> 10, drawdown |-> 10, gap |-> 10]]
MCFitRequests == {MCFit("1OZ", 90, 0), MCFit("MGC", 90, 1), MCFit("MGC", 91, 1)}
MCDollars(symbol, net, alternative) ==
  [supported |-> TRUE, family |-> "f1", symbol |-> symbol, equity |-> 10, margin |-> 4, net |-> net, gold |-> 1, cash |-> 1,
   downside |-> 0, floor |-> 3, goldExcess |-> 1, cashExcess |-> 1, downsideFloor |-> 0,
   alternative |-> alternative, hours |-> 2, alternativeHours |-> 1]
MCDollarRequests ==
  {MCDollars("1OZ", 3, NoEvidence), MCDollars("MGC", 3, NoEvidence), MCDollars("MGC", 4, 2),
   [MCDollars("MGC", 3, NoEvidence) EXCEPT !.family = "f2"]}
MCSelection(candidate, asked, ranked) ==
  [candidate |-> candidate, family |-> "f1", afterCost |-> [candidate |-> candidate, family |-> "f1", passed |-> TRUE],
   accounting |-> [family |-> "f1", separated |-> TRUE], supported |-> TRUE, bundled |-> TRUE, asked |-> asked,
   ranked |-> ranked]
MCSelectionTerms ==
  {MCSelection(candidate, asked, ranked) : candidate \in {"c1", "c2"}, asked \in {"1OZ", "MGC"}, ranked \in BOOLEAN}
  \cup {[MCSelection("c1", "MGC", FALSE) EXCEPT !.afterCost.candidate = "c2"],
        [MCSelection("c1", "MGC", FALSE) EXCEPT !.accounting.family = "f2"]}

MCBand(colour, min, max, actions) == [band |-> colour, min |-> min, max |-> max, values |-> {}, actions |-> actions]
MCDimension(id, yellow, red) ==
  [id |-> id, kind |-> "numeric",
   bands |-> <<MCBand("red", 2, NoBound, red), MCBand("green", NoBound, 1, {}), MCBand("yellow", 1, 2, yellow)>>]
MCEventDimension ==
  [id |-> "session_or_event_class", kind |-> "categorical",
   bands |-> <<[MCBand("green", NoBound, NoBound, {}) EXCEPT !.values = {"calm"}],
               [MCBand("yellow", NoBound, NoBound, {"size_reduction"}) EXCEPT !.values = {"event"}],
               [MCBand("red", NoBound, NoBound, {"entry_suppression"}) EXCEPT !.values = {"shock"}]>>]
MCEnvelopeProfile ==
  [id |-> "p1", supported |-> TRUE, posture |-> "intraday_flat_default", drift |-> FALSE,
   dimensions |->
     <<MCEventDimension, MCDimension("spread_regime", {"passive_entry_suppression"}, {"forced_flatten"}),
       MCDimension("stale_quote_rate", {"lower_max_trades"}, {"exit_only"}),
       MCDimension("live_bar_parity_degradation", {"no_new_overnight_carry"}, {"exit_only"}),
       MCDimension("realized_volatility_bucket", {}, {}), MCDimension("freshness_watermark_lag", {}, {}),
       MCDimension("broker_round_trip_latency", {}, {})>>]
MCReadings(spread, degradation, event) ==
  [d \in RequiredDimensions |-> CASE d = "spread_regime" -> spread [] d = "live_bar_parity_degradation" -> degradation
                                  [] d = "session_or_event_class" -> event [] OTHER -> 0]
MCEnvelopeReadings ==
  {MCReadings(0, 0, "calm"), MCReadings(NotANumber, 1, "event"), MCReadings(2, 2, "shock"), MCReadings(0, 0, "unheard-of")}
MCRule(class, carry) ==
  [class |-> class, band |-> IF carry THEN "green" ELSE "yellow", actions |-> IF carry THEN {} ELSE {"no_new_overnight_carry"},
   size |-> 2, trades |-> 2, posture |-> "overnight_strict", carry |-> carry]
MCRules ==
  <<MCRule("overnight", TRUE), MCRule("regular_comex", TRUE), MCRule("macro_event", TRUE),
    MCRule("maintenance_adjacent", FALSE), MCRule("degraded_data", FALSE)>>
MCRiskProfile(supported, rules) == [supported |-> supported, profile |-> "p1", rules |-> rules]
MCRiskProfiles ==
  {MCRiskProfile(TRUE, MCRules), MCRiskProfile(FALSE, MCRules),
   MCRiskProfile(TRUE, <<MCRule("degraded_data", TRUE)>> \o MCRules)}
MCEnvelopeCalls ==
  {[supported |-> TRUE, posture |-> "overnight_strict"], [supported |-> TRUE, posture |-> "unheard-of"]}
MCLaneDefaults ==
  InheritedDefaults([maxPositionBySymbol |-> [symbol \in {"1OZ"} |-> 1], dailyLoss |-> 5, drawdown |-> 9, initial |-> 10, maintenance |-> 10,
                     strictOvernight |-> TRUE],
                    [bars |-> 1, minutes |-> 0, seed |-> FALSE])
MCTerms ==
  [known |-> TRUE, symbol |-> "1OZ", current |-> 0, projected |-> 0, pending |-> 0, degraded |-> FALSE, increases |-> FALSE, loss |-> 0,
   drawdown |-> 0, delivery |-> FALSE, bars |-> 1, minutes |-> 0, seeded |-> FALSE, initial |-> 10, maintenance |-> 10,
   posture |-> "overnight_strict", overnight |-> FALSE, approved |-> TRUE]
MCLaneOrders ==
  [delta : {0}, terms : {MCTerms, [MCTerms EXCEPT !.loss = 5],
                         [MCTerms EXCEPT !.approved = FALSE, !.posture = "intraday_flat_default"],
                         [MCTerms EXCEPT !.approved = FALSE]}]
  \cup [delta : {-1, 1},
        terms : {MCTerms, [MCTerms EXCEPT !.bars = 0], [MCTerms EXCEPT !.bars = 0, !.degraded = TRUE],
                 [MCTerms EXCEPT !.loss = 5, !.pending = 2], [MCTerms EXCEPT !.initial = 11],
                 [MCTerms EXCEPT !.drawdown = 9], [MCTerms EXCEPT !.delivery = TRUE],
                 [MCTerms EXCEPT !.symbol = "MGC"]}]
MCWaiver(category, rule, reason, expires) ==
  [categories |-> category, rules |-> rule, reasons |-> reason, expires |-> expires]
MCWaiverOffers ==
  {MCWaiver({}, {}, {}, 1), MCWaiver({"baseline_risk_controls"}, {"warmup_hold"}, {}, NoExpiry),
   MCWaiver({"baseline_risk_controls", "freshness_check"}, {}, {"overnight_approval_required", "ARTIFACT_FRESHNESS_EXPIRED"}, 1)}
MCOvernightEvidence ==
  [lane : {"paper", "shadow_live"}, scenario : {"overnight_hold", "overnight_exit", "restart_while_holding"},
   passed : {TRUE}, kept : {TRUE}]
  \cup [lane : {"paper"}, scenario : {"broker_disconnect", "data_degradation"}, passed : {TRUE}, kept : {TRUE}]
MCOvernight(risk, evidence, action, required, status) ==
  [supported |-> TRUE, candidate |-> "c1", class |-> "strict_overnight", allow |-> TRUE, posture |-> "overnight_strict",
   fit |-> [candidate |-> "c1", posture |-> "overnight_strict", overnight |-> TRUE, status |-> status, gapPassed |-> TRUE,
            fees |-> 5, thresholds |-> [equity |-> 100, initial |-> 10, maintenance |-> 10]],
   risk |-> risk, evidence |-> evidence,
   carry |-> <<[trigger |-> "broker_disconnect", action |-> "maintain", blocks |-> FALSE],
               [trigger |-> "maintenance_window", action |-> "no_new_overnight_carry", blocks |-> TRUE],
               [trigger |-> "severe_data_degradation", action |-> "entry_suppression", blocks |-> TRUE],
               [trigger |-> "reconciliation_uncertainty", action |-> "exit_only", blocks |-> TRUE],
               [trigger |-> "broker_disconnect", action |-> action, blocks |-> TRUE]>>,
   margins |-> [boundary : MarginBoundaries, basis : {"initial"}, required : {required}, buffer : {NoBound}]]
MCOvernightRequests ==
  {MCOvernight(risk, MCOvernightEvidence, "exit_only", 5, "pass") : risk \in MCRiskProfiles}
  \cup {MCOvernight(MCRiskProfile(TRUE, SubSeq(MCRules, 1, 4)), MCOvernightEvidence, "exit_only", 5, "pass"),
        MCOvernight(MCRiskProfile(TRUE, MCRules), MCOvernightEvidence, "entry_suppression", 5, "pass"),
        MCOvernight(MCRiskProfile(TRUE, MCRules), MCOvernightEvidence, "exit_only", 6, "pass"),
        MCOvernight(MCRiskProfile(TRUE, MCRules), MCOvernightEvidence, "exit_only", 5, "stale"),
        MCOvernight(MCRiskProfile(TRUE, MCRules), {}, "exit_only", 5, "pass")}
MCItem(artifact, dependency, freshness) == [artifact |-> artifact, dependency |-> dependency, freshness |-> freshness]
MCPassed == [status |-> "pass", reason |-> "PASSED"]
MCHeld == [status |-> "violation", reason |-> "PACKET_HELD"]
MCStale == [status |-> "violation", reason |-> "PACKET_STALE"]
MCNoReport == [status |-> "none", reason |-> "none"]
MCEngineQuestions ==
  {[category |-> "freshness_check", about |-> [items |-> items]] :
     items \in SUBSET {MCItem("portability_study", "valid", "expired"), MCItem("dataset_release", "valid", "expired"),
                      MCItem("fee_schedule_snapshot", "revoked", "fresh"),
                      MCItem("portability_study", "valid", "not_applicable")}}
  \cup {[category |-> "promotion_decision", about |-> [aligned |-> aligned, packet |-> packet, chain |-> chain]] :
          aligned \in BOOLEAN, packet \in {MCPassed, MCHeld}, chain \in {MCNoReport, MCPassed, MCHeld}}
  \cup {[category |-> "session_readiness", about |-> [aligned |-> TRUE, record |-> record, packet |-> MCPassed]] :
          record \in {MCPassed, MCHeld, MCStale}}
  \cup {[category |-> "lifecycle_transition", about |-> [transition |-> report]] : report \in {MCPassed, MCHeld}}

(* Two good steps, the second again without evidence, and one of somebody else;
   waivers that lapse, lapse at once or lack a field; incidents closed and not. *)
MCStepForms ==
  {[id |-> "s1", by |-> "op", evidence |-> TRUE], [id |-> "s2", by |-> "op", evidence |-> TRUE],
   [id |-> "s2", by |-> "op", evidence |-> FALSE], [id |-> "s3", by |-> "other", evidence |-> TRUE]}
MCGoverned(filled, issued, w) == [filled |-> filled, issued |-> issued, policy |-> w]
MCGovernedWaivers ==
  {MCGoverned(TRUE, 0, w) : w \in {o \in MCWaiverOffers : o.expires # NoExpiry}}
  \cup {MCGoverned(filled, 1, MCWaiver({}, {}, {}, 1)) : filled \in BOOLEAN}
MCIncident(due, closed, summary) == [filled |-> TRUE, opened |-> 1, due |-> due, closed |-> closed, summary |-> summary]
MCGovernedIncidents ==
  {MCIncident(1, 1, TRUE), MCIncident(1, 1, FALSE), MCIncident(1, NoLaneRecord, TRUE), MCIncident(1, 0, TRUE),
   MCIncident(0, 1, TRUE)}
MCCase(live, waiver, incident) == [live |-> live, waiver |-> waiver, incident |-> incident]
MCExceptionCases ==
  {MCCase(TRUE, w, NoLaneRecord) : w \in MCGovernedWaivers} \cup {MCCase(TRUE, NoLaneRecord, i) : i \in MCGovernedIncidents}
  \cup {MCCase(live, NoLaneRecord, NoLaneRecord) : live \in BOOLEAN}
  \cup {MCCase(FALSE, w, MCIncident(1, 1, TRUE)) : w \in MCGovernedWaivers}

Components == {"evaluation", "tuning", "funding", "closure", "recovery", "authority", "replay", "study", "stage", "selection", "lane", "governance"}

VARIABLE running   \* the component this behaviour runs
gateVars == <<running, evaluationVars, fundingVars, recoveryVars, authorityVars, evidenceVars, selectionVars, laneVars,
              governanceVars>>

(* A component that does not run starts in one fixed state. *)
GatesInit ==
  /\ running \in Components
  /\ EvaluationInit /\ FundingInit /\ RuntimeRecoveryInit /\ AuthorityInit /\ EvidenceInit /\ SelectionInit /\ LaneInit
  /\ GovernanceInit
  /\ running # "evaluation" => evaluation = MCProtocol
  /\ running # "lane" => readings = MCReadings(0, 0, "calm")
  /\ running # "recovery" => observed = MCSignals(TRUE, TRUE, FALSE, 1000)

GatesNext ==
  /\ UNCHANGED running
  /\ \/ /\ \/ running = "evaluation" /\ EvaluationNext
           \/ running = "tuning" /\ TuningNext
        /\ UNCHANGED <<fundingVars, recoveryVars, authorityVars, evidenceVars, selectionVars, laneVars, governanceVars>>
     \/ /\ \/ running = "funding" /\ FundingNext
           \/ running = "closure" /\ ClosureNext
        /\ UNCHANGED <<evaluationVars, recoveryVars, authorityVars, evidenceVars, selectionVars, laneVars, governanceVars>>
     \/ running = "recovery" /\ RuntimeRecoveryNext
        /\ UNCHANGED <<evaluationVars, fundingVars, authorityVars, evidenceVars, selectionVars, laneVars, governanceVars>>
     \/ running = "authority" /\ AuthorityNext
        /\ UNCHANGED <<evaluationVars, fundingVars, recoveryVars, evidenceVars, selectionVars, laneVars, governanceVars>>
     \/ /\ \/ running = "replay" /\ ReplayNext
           \/ running = "study" /\ StudyNext
           \/ running = "stage" /\ StageNext
        /\ UNCHANGED <<evaluationVars, fundingVars, recoveryVars, authorityVars, selectionVars, laneVars, governanceVars>>
     \/ running = "selection" /\ SelectionNext
        /\ UNCHANGED <<evaluationVars, fundingVars, recoveryVars, authorityVars, evidenceVars, laneVars, governanceVars>>
     \/ /\ \/ running = "lane" /\ LaneNext /\ UNCHANGED governanceVars
           \/ running = "governance" /\ GovernanceNext
        /\ UNCHANGED <<evaluationVars, fundingVars, recoveryVars, authorityVars, evidenceVars, selectionVars>>

GatesSpec == GatesInit /\ [][GatesNext]_gateVars

(* What the components keep is well formed: nothing of a family is authorised
   beyond its cap, entered beyond what it spent, or granted to a module that does
   not own it. *)
GatesTypeOK ==
  /\ EvaluationTypeOK /\ FundingTypeOK /\ RuntimeRecoveryTypeOK /\ AuthorityTypeOK /\ EvidenceTypeOK
  /\ SelectionTypeOK /\ LaneTypeOK /\ GovernanceTypeOK
=============================================================================
