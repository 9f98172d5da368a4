------------------------------ MODULE MCDecisions ------------------------------
(***************************************************************************)
(* The components that keep something between decisions: in the operational *)
(* services the schedule, the readiness packets, the routing of rehearsals, *)
(* the risk controls, the intraday reconciliation, the recovery fence, the  *)
(* watchdog's supervision, the guardian and the live bars; in shared/policy *)
(* the early screens, the feature and roll gates, the lifecycle machines,   *)
(* the repeated compatibility checks, releases and what depends on them,    *)
(* the research store and the deployment packets.  They share no state, so  *)
(* each behaviour runs one of them and leaves the others as they start.     *)
(***************************************************************************)
EXTENDS SessionSchedule, ReadinessPackets, RehearsalRouting, RuntimeRisk, IntradayReconciliation, RecoveryFence,
        WatchdogSupervision, EarlyScreens, DependencyPropagation, ResearchState, DeploymentPackets,
        GuardianEmergency, LiveBars

(* Two kinds of packet with a provider each; up to two calendar entries and three
   windows over four instants, an empty and an inverted interval and an unapproved
   window among them. *)
MCKindOf == [p1 |-> "broker_state", p2 |-> "ledger_close"]
MCHistories == {<<>>, <<"blocked">>}
MCEntries ==
  {[open |-> i[1], close |-> i[2], kind |-> kind] :
     i \in {<<0, 1>>, <<1, 2>>, <<0, 2>>, <<1, 3>>, <<2, 3>>, <<2, 2>>},
     kind \in {"regular", "early_close", "holiday_closure"}}
MCWindows ==
  {[kind |-> kind, from |-> i[1], to |-> i[2], approved |-> TRUE] :
     i \in {<<0, 1>>, <<1, 2>>, <<1, 4>>, <<0, 3>>, <<3, 1>>},
     kind \in {"maintenance", "reset", "delivery", "policy"}}
  \cup {[kind |-> "maintenance", from |-> 0, to |-> 1, approved |-> FALSE]}
MCEntrySets == {{}} \cup {{e, f} : e, f \in MCEntries}
MCWindowSets == {{}} \cup {{v, w, x} : v, w, x \in MCWindows}

(* Every set of at most two breaches, short, flat and long; every pair of views over
   one order, one fill and three positions, with a zero, a positive and a negative
   tolerance. *)
MCPositions == {-2, 0, 1}
MCBreachSets == {{}} \cup {{x, y} : x, y \in Breaches}
MCNetPositions == -1..1
MCTolerances == -1..1

MCVectors ==
  LET V(data, policy, matrix) ==
        [d \in CompatibilityDomains |->
           CASE d = "data_protocol" -> data [] d = "policy_bundle_hash" -> policy
             [] d = Matrix -> matrix [] OTHER -> "v1"]
  IN  {V(x, y, z) : x, y, z \in {"v1", "v2"}} \cup {V(Blank, "v1", "v2")}
MCDeclarations == SUBSET {"data_protocol", "policy_bundle_hash", Matrix} \cup {{"clock"}}

MCValidations ==
  {[counts |-> [f \in FindingClasses |-> IF f \in S THEN 1 ELSE IF f \in N THEN -1 ELSE 0],
    destructiveRewrite |-> rewrite, sourceTruthPreserved |-> truth, failingRecordsPreserved |-> kept] :
     S \in SUBSET FindingClasses, N \in {{}, {"gaps"}}, rewrite, truth, kept \in BOOLEAN}
MCPublications ==
  {[kind |-> kind, version |-> version, filled |-> F, malformed |-> bad] :
     kind \in DOMAIN ReleaseFields \cup {"note"}, version \in {"none", "old", "supported"},
     F \in {ReleaseFields[k] : k \in DOMAIN ReleaseFields}, bad \in {{}, {"protocol_versions"}, {"source_feeds"}}}
MCCertifications ==
  {[versionSupported |-> v, kind |-> kind, evidenceComplete |-> e, canaryRequired |-> required,
    canaryEvidence |-> canary, state |-> state] :
     v, e, required \in BOOLEAN, kind \in {"dataset_release", "note"}, canary \in {{}, {"e1"}},
     state \in {"draft", "certified", "approved", "published", "superseded", "revoked"}}
MCBindings ==
  [requested : {{}, {"p1"}, {"p2"}}, approved : {{}, {"p1"}}, mutableSemantics : {{}, {"latest"}}]
MCCorrections ==
  [impact : DOMAIN AllowedActions, update : {"none_named", "retain", "recertify", "quarantine", "supersede"}]

Run(id, family, parents, state, complete) ==
  [id |-> id, family |-> family, parents |-> parents, state |-> state,
   seeds |-> complete, outputs |-> TRUE, codeDigests |-> TRUE]
MCRunSubmissions ==
  {Run("r1", "f1", parents, "recorded", TRUE) : parents \in {<<>>, <<"r1">>, <<"r2">>}}
  \cup {Run("r2", family, parents, "recorded", TRUE) : family \in {"f1", "f2"}, parents \in {<<>>, <<"r1">>}}
  \cup {Run("r2", "f1", <<>>, "quarantined", TRUE), Run("r1", "f1", <<>>, "recorded", FALSE)}
FamilyDecision(type, evidence, budget, revisit) ==
  [id |-> "d1", family |-> "f1", evidence |-> evidence, state |-> "active", attested |-> TRUE,
   reasons |-> TRUE, type |-> type, budget |-> budget, revisit |-> revisit]
MCDecisionSubmissions ==
  {FamilyDecision("continue", evidence, 5, FALSE) : evidence \in {<<>>, <<"r1">>, <<"r1", "r1">>, <<"r1", "r2">>}}
  \cup {FamilyDecision(type, <<"r2">>, budget, FALSE) : type \in {"pause", "terminate"}, budget \in {0, 5}}

MCFrozen(kernel, payload) ==
  [f \in FrozenFields |-> CASE f = "signal_kernel_digest" -> kernel
                           [] f = "frozen_bundle_payload" -> payload [] OTHER -> "x"]
MCBundles ==
  {[supported |-> TRUE, complete |-> TRUE, contentAddressed |-> TRUE, accountBound |-> FALSE,
    freshnessBound |-> FALSE, constraintsValid |-> TRUE, frozen |-> MCFrozen(kernel, payload), needs |-> {"a1"}] :
     kernel, payload \in {"x", "y"}}
MCRegistrations ==
  {[complete |-> complete, frozen |-> MCFrozen(kernel, "x"), log |-> "x"] :
     complete \in BOOLEAN, kernel \in {"x", "y"}}
MCReplayContexts == [complete : BOOLEAN, log : {"x", "y"}, available : {{}, {"a1"}}]
MCPreflights ==
  {[packet |-> [supported |-> TRUE, complete |-> TRUE, expiriesReadable |-> TRUE, lane |-> lane,
                paperEvidence |-> paper, shadowEvidence |-> shadow, cites |-> {"a1"}],
    supported |-> TRUE, complete |-> TRUE, resolved |-> {"a1"}, verified |-> {"a1"},
    domains |-> CompatibilityDomains, stale |-> stale, superseded |-> {}, failed |-> {}] :
     lane \in PromotionLanes, paper, shadow \in BOOLEAN, stale \in {{}, {"a1"}}}
MCPacketShapes ==
  {[supported |-> TRUE, complete |-> TRUE, aware |-> aware, deployment |-> 0, promotion |-> 0, session |-> 0,
    from |-> 0, to |-> length, status |-> status, clear |-> clear, blockedChecks |-> ~clear] :
     aware \in BOOLEAN, length \in {1, 2}, status \in {"green", "suspect"}, clear \in BOOLEAN}

MCLaneReadings ==
  LET all == UNION {LaneChecks[c] : c \in DOMAIN LaneChecks}
  IN  {all \ UNION {LaneChecks[c] : c \in broken} : broken \in SUBSET DOMAIN LaneChecks}
MCFidelityReadings ==
  LET all == UNION ({CalibrationChecks[c] : c \in DOMAIN CalibrationChecks} \cup {SessionChecks[c] : c \in DOMAIN SessionChecks}
                     \cup {LiveLaneConstraints[c] : c \in DOMAIN LiveLaneConstraints})
  IN  {all, all \ {"slippage_usd"}, all \ {"decision_interval_seconds"}, all \ {"no_queue_position_edge"}}
MCScreenChecks == {"VS01", "VS02", "VS03", "VS05"}
MCEarlyRequests ==
  {[research |-> "GC", execution |-> execution, native |-> native, observed |-> TRUE, measured |-> measured,
    reading |-> UNION {ScreenChecks[c] : c \in DOMAIN ScreenChecks \ broken}] :
     execution \in {"1OZ", "MGC"}, native \in BOOLEAN, measured \in {{"VS02"}, DOMAIN ScreenChecks},
     broken \in SUBSET MCScreenChecks}
MCFastRequests ==
  {[supported |-> TRUE, wellFormed |-> wellFormed, continuation |-> TRUE, abandonment |-> FALSE,
    reading |-> (EligibilityFacts \cup EquivalenceFacts \cup ControlFacts \cup FollowOnFacts) \ broken] :
     wellFormed \in BOOLEAN, broken \in {{}, {"no_other_action"}, {"study_passed", "null_comparison"}}}

(* Contracts that are valid under each latency, declared too early, or of other data. *)
MCContract(latency, bar, session, profiles) ==
  [supported |-> TRUE, complete |-> TRUE, barClose |-> bar, sessionClose |-> session, latency |-> latency,
   profiles |-> profiles]
MCContracts ==
  {MCContract("intra_bar", FALSE, FALSE, {"d1"}), MCContract("bar_close", TRUE, FALSE, {"d1", "d2"}),
   MCContract("session_close", TRUE, TRUE, {"d1"}), MCContract("next_session", TRUE, FALSE, {"d1"}),
   MCContract("bar_close", TRUE, TRUE, {"d1"}), MCContract("session_close", FALSE, TRUE, {"d1"})}
MCFeatureRequests ==
  {[latency |-> latency, profile |-> profile, contracts |-> {c, d} \ omitted] :
     latency \in DOMAIN LatencyOrder, profile \in {"d1", "d2"}, c, d \in MCContracts, omitted \in {{}, MCContracts}}
MCRollRequests ==
  {[surface |-> surface, continuous |-> continuous, usage |-> usage, facts |-> RollFacts \ missing] :
     surface \in {"analytics", "backtest", "live"}, continuous \in BOOLEAN, usage \in SeriesUsages,
     missing \in {{"outside_window", f} : f \in RollFacts}
                 \cup {{f} : f \in RollFacts} \cup {{}, {"resolved_calendar", "fence_enforced"}}}

(* Up to three updates, of two trade prices and two quotes, fresh and stale, with a
   late print above every other price, a crossed quote and one of another symbol,
   a trade and a quote whose price is no number;
   with and without approved fallback, on time and late, with a parity reference
   that fits the trades alone. *)
MCTick(kind, price, age) ==
  [kind |-> kind, native |-> TRUE, corrected |-> FALSE, latePrint |-> FALSE, price |-> price,
   size |-> IF kind = "trade" THEN 1 ELSE 0, bid |-> price, ask |-> price + 1, age |-> age]
MCTicks ==
  {MCTick("trade", 2, 0), MCTick("trade", 3, 0), MCTick("quote", 1, 0), MCTick("quote", 2, 2),
   [MCTick("trade", 5, 0) EXCEPT !.latePrint = TRUE]}
MCOddTicks ==
  {[MCTick("quote", 2, 0) EXCEPT !.ask = 1], [MCTick("trade", 9, 0) EXCEPT !.native = FALSE],
   [MCTick("trade", 9, 0) EXCEPT !.corrected = TRUE], [MCTick("trade", 2, 0) EXCEPT !.size = 0],
   [MCTick("trade", 2, 0) EXCEPT !.price = NaN], [MCTick("quote", 2, 0) EXCEPT !.bid = NaN]}
MCParity ==
  [open |-> 4, high |-> 6, low |-> 4, close |-> 6, volume |-> 2, delay |-> 1, window |-> "regular",
   priceTolerance |-> 1, volumeTolerance |-> 1, delayTolerance |-> 1]
MCBarRequest(updates, fallback, delay, reference) ==
  [entitlement |-> "live_top_of_book", state |-> "tradeable", tradeable |-> TRUE, window |-> "regular",
   fallback |-> fallback, delay |-> delay, maxDelay |-> 2, maxAge |-> 1, staleRestrictBps |-> 5000,
   reference |-> reference, updates |-> updates]
MCBarRequests ==
  {MCBarRequest(updates, TRUE, 1, MCParity) : updates \in [1..3 -> MCTicks]}
  \cup {MCBarRequest(updates, fallback, delay, reference) :
         updates \in {<<>>} \cup [1..2 -> MCTicks], fallback \in BOOLEAN, delay \in {1, 3},
         reference \in {MCParity, NoReference}}
  \cup {MCBarRequest(<<u, v>>, TRUE, 1, reference) :
         u, v \in MCOddTicks \cup {MCTick("trade", 2, 0)}, reference \in {MCParity, NoReference}}
  \cup {[MCBarRequest(<<MCTick("trade", 2, 0)>>, TRUE, 1, NoReference) EXCEPT
           !.entitlement = e, !.state = st, !.tradeable = tradeable] :
         e \in MarketDataEntitlement, st \in {"tradeable", "reset_boundary"}, tradeable \in BOOLEAN}

OperationalComponents ==
  {"schedule", "packets", "routing", "risk", "intraday", "recovery", "supervision", "guardian", "bars"}
PolicyComponents == {"early", "features", "bundle", "service", "subject", "compatibility", "submission", "propagation", "research"}

VARIABLE running   \* the component this behaviour runs
operationalVars ==
  <<installed, readinessVars, routingVars, request, latestIntraday, recoveryVars, supervisionVars, guardianVars, liveBar>>
policyVars == <<earlyReport, surfaceReport, subject, compatibilityVars, submission, propagationVars, researchVars, packetVars>>

(* A component that does not run starts in one fixed state. *)
DecisionsInit ==
  /\ running \in OperationalComponents \cup PolicyComponents
  /\ ScheduleInit /\ ReadinessInit /\ RoutingInit /\ RiskInit /\ IntradayInit /\ RecoveryInit /\ SupervisionInit
  /\ GuardianInit /\ LiveBarsInit
  /\ EarlyInit /\ FeatureInit /\ SubjectInit /\ CompatibilityInit /\ SubmissionInit /\ PropagationInit /\ ResearchInit /\ PacketsInit
  /\ running # "compatibility" => \A d \in CompatibilityDomains : vector.first[d] = "v1"
  /\ running # "propagation" => readiness = "LIVE_ELIGIBLE"

OperationalNext ==
  \/ /\ running = "schedule" /\ ScheduleNext
     /\ UNCHANGED <<readinessVars, routingVars, request, latestIntraday, recoveryVars, supervisionVars, guardianVars, liveBar>>
  \/ /\ running = "packets" /\ ReadinessNext
     /\ UNCHANGED <<installed, routingVars, request, latestIntraday, recoveryVars, supervisionVars, guardianVars, liveBar>>
  \/ /\ running = "routing" /\ RoutingNext
     /\ UNCHANGED <<installed, readinessVars, request, latestIntraday, recoveryVars, supervisionVars, guardianVars, liveBar>>
  \/ /\ running = "risk" /\ RiskNext
     /\ UNCHANGED <<installed, readinessVars, routingVars, latestIntraday, recoveryVars, supervisionVars, guardianVars, liveBar>>
  \/ /\ running = "intraday" /\ IntradayNext
     /\ UNCHANGED <<installed, readinessVars, routingVars, request, recoveryVars, supervisionVars, guardianVars, liveBar>>
  \/ /\ running = "recovery" /\ RecoveryNext
     /\ UNCHANGED <<installed, readinessVars, routingVars, request, latestIntraday, supervisionVars, guardianVars, liveBar>>
  \/ /\ running = "supervision" /\ SupervisionNext
     /\ UNCHANGED <<installed, readinessVars, routingVars, request, latestIntraday, recoveryVars, guardianVars, liveBar>>
  \/ /\ running = "guardian" /\ GuardianNext
     /\ UNCHANGED <<installed, readinessVars, routingVars, request, latestIntraday, recoveryVars, supervisionVars, liveBar>>
  \/ /\ running = "bars" /\ LiveBarsNext
     /\ UNCHANGED <<installed, readinessVars, routingVars, request, latestIntraday, recoveryVars, supervisionVars, guardianVars>>

PolicyNext ==
  \/ /\ running = "features" /\ FeatureNext
     /\ UNCHANGED <<earlyReport, subject, compatibilityVars, submission, propagationVars, researchVars, packetVars>>
  \/ /\ running = "early" /\ EarlyNext
     /\ UNCHANGED <<surfaceReport, subject, compatibilityVars, submission, propagationVars, researchVars, packetVars>>
  \/ /\ running = "subject" /\ SubjectNext
     /\ UNCHANGED <<earlyReport, surfaceReport, compatibilityVars, submission, propagationVars, researchVars, packetVars>>
  \/ /\ running = "compatibility" /\ CompatibilityNext
     /\ UNCHANGED <<earlyReport, surfaceReport, subject, submission, propagationVars, researchVars, packetVars>>
  \/ /\ running = "submission" /\ SubmissionNext
     /\ UNCHANGED <<earlyReport, surfaceReport, subject, compatibilityVars, propagationVars, researchVars, packetVars>>
  \/ /\ running = "propagation" /\ PropagationNext
     /\ UNCHANGED <<earlyReport, surfaceReport, subject, compatibilityVars, submission, researchVars, packetVars>>
  \/ /\ running = "research" /\ ResearchNext
     /\ UNCHANGED <<earlyReport, surfaceReport, subject, compatibilityVars, submission, propagationVars, packetVars>>
  \/ /\ running = "bundle" /\ BundleNext
     /\ UNCHANGED <<earlyReport, surfaceReport, subject, compatibilityVars, submission, propagationVars, researchVars, serviceSideVars>>
  \/ /\ running = "service" /\ ServiceNext
     /\ UNCHANGED <<earlyReport, surfaceReport, subject, compatibilityVars, submission, propagationVars, researchVars, bundleSideVars>>

DecisionsNext ==
  /\ UNCHANGED running
  /\ \/ OperationalNext /\ UNCHANGED policyVars
     \/ PolicyNext /\ UNCHANGED operationalVars

DecisionsSpec == DecisionsInit /\ [][DecisionsNext]_<<running, operationalVars, policyVars>>

(* Worse news is never answered more mildly: one more breached control, one more
   difference between two views, a worse provider report, a reading that holds
   less, a submission with less to show for it, a surface that decides earlier or
   rolls on fewer facts, a bar with staler quotes; and no surface is passed that
   looks ahead, no bar moved by what its builder left out. *)
WorseIsNeverMilder ==
  /\ BreachesNeverRelax /\ DifferencesNeverRelax /\ WorseReportsNeverHelp
  /\ WorseReadingsNeverSoften /\ WeakerEvidenceNeverHelps /\ SurfacesNeverLookAhead
  /\ RejectedUpdatesMoveNoBar

(* Evidence that was recorded stands: a packet history only grows, and a repeated
   rehearsal in the shadow modes records nothing new. *)
RecordsStand == [][[HistoryGrows]_readinessVars /\ EvidenceReused]_<<readinessVars, routingVars>>

(* What is done when the runtime itself is in doubt is safe: a restart or a shutdown
   keeps the holder of a position an exit and halts on unknown state, and no process
   comes back over a shutdown whose barriers were not verified; and the guardian, beside it, issues an emergency at most once
   in the life of its process and suppresses none that was not issued. *)
EmergenciesFailSafe == RecoveryFailsSafe /\ EmergenciesAreIssuedOnce

(* Everything the components retain is well formed. *)
DecisionsTypeOK ==
  /\ ReadinessTypeOK /\ RoutingTypeOK /\ RiskTypeOK /\ IntradayTypeOK /\ RecoveryTypeOK /\ SupervisionTypeOK
  /\ ResearchTypeOK /\ PacketsTypeOK /\ \A m \in DOMAIN Machines : MachineIsWellFormed(m)
=============================================================================
