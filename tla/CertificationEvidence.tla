------------------------- MODULE CertificationEvidence -------------------------
(***************************************************************************)
(* shared/policy/replay_certification.py, bar_parity.py,                   *)
(* fidelity_calibration.py and paper_shadow_stage_policy.py: the evidence  *)
(* a candidate needs before it trades on paper, in shadow and live.        *)
(*                                                                         *)
(* The evaluators keep nothing.  A desk modelled here keeps the log of     *)
(* objective and overnight records, which only grows, the last replay      *)
(* certificate, and the last bar-parity study, which ages.                 *)
(***************************************************************************)
EXTENDS Naturals, Sequences, SequencesExt, FiniteSets, Foundations

CONSTANTS
  NoCertificate,     \* nothing certified yet
  Traces,            \* what a run of the candidate may have produced
  ReplayTerms,       \* the terms a replay may be certified on
  ParityStudies,     \* bar-parity studies that may be presented
  Calibrations,      \* fidelity requests that may be presented
  StageBatches,      \* batches of objective records, one lane each
  OvernightBatches,  \* batches of overnight records
  StageTerms,        \* what a stage request says besides its records
  MaxEvidence,       \* bound: batches kept per lane, and of overnight records
  MaxEvidenceTime    \* bound: instants of the evaluation clock

ASSUME CertificationAssumption == {MaxEvidence, MaxEvidenceTime} \subseteq Nat

----------------------------------------------------------------------------
DecisionStreams == {"signal", "order_intent"}
StateStreams == {"risk_action", "contract_state", "freshness_watermark"}
Streams == DecisionStreams \cup StateStreams
ReplayCertificationRequest ==
  [ready : {"pass", "invalid", "incompatible", "violation"}, incremental : BOOLEAN, prior : BOOLEAN,
   scope : {"none", "narrow", "broad"}]

(* _compare_stream: the indices where two streams differ, up to the longer. *)
DivergentSteps(expected, actual) ==
  {i \in 1..(IF Len(expected) > Len(actual) THEN Len(expected) ELSE Len(actual)) :
     \/ i > Len(expected) \/ i > Len(actual)
     \/ expected[i] # actual[i]}

(* evaluate_replay_certification; paper entry is permitted exactly on a pass. *)
EvaluateReplayCertification(q, expected, actual) ==
  FirstClosed(<<Gate(q.ready # "pass", q.ready),
                Gate(q.incremental /\ ~q.prior, "invalid"),
                Gate(q.incremental /\ q.scope # "narrow", "violation"),
                Gate(\E s \in Streams : DivergentSteps(expected[s], actual[s]) # {}, "violation")>>, "pass")

----------------------------------------------------------------------------
ParityDimensions == {"session_boundaries", "ohlcv_construction", "anchor_timing", "event_window_labeling",
                     "bar_availability_timing"}
(* A measured dimension: each drift is held against its tolerance, and all must hold. *)
DimensionResult == [id : ParityDimensions, drifts : Seq(Nat), tolerances : Seq(Nat)]
DimensionPassed(d) == \A i \in DOMAIN d.drifts : d.drifts[i] <= d.tolerances[i]

ParityStudy ==
  [supported : BOOLEAN, complete : BOOLEAN, approvedFeeds : BOOLEAN, dimensions : Seq(DimensionResult),
   expectations : BOOLEAN, artifacts : BOOLEAN, expires : Nat]

(* Every dimension is there once, and nothing else. *)
DimensionsComplete(study) ==
  /\ Len(study.dimensions) = Cardinality(ParityDimensions)
  /\ {study.dimensions[i].id : i \in DOMAIN study.dimensions} = ParityDimensions

(* The study is of this schema, names what it must, and compares the approved feeds. *)
StudyAdmissible(study) == study.supported /\ study.complete /\ study.approvedFeeds

(* evaluate_databento_ibkr_bar_parity: staleness is answered before drift. *)
EvaluateBarParity(study, now) ==
  FirstClosed(<<Gate(~StudyAdmissible(study), "invalid"),
                Gate(~DimensionsComplete(study), "invalid"),
                Gate(~study.expectations \/ ~study.artifacts, "invalid"),
                Gate(now > study.expires, "stale"),
                Gate(\E i \in DOMAIN study.dimensions : ~DimensionPassed(study.dimensions[i]), "violation")>>, "pass")

----------------------------------------------------------------------------
MinDecisionInterval == 60
SessionCalibration ==
  [class : STRING, interval : Int, sufficient : BOOLEAN, slippage : Nat, allowed : Int, passive : BOOLEAN, refs : BOOLEAN]
FidelityCalibrationRequest ==
  [interval : Int, basis : {"", "bar_close", "one_bar_late", "tick"}, needsPassive : BOOLEAN, bookImbalance : BOOLEAN,
   queueEdge : BOOLEAN, subMinute : BOOLEAN, premiumDepth : BOOLEAN, materialDifference : BOOLEAN,
   sessions : Seq(SessionCalibration)]

SessionClasses(q) == {q.sessions[i].class : i \in DOMAIN q.sessions}
SurfacesSeparated(q) == q.materialDifference => Cardinality(SessionClasses(q)) >= 2

(* _validate_request *)
CalibrationWellFormed(q) ==
  /\ q.interval > 0 /\ q.basis # "" /\ q.sessions # <<>>
  /\ Cardinality(SessionClasses(q)) = Len(q.sessions)
  /\ SurfacesSeparated(q)
  /\ \A i \in DOMAIN q.sessions : q.sessions[i].interval > 0 /\ q.sessions[i].allowed > 0 /\ q.sessions[i].refs

LowerFrequencyLane(q) ==
  /\ q.interval >= MinDecisionInterval /\ q.basis \in {"bar_close", "one_bar_late"}
  /\ ~q.bookImbalance /\ ~q.queueEdge /\ ~q.subMinute /\ ~q.premiumDepth

SessionCredible(s, needsPassive) ==
  s.sufficient /\ s.slippage <= s.allowed /\ (needsPassive => s.passive)

(* evaluate_fidelity_calibration: every session class must hold on its own. *)
EvaluateFidelityCalibration(q) ==
  FirstClosed(<<Gate(~CalibrationWellFormed(q), "invalid"),
                Gate(~LowerFrequencyLane(q) \/ ~SurfacesSeparated(q), "violation"),
                Gate(\E i \in DOMAIN q.sessions : ~SessionCredible(q.sessions[i], q.needsPassive), "violation")>>, "pass")

----------------------------------------------------------------------------
PaperObjectives ==
  {"live_market_data_behavior", "live_bar_construction", "operational_timing", "broker_api_behavior",
   "real_reconciliation_flow", "execution_profile_realism", "databento_ibkr_bar_parity", "strategy_health_drift",
   "data_quality_behavior", "operating_envelope_realism", "account_fit_live_like_conditions"}
ShadowObjectives ==
  {"production_account_entitlements", "contract_conformance_live_lane", "session_reset_and_reconnect_behavior",
   "real_operator_controls", "suppressed_order_mutation_sink", "clean_reconciliation_and_intent_logging"}
StageObjectives == [paper |-> PaperObjectives, shadow_live |-> ShadowObjectives]

(* A batch of records of one lane: every objective of the lane but the missing
   ones is recorded, satisfied unless it failed. *)
ObjectiveBatch(lane) == [lane : {lane}, missing : SUBSET StageObjectives[lane], failed : SUBSET StageObjectives[lane]]
RecordsOf(batches, objective) == Picked(batches, {i \in DOMAIN batches : objective \notin batches[i].missing})

(* Faulty variant: an objective that was ever satisfied stays satisfied. *)
EverSatisfied(batches, objective) ==
  \E i \in DOMAIN batches : objective \notin batches[i].missing \cup batches[i].failed

(* _objective_evidence_index: the last record of an objective is the one that counts. *)
ObjectiveSatisfied(batches, objective) ==
  LET records == RecordsOf(batches, objective)
  IN  records # <<>> /\ objective \notin records[Len(records)].failed

(* _evaluate_stage: nothing missing and nothing failed *)
StageSatisfied(lane, batches) == \A o \in StageObjectives[lane] : ObjectiveSatisfied(batches, o)

LaneScenarios == {"overnight_hold", "overnight_exit", "restart_while_holding"}
GlobalScenarios == {"broker_disconnect", "data_degradation"}
OvernightRecord == [lane : {"paper", "shadow_live"}, scenario : LaneScenarios \cup GlobalScenarios, passed : BOOLEAN]

(* _evaluate_overnight_evidence: here any record that passed counts, also when a
   later record of the same lane and scenario failed. *)
OvernightComplete(class, records) ==
  class # "none" =>
    /\ \A lane \in {"paper", "shadow_live"}, s \in LaneScenarios :
         \E r \in records : r.lane = lane /\ r.scenario = s /\ r.passed
    /\ \A s \in GlobalScenarios : \E r \in records : r.scenario = s /\ r.passed

PaperShadowStageRequest ==
  [supported : BOOLEAN, laneKnown : BOOLEAN, class : {"none", "candidate_specific", "strict_overnight"},
   paperPass : BOOLEAN, shadowPass : BOOLEAN, entitlement : BOOLEAN]

StageRequestValid(q) == q.supported /\ q.laneKnown

PaperStageComplete(lane, q, paper) == StageSatisfied("paper", paper) /\ (lane = "paper" \/ q.paperPass)

(* The shadow stage is evaluated when live is requested or shadow records exist. *)
ShadowStageComplete(lane, q, shadow) ==
  /\ lane = "live" \/ shadow # <<>>
  /\ StageSatisfied("shadow_live", shadow)
  /\ lane = "live" => q.shadowPass /\ q.entitlement

(* evaluate_paper_shadow_stage_policy: paper itself is always permitted. *)
EvaluateStagePolicy(lane, q, paper, shadow, overnight) ==
  FirstClosed(
    <<Gate(~StageRequestValid(q), "REQUEST_INVALID"),
      Gate(lane = "paper", "SATISFIED"),
      Gate(~PaperStageComplete(lane, q, paper), "PAPER_INCOMPLETE"),
      Gate(lane = "live" /\ ~ShadowStageComplete(lane, q, shadow), "SHADOW_INCOMPLETE"),
      Gate(lane = "live" /\ ~OvernightComplete(q.class, overnight), "OVERNIGHT_INCOMPLETE")>>, "SATISFIED")

----------------------------------------------------------------------------
ASSUME EvidenceInputsAssumption ==
  /\ Traces \subseteq [Streams -> Seq(Nat)]
  /\ ReplayTerms \subseteq ReplayCertificationRequest /\ ParityStudies \subseteq ParityStudy
  /\ Calibrations \subseteq FidelityCalibrationRequest /\ StageTerms \subseteq PaperShadowStageRequest
  /\ \A b \in StageBatches : b.lane \in DOMAIN StageObjectives /\ b \in ObjectiveBatch(b.lane)
  /\ \A b \in OvernightBatches : b \subseteq OvernightRecord

VARIABLES
  certificate,   \* NoCertificate, or the traces of the last replay and its answer
  study,         \* NoCertificate, or the last bar-parity study presented
  evidenceTime,  \* the evaluation clock
  parity,        \* the last answer about the study
  fidelity,      \* the last answer about fidelity
  stageLog,      \* per lane, the batches of objective records kept, oldest first
  overnightLog,  \* the batches of overnight records kept, in no order
  permission     \* the stage request that ended the round, and its answer

evidenceVars == <<certificate, study, evidenceTime, parity, fidelity, stageLog, overnightLog, permission>>

EvidenceInit ==
  /\ certificate = NoCertificate /\ study = NoCertificate /\ evidenceTime = 0
  /\ parity = "none" /\ fidelity = "none" /\ permission = NoCertificate
  /\ stageLog = [lane \in {"paper", "shadow_live"} |-> <<>>] /\ overnightLog = {}

CertifyReplay(q, expected, actual) ==
  /\ certificate' = [expected |-> expected, actual |-> actual,
                     status |-> EvaluateReplayCertification(q, expected, actual)]
  /\ UNCHANGED <<study, evidenceTime, parity, fidelity, stageLog, overnightLog, permission>>

PresentStudy(s) ==
  /\ study' = s /\ parity' = EvaluateBarParity(s, evidenceTime)
  /\ UNCHANGED <<certificate, evidenceTime, fidelity, stageLog, overnightLog, permission>>

(* The same study is asked about again, later. *)
AskAgain ==
  /\ study # NoCertificate /\ evidenceTime < MaxEvidenceTime
  /\ evidenceTime' = evidenceTime + 1 /\ parity' = EvaluateBarParity(study, evidenceTime + 1)
  /\ UNCHANGED <<certificate, study, fidelity, stageLog, overnightLog, permission>>

Calibrate(q) ==
  /\ fidelity' = EvaluateFidelityCalibration(q)
  /\ UNCHANGED <<certificate, study, evidenceTime, parity, stageLog, overnightLog, permission>>

RecordObjectives(batch) ==
  /\ permission = NoCertificate /\ Len(stageLog[batch.lane]) < MaxEvidence
  /\ stageLog' = [stageLog EXCEPT ![batch.lane] = Append(@, batch)]
  /\ UNCHANGED <<certificate, study, evidenceTime, parity, fidelity, overnightLog, permission>>

RecordOvernight(batch) ==
  /\ permission = NoCertificate /\ Cardinality(overnightLog) < MaxEvidence
  /\ overnightLog' = overnightLog \cup {batch}
  /\ UNCHANGED <<certificate, study, evidenceTime, parity, fidelity, stageLog, permission>>

(* A request is answered on the records kept so far, and ends the round. *)
RequestStage(lane, q) ==
  /\ permission = NoCertificate
  /\ permission' = [lane |-> lane, terms |-> q,
                    answer |-> EvaluateStagePolicy(lane, q, stageLog.paper, stageLog.shadow_live, UNION overnightLog)]
  /\ UNCHANGED <<certificate, study, evidenceTime, parity, fidelity, stageLog, overnightLog>>

ReplayNext == \E q \in ReplayTerms, expected, actual \in Traces : CertifyReplay(q, expected, actual)
StudyNext == (\E s \in ParityStudies : PresentStudy(s)) \/ AskAgain \/ (\E q \in Calibrations : Calibrate(q))
StageNext ==
  \/ \E batch \in StageBatches : RecordObjectives(batch)
  \/ \E batch \in OvernightBatches : RecordOvernight(batch)
  \/ \E lane \in {"paper", "shadow_live", "live"}, q \in StageTerms : RequestStage(lane, q)

EvidenceSpec == EvidenceInit /\ [][ReplayNext \/ StudyNext \/ StageNext]_evidenceVars

----------------------------------------------------------------------------
EvidenceTypeOK ==
  /\ \A lane \in DOMAIN stageLog : \A i \in DOMAIN stageLog[lane] : stageLog[lane][i] \in ObjectiveBatch(lane)
  /\ UNION overnightLog \subseteq OvernightRecord
  /\ {parity, fidelity} \subseteq {"none", "pass", "violation", "stale", "invalid"}

(* A certificate that permits paper entry is about a replay that produced the
   very streams that were expected, no step less and no step more. *)
CertifiedIsReproduced ==
  (certificate # NoCertificate /\ certificate.status = "pass") => certificate.expected = certificate.actual

(* A candidate that may go live may also go to shadow on the same records, and
   no objective of either stage failed the last time it was recorded: a failure
   after a success takes the permission away until the objective passes again. *)
StagesAreClimbed ==
  (permission # NoCertificate /\ permission.answer = "SATISFIED" /\ permission.lane # "paper") =>
    /\ EvaluateStagePolicy("shadow_live", permission.terms, stageLog.paper, stageLog.shadow_live, {}) = "SATISFIED"
    /\ \A o \in PaperObjectives \cup (IF permission.lane = "live" THEN ShadowObjectives ELSE {}) :
         LET batches == stageLog[IF o \in PaperObjectives THEN "paper" ELSE "shadow_live"]
             recorded == {i \in DOMAIN batches : o \notin batches[i].missing}
         IN  \E i \in recorded : o \notin batches[i].failed /\ \A j \in recorded : j <= i

(* Neither paper, nor shadow, nor live is entered on evidence that is not there. *)
EvidencePrecedesTrading == CertifiedIsReproduced /\ StagesAreClimbed
=============================================================================
