-------------------------- MODULE CandidateEvaluation --------------------------
(***************************************************************************)
(* shared/policy/evaluation_protocol.py, lockbox_policy.py and             *)
(* promotable_tuning.py: how a family's candidate is tuned, evaluated      *)
(* stage by stage, opened to the lockbox, and frozen.                      *)
(*                                                                         *)
(* Each module judges a request; the campaign modelled here accumulates    *)
(* the evidence of its requests step by step and never forgets any of it.  *)
(* A piece of evidence is abstracted to the gates it must pass.            *)
(***************************************************************************)
EXTENDS Integers, FiniteSets, SequencesExt, GateChain

CONSTANTS
  Candidates,       \* candidates of the family
  Accesses,         \* accesses to the lockbox that may happen
  Incidents,        \* contamination incidents that may be recorded
  ProtocolRequests, \* the evidence an evaluation may present
  TuningBatches,    \* the tuning batches that may be submitted
  NoDecision,       \* nothing evaluated yet
  FinalistCap,
  MaxBatches, MaxAccesses  \* bounds: batches submitted, accesses and incidents

ASSUME CandidateEvaluationAssumption ==
  FinalistCap \in Nat \ {0} /\ {MaxBatches, MaxAccesses} \subseteq Nat

----------------------------------------------------------------------------
EvaluationStages == <<"screening", "validation", "stress", "omission", "lockbox", "candidate_freeze">>
OmissionDimensions == {"regime", "segment", "anchor", "event_cluster"}

Sound(evidence) == evidence.passed /\ evidence.kept

WalkForwardFold == [id : STRING, passed : BOOLEAN, kept : BOOLEAN]
ParameterStability == [ratio : Nat, allowed : Nat, passed : BOOLEAN, kept : BOOLEAN]
BootstrapInterval == [lower : Int, upper : Int, passed : BOOLEAN, kept : BOOLEAN]
OmissionCheck == [dimension : OmissionDimensions, passed : BOOLEAN, kept : BOOLEAN]
PowerAnalysis ==
  [edge : Int, detectable : Nat, power : Nat, requiredPower : Nat, samples : Nat, requiredSamples : Nat,
   kept : BOOLEAN]
LockboxEvidence ==
  [finalists : Nat, cap : Nat, accessLogged : BOOLEAN, incidents : BOOLEAN, reviewed : BOOLEAN, kept : BOOLEAN]
CandidateFreezeEvidence == [ready : BOOLEAN, named : BOOLEAN, manifest : BOOLEAN, kept : BOOLEAN]
EvaluationStageRecord == [stage : STRING, completed : BOOLEAN, kept : BOOLEAN]
EvaluationProtocolRequest ==
  [wellFormed : BOOLEAN, stages : Seq(EvaluationStageRecord), folds : Seq(WalkForwardFold),
   parameters : SUBSET ParameterStability, intervals : SUBSET BootstrapInterval, omissions : SUBSET OmissionCheck,
   power : PowerAnalysis, deep : BOOLEAN, lockbox : LockboxEvidence, freeze : CandidateFreezeEvidence]

(* _validate_request; wellFormed is the presence of its names and versions. *)
ProtocolWellFormed(q) ==
  /\ q.wellFormed
  /\ \A i, j \in DOMAIN q.stages : q.stages[i].stage = q.stages[j].stage => i = j
  /\ \A c \in q.parameters : c.allowed > 0
  /\ \A b \in q.intervals : b.upper >= b.lower
  /\ 0 \notin {q.power.power, q.power.requiredPower, q.power.samples, q.power.requiredSamples, q.lockbox.cap}

(* EP01: the records name the stages in order, and those completed come first. *)
StagesInOrder(records) ==
  LET completed == SelectSeq(records, LAMBDA r : r.completed)
      Names(rs) == [i \in DOMAIN rs |-> rs[i].stage]
  IN  /\ Names(records) = EvaluationStages
      /\ IsPrefix(Names(completed), EvaluationStages)

(* EP02 *)
EvidenceRetained(records) == \A i \in DOMAIN records : records[i].kept

(* EP03 *)
WalkForwardValid(folds) ==
  /\ Len(folds) >= 2
  /\ \A i, j \in DOMAIN folds : folds[i].id = folds[j].id => i = j
  /\ \A i \in DOMAIN folds : Sound(folds[i])

(* EP04, EP05, EP06 *)
ParametersStable(checks) ==
  checks # {} /\ \A c \in checks : Sound(c) /\ c.ratio <= c.allowed
BootstrapValid(intervals) ==
  intervals # {} /\ \A b \in intervals : Sound(b) /\ b.upper >= b.lower
OmissionsCovered(checks) ==
  {c.dimension : c \in checks} = OmissionDimensions /\ \A c \in checks : Sound(c)

(* EP07 *)
ApprovedForDeepTuning(analysis) ==
  /\ analysis.edge >= analysis.detectable
  /\ analysis.power >= analysis.requiredPower
  /\ analysis.samples >= analysis.requiredSamples
PowerAdmits(analysis, deep) == analysis.kept /\ (deep => ApprovedForDeepTuning(analysis))

(* EP08 *)
LockboxReady(l) ==
  l.finalists \in 1..l.cap /\ l.accessLogged /\ (l.incidents => l.reviewed) /\ l.kept

(* EP09, over the checks before it *)
CandidateFrozen(f, failed) == failed = {} /\ f.ready /\ f.named /\ f.manifest /\ f.kept

(* The nine checks in order, the last one over the eight before it. *)
FailedProtocolChecks(q) ==
  LET failed == {c \in {"EP01", "EP02", "EP03", "EP04", "EP05", "EP06", "EP07", "EP08"} :
                   CASE c = "EP01" -> ~StagesInOrder(q.stages)
                     [] c = "EP02" -> ~EvidenceRetained(q.stages)
                     [] c = "EP03" -> ~WalkForwardValid(q.folds)
                     [] c = "EP04" -> ~ParametersStable(q.parameters)
                     [] c = "EP05" -> ~BootstrapValid(q.intervals)
                     [] c = "EP06" -> ~OmissionsCovered(q.omissions)
                     [] c = "EP07" -> ~PowerAdmits(q.power, q.deep)
                     [] c = "EP08" -> ~LockboxReady(q.lockbox)}
  IN  failed \cup (IF CandidateFrozen(q.freeze, failed) THEN {} ELSE {"EP09"})

(* evaluate_evaluation_protocol: a malformed request has no check results. *)
EvaluateProtocol(q) ==
  LET failed == FailedProtocolChecks(q)
  IN  CASE ~ProtocolWellFormed(q) -> [decision |-> "repair_protocol", ran |-> FALSE, failed |-> {}]
        [] OTHER -> [decision |-> IF failed = {} THEN "freeze_candidate" ELSE "hold", ran |-> TRUE, failed |-> failed]

----------------------------------------------------------------------------
LockboxPurposes == {"admit_finalists", "final_review", "incident_review", "freeze_approval"}
LockboxAccessEvent ==
  [logged : BOOLEAN, approved : BOOLEAN, finalists : SUBSET Candidates, purpose : LockboxPurposes,
   ranking : BOOLEAN]
LockboxIncidentRecord ==
  [candidate : Candidates, documented : BOOLEAN,
   disposition : {"pending_review", "reject_candidate", "restart_cycle"}]

(* LP01, LP02 and LP03.  The first looks for one check of the protocol's report,
   whatever the protocol decided. *)
ProtocolReadied(q) == q.protocol.ran /\ "EP08" \notin q.protocol.failed
RunRecorded(q) == q.runAdmissible
FinalistsBounded(q) == Cardinality(q.finalists) \in 1..q.cap

(* LP04: each access is logged, approved, about finalists only, and about the
   candidate selected unless it admits finalists or reviews an incident. *)
AccessControlled(e, selected, finalists) ==
  /\ e.logged /\ e.approved /\ e.finalists \subseteq finalists
  /\ selected \in e.finalists \/ e.purpose \in {"admit_finalists", "incident_review"}

(* LP05 *)
RankingHidden(e) == ~e.ranking

(* LP06 *)
IncidentHandled(i) == i.documented /\ i.disposition # "pending_review"

(* _validate_request *)
LockboxRequestValid(q) ==
  /\ q.wellFormed /\ q.cap > 0 /\ q.selected \in q.finalists /\ q.accesses # {}
  /\ \A e \in q.accesses : e.finalists \subseteq q.finalists
  /\ \A i \in q.incidents : i.candidate \in q.finalists

(* The checks; the seventh, a complete bundle, is part of a valid request. *)
FailedLockboxChecks(q) ==
  {c \in {"LP01", "LP02", "LP03", "LP04", "LP05", "LP06"} :
     CASE c = "LP01" -> ~ProtocolReadied(q)
       [] c = "LP02" -> ~RunRecorded(q)
       [] c = "LP03" -> ~FinalistsBounded(q)
       [] c = "LP04" -> \E e \in q.accesses : ~AccessControlled(e, q.selected, q.finalists)
       [] c = "LP05" -> \E e \in q.accesses : ~RankingHidden(e)
       [] c = "LP06" -> \E i \in q.incidents : ~IncidentHandled(i)}

(* Faulty variant: a handled incident no longer counts. *)
HandledIncidentsForgotten(q) ==
  FirstClosed(<<Gate(~LockboxRequestValid(q), "invalid"),
                Gate(FailedLockboxChecks(q) # {}, "hold")>>, "freeze_candidate")

(* evaluate_lockbox_policy *)
EvaluateLockbox(q) ==
  FirstClosed(<<Gate(~LockboxRequestValid(q), "invalid"),
                Gate(FailedLockboxChecks(q) # {}, "hold"),
                Gate(\E i \in q.incidents : i.disposition = "restart_cycle", "restart_cycle"),
                Gate(q.incidents # {}, "reject_candidate")>>, "freeze_candidate")

----------------------------------------------------------------------------
TuningStages == <<"local_search", "robustness_perturbation", "candidate_freeze">>
PromotableTrial ==
  [id : STRING, seed : Nat, referenced : BOOLEAN, kept : BOOLEAN,
   disposition : {"retain", "prune", "finalist"}, reason : BOOLEAN]

ResearchRunRecord ==
  [id : STRING, family : STRING, subfamily : STRING, seeds : BOOLEAN, outputs : BOOLEAN, codeDigests : BOOLEAN,
   parents : SUBSET STRING]

PromotableTuningRequest ==
  [supported : BOOLEAN, run : ResearchRunRecord, family : STRING, subfamily : STRING,
   decision : [family : STRING, type : STRING, state : STRING, budget : Nat, evidence : Seq(STRING), attested : BOOLEAN],
   prior : Seq({"local_search", "robustness_perturbation", "candidate_freeze"}),
   stage : {"local_search", "robustness_perturbation", "candidate_freeze"}, anchored : BOOLEAN,
   liveEligible : BOOLEAN, deep : BOOLEAN, researchKernel : STRING, liveKernel : STRING,
   replayable : BOOLEAN, seeds : SUBSET Nat, trials : Seq(PromotableTrial), logged : BOOLEAN,
   outcome : {"advance", "reject", "freeze"}, reasons : BOOLEAN]

ContinuationApproved(d, family) ==
  /\ d.family = family /\ d.type = "continue" /\ d.state = "active" /\ d.budget > 0
  /\ d.evidence # <<>> /\ d.attested

PriorStages(stage) == SubSeq(TuningStages, 1, IndexFirstSubSeq(<<stage>>, TuningStages) - 1)
StageProgressed(q) == q.prior = PriorStages(q.stage)
AnchoredInRealRegion(q) == q.stage = "local_search" => q.anchored
SharedKernel(q) == q.liveEligible /\ q.deep => q.researchKernel = q.liveKernel /\ q.researchKernel # ""
Replayable(q) == q.replayable /\ {q.trials[i].seed : i \in DOMAIN q.trials} \subseteq q.seeds

TrialsLogged(trials) ==
  /\ trials # <<>>
  /\ \A i, j \in DOMAIN trials : trials[i].id = trials[j].id => i = j
  /\ \A i \in DOMAIN trials : /\ trials[i].referenced /\ trials[i].kept
                              /\ trials[i].disposition = "prune" => trials[i].reason

FreezesOneFinalist(q) ==
  q.stage = "candidate_freeze" =>
    q.outcome = "freeze" /\ Cardinality({i \in DOMAIN q.trials : q.trials[i].disposition = "finalist"}) = 1
RejectionExplained(q) == q.outcome = "reject" => q.reasons

(* The nine checks of a tuning batch; recorded is what the research store
   answered when the run of the batch was recorded, whatever else fails. *)
FailedTuningChecks(q, recorded) ==
  {c \in {"continuation", "progression", "anchor", "kernel", "run", "replay", "logging", "freeze", "reasons"} :
     CASE c = "continuation" -> ~ContinuationApproved(q.decision, q.family)
       [] c = "progression" -> ~StageProgressed(q)
       [] c = "anchor" -> ~AnchoredInRealRegion(q)
       [] c = "kernel" -> ~SharedKernel(q)
       [] c = "run" -> ~recorded
       [] c = "replay" -> ~Replayable(q)
       [] c = "logging" -> ~q.logged \/ ~TrialsLogged(q.trials)
       [] c = "freeze" -> ~FreezesOneFinalist(q)
       [] c = "reasons" -> ~RejectionExplained(q)}

(* _validate_parent_runs: seeds, outputs and code digests are there, and every
   parent is a run of the store, of the same family. *)
RunTraceable(run, runs) ==
  /\ run.seeds /\ run.outputs /\ run.codeDigests
  /\ \A parent \in run.parents : \E r \in runs : r.id = parent /\ r.family = run.family

(* Faulty variant: a batch that is submitted again finds its run recorded. *)
RecordedAlready(q, runs) ==
  q.run.family = q.family /\ q.run.subfamily = q.subfamily /\ RunTraceable(q.run, runs)

(* _record_batch_research_run: a run of another family or subfamily, one recorded
   before, and one that cannot be traced are not recorded. *)
RecordsRun(q, runs) ==
  /\ q.run.family = q.family /\ q.run.subfamily = q.subfamily
  /\ q.run.id \notin {r.id : r \in runs}
  /\ RunTraceable(q.run, runs)

(* evaluate_promotable_tuning *)
EvaluateTuning(q, recorded) ==
  LET failed == FailedTuningChecks(q, recorded)
  IN  FirstClosed(<<Gate(~q.supported, "invalid"),
                    Gate(failed \cap {"progression", "run", "replay", "logging"} # {}, "invalid"),
                    Gate(failed # {}, "violation")>>, "pass")

ASSUME EvidenceAssumption ==
  /\ ProtocolRequests \subseteq EvaluationProtocolRequest /\ TuningBatches \subseteq PromotableTuningRequest
  /\ Accesses \subseteq LockboxAccessEvent /\ Incidents \subseteq LockboxIncidentRecord
----------------------------------------------------------------------------
VARIABLES
  evaluation,   \* the protocol request as it stands
  accesses,     \* the lockbox accesses so far
  incidents,    \* the contamination incidents so far
  verdict,      \* the last lockbox decision and the candidate it is about
  tuningRuns,   \* [id, family] of the runs that tuning batches recorded in the research store
  batches       \* the batches evaluated: their run and its family, whether it was recorded, and the status

evaluationVars == <<evaluation, accesses, incidents, verdict, tuningRuns, batches>>

EvaluationInit ==
  /\ evaluation \in ProtocolRequests /\ accesses = {} /\ incidents = {} /\ verdict = NoDecision
  /\ tuningRuns = {} /\ batches = <<>>

PresentEvidence(q) ==
  /\ evaluation' = q
  /\ UNCHANGED <<accesses, incidents, verdict, tuningRuns, batches>>

AccessLockbox(e) ==
  /\ Cardinality(accesses) < MaxAccesses
  /\ accesses' = accesses \cup {e}
  /\ UNCHANGED <<evaluation, incidents, verdict, tuningRuns, batches>>

(* An incident is recorded, and may be reviewed later; it is never withdrawn. *)
RecordIncident(i) ==
  LET before == {j \in incidents : j.candidate = i.candidate}
  IN  /\ Cardinality(incidents) < MaxAccesses \/ before # {}
      /\ incidents' = (incidents \ before) \cup {i}
      /\ UNCHANGED <<evaluation, accesses, verdict, tuningRuns, batches>>

(* The lockbox is asked about a candidate, with everything recorded so far. *)
ReviewCandidate(selected, finalists, runAdmissible) ==
  LET q == [wellFormed |-> TRUE, cap |-> FinalistCap, selected |-> selected, finalists |-> finalists,
            accesses |-> accesses, incidents |-> incidents, runAdmissible |-> runAdmissible,
            protocol |-> EvaluateProtocol(evaluation)]
  IN  /\ verdict' = [candidate |-> selected, decision |-> EvaluateLockbox(q)]
      /\ UNCHANGED <<evaluation, accesses, incidents, tuningRuns, batches>>

(* A batch records its run before its other checks decide, so a batch that
   fails leaves its run in the store. *)
SubmitBatch(q) ==
  LET recorded == q.supported /\ RecordsRun(q, tuningRuns)
  IN  /\ Len(batches) < MaxBatches
      /\ tuningRuns' = IF recorded THEN tuningRuns \cup {[id |-> q.run.id, family |-> q.run.family]} ELSE tuningRuns
      /\ batches' = Append(batches, [run |-> q.run.id, family |-> q.run.family, recorded |-> recorded, status |-> EvaluateTuning(q, recorded)])
      /\ UNCHANGED <<evaluation, accesses, incidents, verdict>>

EvaluationNext ==
  \/ \E q \in ProtocolRequests : PresentEvidence(q)
  \/ \E e \in Accesses : AccessLockbox(e)
  \/ \E i \in Incidents : RecordIncident(i)
  \/ \E c \in Candidates, F \in SUBSET Candidates, admissible \in BOOLEAN : ReviewCandidate(c, F, admissible)
TuningNext == \E q \in TuningBatches : SubmitBatch(q)

EvaluationSpec == EvaluationInit /\ [][EvaluationNext \/ TuningNext]_evaluationVars

----------------------------------------------------------------------------
EvaluationTypeOK ==
  /\ evaluation \in ProtocolRequests
  /\ accesses \subseteq Accesses /\ incidents \subseteq Incidents
  /\ Cardinality({i.candidate : i \in incidents}) = Cardinality(incidents)
  /\ tuningRuns = {[id |-> batches[i].run, family |-> batches[i].family] :
                     i \in {j \in DOMAIN batches : batches[j].recorded}}

(* Contamination is final: once an incident was recorded about a finalist, no
   later review of the lockbox freezes a candidate, however the incident was
   disposed of and whatever evidence came after; and a candidate that is
   frozen was the subject of a logged access that ranked nothing. *)
ContaminationIsFinal ==
  [][(verdict' # verdict /\ verdict'.decision = "freeze_candidate")
       => /\ incidents = {}
          /\ \E e \in accesses : e.logged
          /\ \A e \in accesses : e.approved /\ ~e.ranking]_evaluationVars

(* A run answers for one batch: a batch that passes is the first one submitted
   under its run, so a failed batch cannot be repaired under the same run, and
   a passed one cannot be replaced. *)
RunsAnswerForOneBatch ==
  \A j \in DOMAIN batches :
    batches[j].status = "pass" =>
      \A i \in 1..(j - 1) : batches[i].run = batches[j].run => ~batches[i].recorded
=============================================================================
