------------------------------- MODULE GateProofs -------------------------------
(***************************************************************************)
(* What the policies of shared/policy promise, proved for every request,   *)
(* every bound and every length of the history.  Each policy has a theorem *)
(* over its own specification, from an invariant that says what its        *)
(* records rest on; GatesRunEach shows that a behaviour of the policies    *)
(* side by side is one of each of them, and GatesKeepTheirWord puts the    *)
(* theorems together.                                                      *)
(*                                                                         *)
(* An evaluator is a chain of gates.  Its lemma names the chain, shows     *)
(* with ChainOpen or ChainAnswers of Foundations which gates an answer     *)
(* leaves open, and states what the open gates say of the request.         *)
(***************************************************************************)
EXTENDS MCPolicyGates, FiniteSetTheorems, SequenceTheorems

(* A behaviour of the policies side by side is one of each of them, the lane and
   its governance, which share the waivers, being one. *)
THEOREM GatesRunEach ==
  GatesSpec => /\ EvaluationSpec /\ FundingSpec /\ RuntimeRecoverySpec /\ AuthoritySpec /\ EvidenceSpec
               /\ SelectionSpec /\ GovernedLaneSpec
<1>1. GatesInit => /\ EvaluationInit /\ FundingInit /\ RuntimeRecoveryInit /\ AuthorityInit /\ EvidenceInit
                   /\ SelectionInit /\ LaneInit /\ GovernanceInit
  BY DEF GatesInit
<1>2. [GatesNext]_gateVars =>
        /\ [EvaluationNext \/ TuningNext]_evaluationVars /\ [FundingNext \/ ClosureNext]_fundingVars
        /\ [RuntimeRecoveryNext]_recoveryVars /\ [AuthorityNext]_authorityVars
        /\ [ReplayNext \/ StudyNext \/ StageNext]_evidenceVars /\ [SelectionNext]_selectionVars
        /\ [(LaneNext /\ UNCHANGED governanceVars) \/ GovernanceNext]_<<laneVars, governanceVars>>
  BY DEF GatesNext, gateVars
<1> QED
  BY <1>1, <1>2, PTL DEF GatesSpec, EvaluationSpec, FundingSpec, RuntimeRecoverySpec, AuthoritySpec, EvidenceSpec,
     SelectionSpec, GovernedLaneSpec

----------------------------------------------------------------------------
(* What an assessment that passes says of the signals it was made under. *)
LEMMA PassingAssessment ==
  ASSUME NEW a, EvaluateDegradation(a) = "pass", ~ a.entriesBlocked
  PROVE  /\ ~ SevereSignals(a.signals) /\ ~ a.signals.mismatch
         /\ ModerateSignals(a.signals) => a.action # "allow"
<1>1. PICK answer : answer = "pass"  OBVIOUS
<1>2. PICK gates : gates = <<Gate(~a.supported \/ ~a.complete, "invalid"),
                Gate(a.action \in StrongActions /\ ~a.entriesBlocked, "violation"),
                Gate(a.signals.mismatch /\ a.action \notin StrongActions, "violation"),
                Gate(SevereSignals(a.signals) /\ a.action \notin StrongActions, "violation"),
                Gate(ModerateSignals(a.signals) /\ a.action = "allow", "violation")>>  OBVIOUS
<1>3. DOMAIN gates = 1..5 /\ DOMAIN gates \in SUBSET Nat /\ \A i \in DOMAIN gates : gates[i].answer # answer
  BY <1>1, <1>2 DEF Gate
<1>4. answer = FirstClosed(gates, answer)  BY <1>1, <1>2 DEF EvaluateDegradation
<1>5. \A i \in DOMAIN gates : ~ gates[i].closed  BY <1>3, <1>4, ChainOpen
<1>6. ~ gates[2].closed /\ ~ gates[3].closed /\ ~ gates[4].closed /\ ~ gates[5].closed  BY <1>3, <1>5
<1> QED  BY <1>2, <1>6 DEF Gate

(* A recovery document resumes only a state that is not ambiguous. *)
LEMMA ResumingIsUnambiguous ==
  ASSUME NEW q, EvaluateRecoveryFence(q) = "pass"
  PROVE  q.ambiguous => q.disposition \in {"halt", "flatten"}
<1>1. PICK answer : answer = "pass"  OBVIOUS
<1>2. PICK gates : gates = <<Gate(~q.supported \/ ~q.complete, "invalid"),
                Gate(~q.recovering, "violation"),
                Gate(~q.entriesFenced, "violation"),
                Gate(~q.mutationsBlocked, "violation"),
                Gate(~(q.positionsReconciled /\ q.ordersReconciled /\ q.mappingsRepaired), "violation"),
                Gate(q.ambiguous /\ q.disposition \notin {"halt", "flatten"}, "violation"),
                Gate(~PacketServes(q), "violation")>>  OBVIOUS
<1>3. DOMAIN gates = 1..7 /\ DOMAIN gates \in SUBSET Nat /\ \A i \in DOMAIN gates : gates[i].answer # answer
  BY <1>1, <1>2 DEF Gate
<1>4. answer = FirstClosed(gates, answer)  BY <1>1, <1>2 DEF EvaluateRecoveryFence
<1>5. \A i \in DOMAIN gates : ~ gates[i].closed  BY <1>3, <1>4, ChainOpen
<1>6. ~ gates[6].closed  BY <1>3, <1>5
<1> QED  BY <1>2, <1>6 DEF Gate

(* A close that opens a session on a discrepancy was reviewed, by name. *)
LEMMA EligibleCloseIsReviewed ==
  ASSUME NEW a, EvaluateLedgerClose(a) = "pass", a.eligibility = "eligible", a.discrepancy
  PROVE  a.reviewed /\ a.reviewNamed
<1>1. PICK answer : answer = "pass"  OBVIOUS
<1>2. PICK gates : gates = <<Gate(~a.supported \/ ~a.complete, "invalid"),
                Gate(a.reviewed /\ ~a.reviewNamed, "invalid"),
                Gate(~(a.cash /\ a.commissions /\ a.margin), "violation"),
                Gate(a.discrepancy /\ ~a.reviewed /\ a.eligibility = "eligible", "violation")>>  OBVIOUS
<1>3. DOMAIN gates = 1..4 /\ DOMAIN gates \in SUBSET Nat /\ \A i \in DOMAIN gates : gates[i].answer # answer
  BY <1>1, <1>2 DEF Gate
<1>4. answer = FirstClosed(gates, answer)  BY <1>1, <1>2 DEF EvaluateLedgerClose
<1>5. \A i \in DOMAIN gates : ~ gates[i].closed  BY <1>3, <1>4, ChainOpen
<1>6. ~ gates[2].closed /\ ~ gates[4].closed  BY <1>3, <1>5
<1> QED  BY <1>2, <1>6 DEF Gate

(* The runtime may start a session from several phases, so what it starts on
   holds of every phase: an ambiguity is only known while recovering, and an
   assessment that is kept passed. *)
RecoveryInv ==
  /\ RuntimeRecoveryTypeOK
  /\ ambiguity => phase = "recovering"
  /\ phase \in {"running", "recovering"} => (openBreak => settled)
  /\ assessed # NoAssessment => EvaluateDegradation(assessed) = "pass"

(* A runtime that takes entries was not assessed under a severe signal or a
   mismatch, and none runs on an ambiguous state or on a break nobody reviewed
   (RecoveryInv is inductive). *)
THEOREM RecoveryRestsOnEvidence == RuntimeRecoverySpec => [](RuntimeRecoveryTypeOK /\ EntriesRestOnEvidence)
<1>1. RuntimeRecoveryInit => RecoveryInv
  BY DEF RuntimeRecoveryInit, RecoveryInv, RuntimeRecoveryTypeOK
<1>2. RecoveryInv /\ [RuntimeRecoveryNext]_recoveryVars => RecoveryInv'
  <2> SUFFICES ASSUME RecoveryInv, [RuntimeRecoveryNext]_recoveryVars PROVE RecoveryInv'  OBVIOUS
  <2> USE DEF RecoveryInv, RuntimeRecoveryTypeOK
  <2>1. ASSUME NEW s \in SignalSets, Observe(s) PROVE RecoveryInv'
    BY <2>1 DEF Observe
  <2>2. ASSUME NEW action \in DegradationActions, NEW blocked \in BOOLEAN, AssessDegradation(action, blocked)
        PROVE  RecoveryInv'
    <3> DEFINE a == [supported |-> TRUE, complete |-> TRUE, signals |-> observed, action |-> action,
                     entriesBlocked |-> blocked]
    <3>1. a \in DegradationAssessment  BY RecoveryDocumentsAssumption DEF DegradationAssessment
    <3>2. /\ phase = "running" /\ EvaluateDegradation(a) = "pass" /\ assessed' = a
          /\ phase' \in {"flattened", "running"} /\ UNCHANGED <<observed, ambiguity, openBreak, settled, drilled>>
      BY <2>2 DEF AssessDegradation
    <3> HIDE DEF a
    <3> QED  BY <3>1, <3>2
  <2>3. ASSUME NEW ambiguous \in BOOLEAN, Crash(ambiguous) PROVE RecoveryInv'
    BY <2>3 DEF Crash
  <2>4. ASSUME NEW shape \in RecoveryRequests, Recover(shape) PROVE RecoveryInv'
    <3>1. PICK q : q = [shape EXCEPT !.ambiguous = ambiguity]  OBVIOUS
    <3>2. q.ambiguous = ambiguity  BY <3>1, RecoveryDocumentsAssumption DEF RecoveryFenceRequest
    <3>3. /\ phase = "recovering" /\ EvaluateRecoveryFence(q) = "pass"
          /\ phase' = CASE q.disposition = "halt" -> "halted" [] q.disposition = "flatten" -> "flattened"
                        [] OTHER -> "running"
          /\ ambiguity' = (ambiguity /\ phase' = "running")
          /\ UNCHANGED <<observed, assessed, openBreak, settled, drilled>>
      BY <2>4, <3>1 DEF Recover
    <3>4. ambiguity => q.disposition \in {"halt", "flatten"}  BY <3>2, <3>3, ResumingIsUnambiguous
    <3>5. phase' \in {"halted", "flattened", "running"} /\ (ambiguity => phase' # "running")  BY <3>3, <3>4
    <3>6. ambiguity' = FALSE  BY <3>3, <3>5
    <3> QED  BY <3>3, <3>5, <3>6
  <2>5. ASSUME NEW r \in GracefulShutdownRecord, ShutDown(r) PROVE RecoveryInv'
    BY <2>5 DEF ShutDown
  <2>6. CASE FindBreak
    BY <2>6 DEF FindBreak
  <2>7. ASSUME NEW shape \in LedgerCloses, CloseLedger(shape) PROVE RecoveryInv'
    <3>1. PICK a : a = [shape EXCEPT !.discrepancy = openBreak]  OBVIOUS
    <3>2. a.discrepancy = openBreak  BY <3>1, RecoveryDocumentsAssumption DEF LedgerCloseArtifact
    <3>3. /\ phase \in {"closed", "halted", "flattened", "stopped"} /\ EvaluateLedgerClose(a) = "pass"
          /\ settled' = (settled \/ (a.reviewed /\ a.reviewNamed))
          /\ phase' = IF a.eligibility = "eligible" THEN "running" ELSE "closed"
          /\ assessed' = NoAssessment
          /\ UNCHANGED <<observed, ambiguity, openBreak, drilled>>
      BY <2>7, <3>1 DEF CloseLedger
    <3>4. phase' = "running" => (openBreak => a.reviewed /\ a.reviewNamed)  BY <3>2, <3>3, EligibleCloseIsReviewed
    <3>5. phase' \in {"running", "closed"} /\ settled' \in BOOLEAN /\ ambiguity' = FALSE  BY <3>3
    <3>6. phase' = "running" => (openBreak => settled')  BY <3>3, <3>4
    <3> QED  BY <3>3, <3>5, <3>6
  <2>8. ASSUME NEW a \in RestoreDrills, DrillRestore(a) PROVE RecoveryInv'
    BY <2>8 DEF DrillRestore
  <2>9. CASE UNCHANGED recoveryVars
    BY <2>9 DEF recoveryVars
  <2> QED
    BY <2>1, <2>2, <2>3, <2>4, <2>5, <2>6, <2>7, <2>8, <2>9 DEF RuntimeRecoveryNext
<1>3. RecoveryInv => EntriesRestOnEvidence
  <2> SUFFICES ASSUME RecoveryInv, phase = "running"
               PROVE  /\ (assessed # NoAssessment /\ ~assessed.entriesBlocked)
                           => /\ ~SevereSignals(assessed.signals) /\ ~assessed.signals.mismatch
                              /\ ModerateSignals(assessed.signals) => assessed.action # "allow"
                      /\ ~ambiguity /\ (openBreak => settled)
    BY DEF EntriesRestOnEvidence
  <2>1. assessed # NoAssessment => EvaluateDegradation(assessed) = "pass"  BY DEF RecoveryInv
  <2>2. ~ ambiguity /\ (openBreak => settled)  BY DEF RecoveryInv
  <2> QED  BY <2>1, <2>2, PassingAssessment
<1>4. RecoveryInv => RuntimeRecoveryTypeOK  BY DEF RecoveryInv
<1> QED
  BY <1>1, <1>2, <1>3, <1>4, PTL DEF RuntimeRecoverySpec

----------------------------------------------------------------------------
(* A lockbox that freezes a candidate found no incident, and every access was
   logged, approved and ranked nothing. *)
LEMMA FreezingIsClean ==
  ASSUME NEW q, EvaluateLockbox(q) = "freeze_candidate"
  PROVE  /\ q.incidents = {} /\ q.accesses # {}
         /\ \A e \in q.accesses : e.logged /\ e.approved /\ ~ e.ranking
<1>1. PICK answer : answer = "freeze_candidate"  OBVIOUS
<1>2. PICK gates : gates =
        <<Gate(~LockboxRequestValid(q), "invalid"), Gate(FailedLockboxChecks(q) # {}, "hold"),
          Gate(\E i \in q.incidents : i.disposition = "restart_cycle", "restart_cycle"),
          Gate(q.incidents # {}, "reject_candidate")>>
  OBVIOUS
<1>3. DOMAIN gates = 1..4 /\ DOMAIN gates \in SUBSET Nat /\ \A i \in DOMAIN gates : gates[i].answer # answer
  BY <1>1, <1>2 DEF Gate
<1>4. answer = FirstClosed(gates, answer)  BY <1>1, <1>2 DEF EvaluateLockbox
<1>5. \A i \in DOMAIN gates : ~ gates[i].closed  BY <1>3, <1>4, ChainOpen
<1>6. ~ gates[1].closed /\ ~ gates[2].closed /\ ~ gates[4].closed  BY <1>3, <1>5
<1>7. LockboxRequestValid(q) /\ FailedLockboxChecks(q) = {} /\ q.incidents = {}  BY <1>2, <1>6 DEF Gate
<1>8. ~ \E e \in q.accesses : ~AccessControlled(e, q.selected, q.finalists)
  <2>1. "LP04" \notin FailedLockboxChecks(q)  BY <1>7
  <2> QED  BY <2>1 DEF FailedLockboxChecks
<1>9. ~ \E e \in q.accesses : ~RankingHidden(e)
  <2>1. "LP05" \notin FailedLockboxChecks(q)  BY <1>7
  <2> QED  BY <2>1 DEF FailedLockboxChecks
<1>10. q.accesses # {}  BY <1>7 DEF LockboxRequestValid
<1> QED  BY <1>7, <1>8, <1>9, <1>10 DEF AccessControlled, RankingHidden

(* A batch that passes recorded its run. *)
LEMMA PassingBatchRecords ==
  ASSUME NEW q, NEW recorded \in BOOLEAN, EvaluateTuning(q, recorded) = "pass"
  PROVE  recorded
<1>1. PICK answer : answer = "pass"  OBVIOUS
<1>2. PICK failed : failed = FailedTuningChecks(q, recorded)  OBVIOUS
<1>3. PICK gates : gates =
        <<Gate(~q.supported, "invalid"), Gate(failed \cap {"progression", "run", "replay", "logging"} # {}, "invalid"),
          Gate(failed # {}, "violation")>>
  OBVIOUS
<1>4. DOMAIN gates = 1..3 /\ DOMAIN gates \in SUBSET Nat /\ \A i \in DOMAIN gates : gates[i].answer # answer
  BY <1>1, <1>3 DEF Gate
<1>5. answer = FirstClosed(gates, answer)  BY <1>1, <1>2, <1>3 DEF EvaluateTuning
<1>6. \A i \in DOMAIN gates : ~ gates[i].closed  BY <1>4, <1>5, ChainOpen
<1>7. ~ gates[3].closed  BY <1>4, <1>6
<1>8. "run" \notin FailedTuningChecks(q, recorded)  BY <1>2, <1>3, <1>7 DEF Gate
<1> QED  BY <1>8 DEF FailedTuningChecks

(* No two incidents are about one candidate; the runs of the store are those the
   batches recorded. *)
EvaluationInv ==
  /\ evaluation \in ProtocolRequests /\ accesses \subseteq Accesses /\ incidents \subseteq Incidents
  /\ IsFiniteSet(incidents) /\ \A i, j \in incidents : i.candidate = j.candidate => i = j
  /\ batches \in Seq([run : STRING, family : STRING, recorded : BOOLEAN, status : {"invalid", "violation", "pass"}])
  /\ tuningRuns = {[id |-> batches[i].run, family |-> batches[i].family] :
                     i \in {j \in DOMAIN batches : batches[j].recorded}}
  /\ RunsAnswerForOneBatch

(* An incident is about a candidate that has none yet. *)
LEMMA IncidentsKeepApart ==
  ASSUME EvaluationInv, NEW i \in Incidents, RecordIncident(i)
  PROVE  EvaluationInv'
<1>1. PICK before : before = {j \in incidents : j.candidate = i.candidate}  OBVIOUS
<1>2. incidents' = (incidents \ before) \cup {i}
      /\ UNCHANGED <<evaluation, accesses, verdict, tuningRuns, batches>>
  BY <1>1 DEF RecordIncident
<1>3. IsFiniteSet(incidents \ before)  BY FS_Subset DEF EvaluationInv
<1>4. IsFiniteSet(incidents')  BY <1>2, <1>3, FS_AddElement
<1>5. \A j, k \in incidents' : j.candidate = k.candidate => j = k  BY <1>1, <1>2 DEF EvaluationInv
<1>6. incidents' \subseteq Incidents  BY <1>2 DEF EvaluationInv
<1> QED  BY <1>2, <1>4, <1>5, <1>6 DEF EvaluationInv, RunsAnswerForOneBatch

(* A batch records a run only when none recorded it before. *)
LEMMA BatchesKeepRuns ==
  ASSUME EvaluationInv, NEW q \in TuningBatches, SubmitBatch(q)
  PROVE  EvaluationInv'
<1>1. PICK recorded : recorded = (q.supported /\ RecordsRun(q, tuningRuns))  OBVIOUS
<1>2. recorded \in BOOLEAN  BY <1>1
<1>3. PICK status : status = EvaluateTuning(q, recorded)  OBVIOUS
<1>4. PICK b : b = [run |-> q.run.id, family |-> q.run.family, recorded |-> recorded, status |-> status]  OBVIOUS
<1>0. PICK entry : entry = [id |-> q.run.id, family |-> q.run.family]  OBVIOUS
<1>5. /\ tuningRuns' = IF recorded THEN tuningRuns \cup {entry} ELSE tuningRuns
      /\ batches' = Append(batches, b) /\ UNCHANGED <<evaluation, accesses, incidents, verdict>>
  BY <1>0, <1>1, <1>3, <1>4 DEF SubmitBatch
<1>6. recorded => \A r \in tuningRuns : r.id # q.run.id  BY <1>1 DEF RecordsRun
<1>7. status = "pass" => recorded  BY <1>2, <1>3, PassingBatchRecords
<1>8. b \in [run : STRING, family : STRING, recorded : BOOLEAN, status : {"invalid", "violation", "pass"}]
  <2>1. q.run.id \in STRING /\ q.run.family \in STRING
    BY EvidenceAssumption DEF PromotableTuningRequest, ResearchRunRecord
  <2>2. status \in {"invalid", "violation", "pass"}
    <3>1. PICK failed : failed = FailedTuningChecks(q, recorded)  OBVIOUS
    <3>2. PICK gates : gates =
            <<Gate(~q.supported, "invalid"),
              Gate(failed \cap {"progression", "run", "replay", "logging"} # {}, "invalid"),
              Gate(failed # {}, "violation")>>
      OBVIOUS
    <3>3. DOMAIN gates \in SUBSET Nat /\ \A i \in DOMAIN gates : gates[i].answer \in {"invalid", "violation"}
      BY <3>2 DEF Gate
    <3>4. PICK answer : answer = "pass"  OBVIOUS
    <3>5. status = FirstClosed(gates, answer)  BY <1>3, <3>1, <3>2, <3>4 DEF EvaluateTuning
    <3> QED  BY <3>3, <3>4, <3>5, ChainAnswers
  <2> QED  BY <1>2, <1>4, <2>1, <2>2
<1>9. PICK N : N = Len(batches) /\ N \in Nat  BY DEF EvaluationInv
<1>10. /\ batches' \in Seq([run : STRING, family : STRING, recorded : BOOLEAN, status : {"invalid", "violation", "pass"}])
       /\ DOMAIN batches = 1..N /\ DOMAIN batches' = 1..(N + 1) /\ batches'[N + 1] = b
       /\ \A j \in 1..N : batches'[j] = batches[j]
  BY <1>5, <1>8, <1>9 DEF EvaluationInv
<1>11. b.run = q.run.id /\ b.family = q.run.family /\ b.recorded = recorded /\ b.status = status  BY <1>4
<1>12. tuningRuns' = {[id |-> batches'[i].run, family |-> batches'[i].family] :
                        i \in {j \in DOMAIN batches' : batches'[j].recorded}}
  <2>1. DOMAIN batches' = DOMAIN batches \cup {N + 1}  BY <1>9, <1>10
  <2> DEFINE Entry(record) == [id |-> record.run, family |-> record.family]
             kept == {j \in DOMAIN batches : batches[j].recorded}
  <2>2. tuningRuns = {Entry(batches[i]) : i \in kept}  BY DEF EvaluationInv
  <2>5. \A i \in kept : i \in 1..N /\ batches'[i] = batches[i]  BY <1>10
  <2>6. Entry(b) = entry  BY <1>0, <1>11
  <2>3. CASE recorded
    <3>1. {j \in DOMAIN batches' : batches'[j].recorded} = kept \cup {N + 1}
      BY <1>10, <1>11, <2>1, <2>3
    <3> HIDE DEF Entry, kept
    <3>2. {Entry(batches'[i]) : i \in kept \cup {N + 1}} = {Entry(batches[i]) : i \in kept} \cup {Entry(b)}
      BY <1>10, <2>5
    <3>3. tuningRuns' = {Entry(batches'[i]) : i \in {j \in DOMAIN batches' : batches'[j].recorded}}
      BY <1>5, <2>2, <2>3, <2>6, <3>1, <3>2
    <3> QED  BY <3>3 DEF Entry
  <2>4. CASE ~ recorded
    <3>1. {j \in DOMAIN batches' : batches'[j].recorded} = kept
      BY <1>10, <1>11, <2>1, <2>4
    <3> HIDE DEF Entry, kept
    <3>2. {Entry(batches'[i]) : i \in kept} = {Entry(batches[i]) : i \in kept}
      BY <2>5
    <3>3. tuningRuns' = {Entry(batches'[i]) : i \in {j \in DOMAIN batches' : batches'[j].recorded}}
      BY <1>5, <2>2, <2>4, <3>1, <3>2
    <3> QED  BY <3>3 DEF Entry
  <2> QED  BY <1>2, <2>3, <2>4
<1>13. RunsAnswerForOneBatch'
  <2> SUFFICES ASSUME NEW j \in DOMAIN batches', batches'[j].status = "pass", NEW i \in 1..(j - 1),
                      batches'[i].run = batches'[j].run, batches'[i].recorded
               PROVE  FALSE
    BY DEF RunsAnswerForOneBatch
  <2>1. i \in 1..N /\ batches'[i] = batches[i]  BY <1>9, <1>10
  <2>2. CASE j = N + 1
    <3>1. batches[i].run = q.run.id /\ batches[i].recorded /\ recorded  BY <1>7, <1>10, <1>11, <2>1, <2>2
    <3>2. PICK r : r = [id |-> batches[i].run, family |-> batches[i].family]  OBVIOUS
    <3>3. i \in {m \in DOMAIN batches : batches[m].recorded}  BY <1>10, <2>1, <3>1
    <3>4. r \in tuningRuns  BY <3>2, <3>3 DEF EvaluationInv
    <3>5. r.id = batches[i].run  BY <3>2
    <3> QED  BY <1>6, <3>1, <3>4, <3>5
  <2>3. CASE j \in 1..N
    BY <1>10, <2>1, <2>3 DEF EvaluationInv, RunsAnswerForOneBatch
  <2> QED  BY <1>9, <1>10, <2>2, <2>3
<1> QED  BY <1>5, <1>10, <1>12, <1>13 DEF EvaluationInv

(* A batch that passes is the first recorded under its run, for every history of
   batches (EvaluationInv is inductive). *)
THEOREM EvaluationRunsAnswer == EvaluationSpec => [](EvaluationTypeOK /\ RunsAnswerForOneBatch)
<1>1. EvaluationInit => EvaluationInv
  <2> SUFFICES ASSUME EvaluationInit PROVE EvaluationInv  OBVIOUS
  <2>1. batches = <<>> /\ DOMAIN <<>> = {} /\ incidents = {} /\ IsFiniteSet({})
    BY FS_EmptySet DEF EvaluationInit
  <2> QED  BY <2>1 DEF EvaluationInit, EvaluationInv, RunsAnswerForOneBatch
<1>2. EvaluationInv /\ [EvaluationNext \/ TuningNext]_evaluationVars => EvaluationInv'
  <2> SUFFICES ASSUME EvaluationInv, [EvaluationNext \/ TuningNext]_evaluationVars PROVE EvaluationInv'  OBVIOUS
  <2>1. ASSUME NEW q \in ProtocolRequests, PresentEvidence(q) PROVE EvaluationInv'
    BY <2>1 DEF PresentEvidence, EvaluationInv, RunsAnswerForOneBatch
  <2>2. ASSUME NEW e \in Accesses, AccessLockbox(e) PROVE EvaluationInv'
    BY <2>2 DEF AccessLockbox, EvaluationInv, RunsAnswerForOneBatch
  <2>3. ASSUME NEW i \in Incidents, RecordIncident(i) PROVE EvaluationInv'
    BY <2>3, IncidentsKeepApart
  <2>4. ASSUME NEW c \in Candidates, NEW F \in SUBSET Candidates, NEW admissible \in BOOLEAN,
               ReviewCandidate(c, F, admissible)
        PROVE  EvaluationInv'
    BY <2>4 DEF ReviewCandidate, EvaluationInv, RunsAnswerForOneBatch
  <2>5. ASSUME NEW q \in TuningBatches, SubmitBatch(q) PROVE EvaluationInv'
    BY <2>5, BatchesKeepRuns
  <2>6. CASE UNCHANGED evaluationVars
    BY <2>6 DEF evaluationVars, EvaluationInv, RunsAnswerForOneBatch
  <2> QED
    BY <2>1, <2>2, <2>3, <2>4, <2>5, <2>6 DEF EvaluationNext, TuningNext
<1>3. EvaluationInv => EvaluationTypeOK /\ RunsAnswerForOneBatch
  <2> SUFFICES ASSUME EvaluationInv
               PROVE  Cardinality({i.candidate : i \in incidents}) = Cardinality(incidents)
    BY DEF EvaluationInv, EvaluationTypeOK
  <2> DEFINE f == [i \in incidents |-> i.candidate]
             T == {i.candidate : i \in incidents}
  <2>1. f \in Bijection(incidents, T)
    <3>1. f \in [incidents -> T] /\ \A i \in incidents : f[i] = i.candidate  OBVIOUS
    <3>2. \A t \in T : \E i \in incidents : f[i] = t  OBVIOUS
    <3> HIDE DEF f, T
    <3>3. \A i, j \in incidents : f[i] = f[j] => i = j  BY <3>1 DEF EvaluationInv
    <3> QED  BY <3>1, <3>2, <3>3 DEF Bijection, Injection, Surjection, IsInjective
  <2>2. ExistsBijection(incidents, T)  BY <2>1 DEF ExistsBijection
  <2> HIDE DEF T
  <2>3. IsFiniteSet(incidents)  BY DEF EvaluationInv
  <2> QED  BY <2>2, <2>3, FS_Bijection DEF T
<1> QED
  BY <1>1, <1>2, <1>3, PTL DEF EvaluationSpec

(* No review of the lockbox freezes a candidate once an incident is on record, and
   a frozen candidate was accessed, logged and never ranked. *)
THEOREM EvaluationStaysContaminated == EvaluationSpec => ContaminationIsFinal
<1>1. [EvaluationNext \/ TuningNext]_evaluationVars =>
        ((verdict' # verdict /\ verdict'.decision = "freeze_candidate")
          => /\ incidents = {}
             /\ \E e \in accesses : e.logged
             /\ \A e \in accesses : e.approved /\ ~e.ranking)
  <2> SUFFICES ASSUME [EvaluationNext \/ TuningNext]_evaluationVars, verdict' # verdict,
                      verdict'.decision = "freeze_candidate"
               PROVE  /\ incidents = {}
                      /\ \E e \in accesses : e.logged
                      /\ \A e \in accesses : e.approved /\ ~e.ranking
    OBVIOUS
  <2>1. \E c \in Candidates, F \in SUBSET Candidates, admissible \in BOOLEAN : ReviewCandidate(c, F, admissible)
    BY DEF EvaluationNext, TuningNext, PresentEvidence, AccessLockbox, RecordIncident, SubmitBatch, evaluationVars
  <2>2. PICK c \in Candidates, F \in SUBSET Candidates, admissible \in BOOLEAN : ReviewCandidate(c, F, admissible)
    BY <2>1
  <2>3. PICK q : q = [wellFormed |-> TRUE, cap |-> FinalistCap, selected |-> c, finalists |-> F,
                      accesses |-> accesses, incidents |-> incidents, runAdmissible |-> admissible,
                      protocol |-> EvaluateProtocol(evaluation)]
    OBVIOUS
  <2>4. EvaluateLockbox(q) = "freeze_candidate"  BY <2>2, <2>3 DEF ReviewCandidate
  <2>5. q.incidents = incidents /\ q.accesses = accesses  BY <2>3
  <2> QED  BY <2>4, <2>5, FreezingIsClean
<1> QED
  BY <1>1, PTL DEF EvaluationSpec, ContaminationIsFinal

----------------------------------------------------------------------------
(* A trace that passes observed what was required, on one story and one lane. *)
LEMMA PassingTrace ==
  ASSUME NEW events, NEW required, EvaluateTrace(events, required) = "pass"
  PROVE  /\ events # <<>> /\ required \subseteq ObservedProcesses(events)
         /\ \A i, j \in DOMAIN events : events[i].label.correlation = events[j].label.correlation
         /\ \A i, j \in DOMAIN events : events[i].label.decision = events[j].label.decision
         /\ \A i \in DOMAIN events : events[i].label.artifact
         /\ \A i \in DOMAIN events : events[i].action \in HighPriorityActions => events[i].lane
<1>1. PICK answer : answer = "pass"  OBVIOUS
<1>2. PICK gates : gates =
        <<Gate(events = <<>>, "invalid"),
          Gate(~(required \subseteq ObservedProcesses(events)), "violation"),
          Gate(\E i, j \in DOMAIN events : events[i].label.correlation # events[j].label.correlation, "violation"),
          Gate(\E i, j \in DOMAIN events : events[i].label.decision # events[j].label.decision, "violation"),
          Gate(\E i \in DOMAIN events : ~events[i].label.artifact, "invalid"),
          Gate(\E i \in DOMAIN events : events[i].action \in HighPriorityActions /\ ~events[i].lane, "violation")>>
  OBVIOUS
<1>3. DOMAIN gates = 1..6 /\ DOMAIN gates \in SUBSET Nat /\ \A i \in DOMAIN gates : gates[i].answer # answer
  BY <1>1, <1>2 DEF Gate
<1>4. answer = FirstClosed(gates, answer)  BY <1>1, <1>2 DEF EvaluateTrace
<1>5. \A i \in DOMAIN gates : ~ gates[i].closed  BY <1>3, <1>4, ChainOpen
<1>6. ~ gates[1].closed /\ ~ gates[2].closed  BY <1>3, <1>5
<1>7. ~ gates[3].closed /\ ~ gates[4].closed  BY <1>3, <1>5
<1>8. ~ gates[5].closed /\ ~ gates[6].closed  BY <1>3, <1>5
<1>9. events # <<>> /\ required \subseteq ObservedProcesses(events)  BY <1>2, <1>6 DEF Gate
<1>10. \A i, j \in DOMAIN events : events[i].label.correlation = events[j].label.correlation
  BY <1>2, <1>7 DEF Gate
<1>11. \A i, j \in DOMAIN events : events[i].label.decision = events[j].label.decision
  BY <1>2, <1>7 DEF Gate
<1>12. \A i \in DOMAIN events : events[i].label.artifact  BY <1>2, <1>8 DEF Gate
<1>13. \A i \in DOMAIN events : events[i].action \in HighPriorityActions => events[i].lane
  BY <1>2, <1>8 DEF Gate
<1> QED  BY <1>9, <1>10, <1>11, <1>12, <1>13

(* A trace is answered with one of three statuses. *)
LEMMA TraceAnswers ==
  ASSUME NEW events, NEW required, NEW status, status = EvaluateTrace(events, required)
  PROVE  status \in {"pass", "violation", "invalid"}
<1>1. PICK gates : gates =
        <<Gate(events = <<>>, "invalid"),
          Gate(~(required \subseteq ObservedProcesses(events)), "violation"),
          Gate(\E i, j \in DOMAIN events : events[i].label.correlation # events[j].label.correlation, "violation"),
          Gate(\E i, j \in DOMAIN events : events[i].label.decision # events[j].label.decision, "violation"),
          Gate(\E i \in DOMAIN events : ~events[i].label.artifact, "invalid"),
          Gate(\E i \in DOMAIN events : events[i].action \in HighPriorityActions /\ ~events[i].lane, "violation")>>
  OBVIOUS
<1>2. DOMAIN gates \in SUBSET Nat /\ \A i \in DOMAIN gates : gates[i].answer \in {"violation", "invalid"}
  BY <1>1 DEF Gate
<1>3. PICK answer : answer = "pass"  OBVIOUS
<1>4. status = FirstClosed(gates, answer)  BY <1>1, <1>3 DEF EvaluateTrace
<1> QED  BY <1>2, <1>3, <1>4, ChainAnswers

(* Authority is given to the owner of the action only. *)
LEMMA AuthorityIsTheOwners ==
  ASSUME NEW q, EvaluateAuthority(q) = "pass"
  PROVE  q.by = ActionOwners[q.action]
<1>1. PICK answer : answer = "pass"  OBVIOUS
<1>2. PICK gates : gates =
        <<Gate(q.by # ActionOwners[q.action], "violation"),
          Gate(q.action \in EmergencyActions /\ ~q.token, "violation"),
          Gate(q.action \in EmergencyActions /\ ~q.connectivity, "violation"),
          Gate(q.action \in HighPriorityActions /\ ~q.lane, "violation")>>
  OBVIOUS
<1>3. DOMAIN gates = 1..4 /\ DOMAIN gates \in SUBSET Nat /\ \A i \in DOMAIN gates : gates[i].answer # answer
  BY <1>1, <1>2 DEF Gate
<1>4. answer = FirstClosed(gates, answer)  BY <1>1, <1>2 DEF EvaluateAuthority
<1>5. \A i \in DOMAIN gates : ~ gates[i].closed  BY <1>3, <1>4, ChainOpen
<1>6. ~ gates[1].closed  BY <1>3, <1>5
<1> QED  BY <1>2, <1>6 DEF Gate

(* What is granted is the owner's, and so is every action on the path; the path
   does not change once it was judged. *)
AuthorityInv ==
  /\ AuthorityTypeOK
  /\ granted \subseteq [action : ControlActions, by : RuntimeModules]
  /\ \A i \in DOMAIN path : path[i].action # "none" => path[i].module = ActionOwners[path[i].action]
  /\ pathAnswer.status = "pass" => EvaluateTrace(path, pathAnswer.required) = "pass"

(* The owner of an emergency action runs in the guardian, and "none" is no action. *)
LEMMA OwnersAreModules ==
  /\ "none" \notin ControlActions
  /\ \A a \in EmergencyActions : a \in ControlActions /\ ModuleProcess[ActionOwners[a]] = "guardian"
<1>1. "none" \notin ControlActions  BY DEF ControlActions, ActionOwners
<1>2. \A a \in EmergencyActions : a \in ControlActions /\ ActionOwners[a] = "guardian"
  BY DEF EmergencyActions, ControlActions, ActionOwners
<1>3. ModuleProcess["guardian"] = "guardian"  BY DEF ModuleProcess, RuntimeModules, OpsdModules
<1> QED  BY <1>1, <1>2, <1>3

(* A recorded event keeps the trace of modules that act within their authority. *)
LEMMA RecordedGrows ==
  ASSUME AuthorityInv, NEW event \in RuntimeTraceEvent, Recorded(event),
         event.action # "none" => event.module = ActionOwners[event.action],
         UNCHANGED pathAnswer, laneOpen' \in BOOLEAN, granted' \subseteq granted
  PROVE  AuthorityInv'
<1>1. /\ pathAnswer.status = "none" /\ Len(path) < MaxPathEvents /\ path' = Append(path, event)
      /\ path \in Seq(RuntimeTraceEvent)
  BY DEF Recorded, AuthorityInv, AuthorityTypeOK
<1>2. path' \in Seq(RuntimeTraceEvent) /\ Len(path') = Len(path) + 1 /\ DOMAIN path' = 1..(Len(path) + 1)
      /\ DOMAIN path = 1..Len(path) /\ Len(path) \in Nat
  BY <1>1
<1>3. Len(path') <= MaxPathEvents  BY <1>1, <1>2, RuntimeAuthorityAssumption
<1>4. \A i \in DOMAIN path' : path'[i].action # "none" => path'[i].module = ActionOwners[path'[i].action]
  <2> SUFFICES ASSUME NEW i \in DOMAIN path', path'[i].action # "none"
               PROVE  path'[i].module = ActionOwners[path'[i].action]
    OBVIOUS
  <2>1. CASE i = Len(path) + 1
    <3>1. path'[i] = event  BY <1>1, <2>1
    <3> QED  BY <3>1
  <2>2. CASE i \in DOMAIN path
    <3>1. path'[i] = path[i]  BY <1>1, <1>2, <2>2
    <3> QED  BY <2>2, <3>1 DEF AuthorityInv
  <2> QED  BY <1>2, <2>1, <2>2
<1> QED  BY <1>1, <1>2, <1>3, <1>4 DEF AuthorityInv, AuthorityTypeOK

(* A path that passed has every process it requires on one correlation, its
   high-priority actions kept the reserved lane, and its emergency actions ran
   outside opsd, for paths of every length (AuthorityInv is inductive). *)
THEOREM AuthorityPathsAreWhole == AuthoritySpec => [](AuthorityTypeOK /\ PassedPathsAreWhole)
<1>1. AuthorityInit => AuthorityInv
  <2> SUFFICES ASSUME AuthorityInit PROVE AuthorityInv  OBVIOUS
  <2>1. path = <<>> /\ <<>> \in Seq(RuntimeTraceEvent) /\ Len(<<>>) = 0 /\ DOMAIN <<>> = {}
    BY DEF AuthorityInit
  <2>2. MaxPathEvents >= 0  BY RuntimeAuthorityAssumption
  <2> QED  BY <2>1, <2>2 DEF AuthorityInit, AuthorityInv, AuthorityTypeOK
<1>2. AuthorityInv /\ [AuthorityNext]_authorityVars => AuthorityInv'
  <2> SUFFICES ASSUME AuthorityInv, [AuthorityNext]_authorityVars PROVE AuthorityInv'  OBVIOUS
  <2>1. CASE ShiftLane
    BY <2>1 DEF ShiftLane, AuthorityInv, AuthorityTypeOK
  <2>2. ASSUME NEW action \in ControlActions, NEW by \in RuntimeModules, NEW token \in BOOLEAN,
               NEW connectivity \in BOOLEAN, AskAuthority(action, by, token, connectivity)
        PROVE  AuthorityInv'
    <3>1. PICK q : q = [action |-> action, by |-> by, token |-> token, connectivity |-> connectivity, lane |-> laneOpen]
      OBVIOUS
    <3>2. EvaluateAuthority(q) = "pass" /\ granted' = {[action |-> action, by |-> by]}
          /\ UNCHANGED <<laneOpen, path, pathAnswer>>
      BY <2>2, <3>1 DEF AskAuthority
    <3>3. by = ActionOwners[action]  BY <3>1, <3>2, AuthorityIsTheOwners
    <3> QED  BY <3>2, <3>3 DEF AuthorityInv, AuthorityTypeOK
  <2>3. ASSUME NEW g \in granted, NEW label \in Labels, Act(g, label) PROVE AuthorityInv'
    <3>1. PICK event : event = [module |-> g.by, action |-> g.action, label |-> label, lane |-> laneOpen]  OBVIOUS
    <3>2. g.by \in RuntimeModules /\ g.action \in ControlActions /\ ActionOwners[g.action] = g.by
          /\ laneOpen \in BOOLEAN
      BY DEF AuthorityInv, AuthorityTypeOK
    <3>3. event \in RuntimeTraceEvent  BY <3>1, <3>2 DEF RuntimeTraceEvent
    <3>4. event.action = g.action /\ event.module = g.by  BY <3>1
    <3>5. Recorded(event) /\ granted' \subseteq granted /\ UNCHANGED <<laneOpen, pathAnswer>>
      BY <2>3, <3>1 DEF Act
    <3> QED  BY <3>2, <3>3, <3>4, <3>5, RecordedGrows
  <2>4. ASSUME NEW m \in RuntimeModules, NEW label \in Labels, Report(m, label) PROVE AuthorityInv'
    <3>1. PICK event : event = [module |-> m, action |-> "none", label |-> label, lane |-> FALSE]  OBVIOUS
    <3>2. event \in RuntimeTraceEvent  BY <3>1 DEF RuntimeTraceEvent
    <3>3. event.action = "none" /\ laneOpen \in BOOLEAN  BY <3>1 DEF AuthorityInv, AuthorityTypeOK
    <3>4. Recorded(event) /\ UNCHANGED <<laneOpen, granted, pathAnswer>>  BY <2>4, <3>1 DEF Report
    <3> QED  BY <3>2, <3>3, <3>4, RecordedGrows
  <2>5. ASSUME NEW surface \in DOMAIN StateOwnership, NEW claimant \in RuntimeModules, NEW label \in Labels,
               WriteSurface(surface, claimant, label)
        PROVE  AuthorityInv'
    BY <2>4, <2>5 DEF WriteSurface
  <2>6. ASSUME NEW required \in RequiredPaths, AuditPath(required) PROVE AuthorityInv'
    <3>1. PICK status : status = EvaluateTrace(path, required)  OBVIOUS
    <3>2. pathAnswer' = [status |-> status, required |-> required] /\ UNCHANGED <<laneOpen, granted, path>>
      BY <2>6, <3>1 DEF AuditPath
    <3>3. status \in {"pass", "violation", "invalid"}  BY <3>1, TraceAnswers
    <3> QED  BY <3>1, <3>2, <3>3 DEF AuthorityInv, AuthorityTypeOK
  <2>7. CASE UNCHANGED authorityVars
    BY <2>7 DEF authorityVars, AuthorityInv, AuthorityTypeOK
  <2>8. \A m \in Reporters : m \in RuntimeModules  BY RuntimeAuthorityAssumption
  <2> QED
    BY <2>1, <2>2, <2>3, <2>4, <2>5, <2>6, <2>7, <2>8 DEF AuthorityNext
<1>3. AuthorityInv => PassedPathsAreWhole
  <2> SUFFICES ASSUME AuthorityInv, pathAnswer.status = "pass"
               PROVE  /\ pathAnswer.required \subseteq ObservedProcesses(path)
                      /\ Cardinality({path[i].label : i \in DOMAIN path}) = 1
                      /\ \A i \in DOMAIN path :
                           /\ path[i].action \in HighPriorityActions => path[i].lane
                           /\ path[i].action \in EmergencyActions => ModuleProcess[path[i].module] # "opsd"
    BY DEF PassedPathsAreWhole
  <2>1. EvaluateTrace(path, pathAnswer.required) = "pass"  BY DEF AuthorityInv
  <2>2. /\ path # <<>> /\ pathAnswer.required \subseteq ObservedProcesses(path)
        /\ \A i, j \in DOMAIN path : path[i].label.correlation = path[j].label.correlation
        /\ \A i, j \in DOMAIN path : path[i].label.decision = path[j].label.decision
        /\ \A i \in DOMAIN path : path[i].label.artifact
        /\ \A i \in DOMAIN path : path[i].action \in HighPriorityActions => path[i].lane
    BY <2>1, PassingTrace
  <2>3. path \in Seq(RuntimeTraceEvent)  BY DEF AuthorityInv, AuthorityTypeOK
  <2>4. 1 \in DOMAIN path  BY <2>2, <2>3
  <2>5. ASSUME NEW i \in DOMAIN path PROVE path[i].label = path[1].label
    <3>1. path[i] \in RuntimeTraceEvent /\ path[1] \in RuntimeTraceEvent  BY <2>3, <2>4
    <3>2. path[i].label \in Labels /\ path[1].label \in Labels  BY <3>1 DEF RuntimeTraceEvent
    <3>3. PICK l : l = path[i].label  OBVIOUS
    <3>4. PICK m : m = path[1].label  OBVIOUS
    <3>5. l \in [correlation : Nat, decision : Nat, artifact : BOOLEAN]
          /\ m \in [correlation : Nat, decision : Nat, artifact : BOOLEAN]
      BY <3>2, <3>3, <3>4, RuntimeAuthorityAssumption
    <3>6. l.correlation = m.correlation /\ l.decision = m.decision /\ l.artifact /\ m.artifact
      BY <2>2, <2>4, <3>3, <3>4
    <3>7. l = m  BY <3>5, <3>6
    <3> QED  BY <3>3, <3>4, <3>7
  <2>6. {path[i].label : i \in DOMAIN path} = {path[1].label}  BY <2>4, <2>5
  <2>7. Cardinality({path[1].label}) = 1  BY FS_Singleton
  <2>8. Cardinality({path[i].label : i \in DOMAIN path}) = 1  BY <2>6, <2>7
  <2>9. \A i \in DOMAIN path : path[i].action \in EmergencyActions => ModuleProcess[path[i].module] # "opsd"
    <3> SUFFICES ASSUME NEW i \in DOMAIN path, path[i].action \in EmergencyActions
                 PROVE  ModuleProcess[path[i].module] = "guardian"
      OBVIOUS
    <3>1. path[i].action # "none" /\ ModuleProcess[ActionOwners[path[i].action]] = "guardian"  BY OwnersAreModules
    <3>2. path[i].module = ActionOwners[path[i].action]  BY <3>1 DEF AuthorityInv
    <3> QED  BY <3>1, <3>2
  <2> QED  BY <2>2, <2>8, <2>9
<1>4. AuthorityInv => AuthorityTypeOK  BY DEF AuthorityInv
<1> QED
  BY <1>1, <1>2, <1>3, <1>4, PTL DEF AuthoritySpec

----------------------------------------------------------------------------
(* The decision over a failed gate is never to advance. *)
LEMMA FailuresDoNotAdvance ==
  ASSUME NEW failed, NEW e
  PROVE  /\ FailureDecision(failed, e) \in {"advance", "hold", "pivot", "reject"}
         /\ failed # {} => FailureDecision(failed, e) # "advance"
<1>1. PICK otherwise : otherwise = "hold"  OBVIOUS
<1>2. PICK gates : gates =
        <<Gate(failed = {}, "advance"),
          Gate("dollars" \in failed, IF e.dollars.decision = "pivot" THEN "pivot" ELSE "reject"),
          Gate("portability" \in failed,
               CASE e.certification.outcome = "pivot" -> "pivot" [] e.certification.outcome = "narrow" -> "hold"
                 [] OTHER -> "reject"),
          Gate(failed \cap {"fit", "profitability"} # {}, "reject")>>
  OBVIOUS
<1>3. DOMAIN gates = 1..4 /\ DOMAIN gates \in SUBSET Nat  BY <1>2
<1>4. FailureDecision(failed, e) = FirstClosed(gates, otherwise)  BY <1>1, <1>2 DEF FailureDecision
<1>5. gates[1].answer = "advance" /\ \A i \in 2..4 : gates[i].answer \in {"hold", "pivot", "reject"}
  BY <1>2 DEF Gate
<1>6. FailureDecision(failed, e) \in {"advance", "hold", "pivot", "reject"}
  <2>1. \A i \in DOMAIN gates : gates[i].answer \in {"advance", "hold", "pivot", "reject"}
    BY <1>3, <1>5
  <2> QED  BY <1>1, <1>3, <1>4, <2>1, ChainAnswers
<1>7. ASSUME failed # {} PROVE FailureDecision(failed, e) # "advance"
  <2>1. ~ gates[1].closed  BY <1>2, <1>7 DEF Gate
  <2>2. PICK closed : closed = {i \in DOMAIN gates : gates[i].closed}  OBVIOUS
  <2>3. closed \in SUBSET (2..4)  BY <1>3, <2>1, <2>2
  <2>4. CASE closed = {}
    <3>1. FirstClosed(gates, otherwise) = otherwise  BY <2>2, <2>4 DEF FirstClosed
    <3> QED  BY <1>1, <1>4, <3>1
  <2>5. CASE closed # {}
    <3>1. closed \in SUBSET Nat  BY <2>3
    <3>2. \E i \in closed : \A j \in closed : i <= j  BY <2>5, <3>1, LeastNatural
    <3>3. Earliest(closed) \in closed  BY <3>2 DEF Earliest
    <3>4. FirstClosed(gates, otherwise) = gates[Earliest(closed)].answer  BY <2>2, <2>5 DEF FirstClosed
    <3>5. gates[Earliest(closed)].answer \in {"hold", "pivot", "reject"}  BY <1>5, <2>3, <3>3
    <3> QED  BY <1>4, <3>4, <3>5
  <2> QED  BY <2>4, <2>5
<1> QED  BY <1>6, <1>7

(* A candidate that advances failed no gate. *)
LEMMA AdvancingFailsNothing ==
  ASSUME NEW q, NEW e
  PROVE  /\ EvaluateSelection(q, e) \in {"advance", "hold", "pivot", "reject"}
         /\ EvaluateSelection(q, e) = "advance" => FailedGates(q, e) = {}
<1>1. PICK answer : answer = "advance"  OBVIOUS
<1>2. PICK failed : failed = FailedGates(q, e)  OBVIOUS
<1>3. PICK provisional : provisional = FailureDecision(failed, e)  OBVIOUS
<1>4. PICK gates : gates =
        <<Gate(~q.supported \/ ~IdentitiesAligned(q, e), "hold"), Gate("bundle" \in failed, "hold"),
          Gate(failed # {} \/ RankingOverrides(q, failed, provisional), provisional)>>
  OBVIOUS
<1>5. EvaluateSelection(q, e) = FirstClosed(gates, answer)  BY <1>1, <1>2, <1>3, <1>4 DEF EvaluateSelection
<1>6. DOMAIN gates = 1..3 /\ DOMAIN gates \in SUBSET Nat  BY <1>4
<1>7. \A i \in DOMAIN gates : gates[i].answer \in {"hold", provisional}  BY <1>4 DEF Gate
<1>8. provisional \in {"advance", "hold", "pivot", "reject"} /\ (failed # {} => provisional # "advance")
  BY <1>3, FailuresDoNotAdvance
<1>9. EvaluateSelection(q, e) \in {"advance", "hold", "pivot", "reject"}
  BY <1>1, <1>5, <1>6, <1>7, <1>8, ChainAnswers
<1>10. ASSUME EvaluateSelection(q, e) = "advance", failed # {} PROVE FALSE
  <2>1. \A i \in DOMAIN gates : gates[i].answer # answer  BY <1>1, <1>7, <1>8, <1>10
  <2>2. answer = FirstClosed(gates, answer)  BY <1>1, <1>5, <1>10
  <2>3. \A i \in DOMAIN gates : ~ gates[i].closed  BY <1>6, <2>1, <2>2, ChainOpen
  <2>4. ~ gates[3].closed  BY <1>6, <2>3
  <2> QED  BY <1>4, <1>10, <2>4 DEF Gate
<1> QED  BY <1>2, <1>9, <1>10

(* What no failed gate says of the evidence: one symbol throughout. *)
LEMMA NoFailurePins ==
  ASSUME NEW q, NEW e, FailedGates(q, e) = {}
  PROVE  /\ SymbolPinned(q, e) /\ e.protocol.passed /\ e.certification.allowed
<1>1. "pin" \notin FailedGates(q, e) /\ "protocol" \notin FailedGates(q, e) /\ "portability" \notin FailedGates(q, e)
  OBVIOUS
<1>2. SymbolPinned(q, e)  BY <1>1 DEF FailedGates
<1>3. e.protocol.passed  BY <1>1 DEF FailedGates
<1>4. e.certification.allowed  BY <1>1 DEF FailedGates
<1> QED  BY <1>2, <1>3, <1>4

(* What is reported of a finalist; an allowed symbol has a report that passed. *)
FitReports == [candidate : Finalists, symbol : STRING, status : {"pass", "stale", "fail", "invalid"}]
AllowedPassed(d) == \A s \in d.allowed : \E r \in d.sources : r.symbol = s /\ r.status = "pass"

(* An allowed symbol has a report that passed; a certificate that allows cites a
   screen that passed; the reports of a round were gathered in order. *)
SelectionInv ==
  /\ SelectionTypeOK /\ AdvancesOnOneSymbol /\ fitReports \in Seq(FitReports)
  /\ fitDecision # NoEvidence => AllowedPassed(fitDecision)
  /\ (certification # NoEvidence \/ fitReports # <<>> \/ fitDecision # NoEvidence)
       => (certification.allowed => certification.screened)
  /\ dollars # NoEvidence => fitDecision # NoEvidence
  /\ protocol # NoEvidence => dollars # NoEvidence

(* What an account-fit report can say. *)
LEMMA FitStatuses ==
  ASSUME NEW q, NEW now
  PROVE  EvaluateAccountFit(q, now) \in {"pass", "stale", "fail", "invalid"}
<1>1. PICK otherwise : otherwise = "pass"  OBVIOUS
<1>2. PICK gates : gates =
        <<Gate(~q.wellFormed \/ ~q.aligned, "invalid"),
          Gate(~(now \in q.margin.from..q.margin.to) \/ ~(now \in q.fee.from..q.fee.to), "stale"),
          Gate(FailedFitChecks(q) # {}, "fail")>>
  OBVIOUS
<1>3. DOMAIN gates \in SUBSET Nat /\ \A i \in DOMAIN gates : gates[i].answer \in {"pass", "stale", "fail", "invalid"}
  BY <1>2 DEF Gate
<1>4. EvaluateAccountFit(q, now) = FirstClosed(gates, otherwise)  BY <1>1, <1>2 DEF EvaluateAccountFit
<1>5. otherwise \in {"pass", "stale", "fail", "invalid"}  BY <1>1
<1> QED  BY <1>3, <1>4, <1>5, ChainAnswers

(* A finalist advances on one execution symbol, the one that was certified, fitted
   and paid for (SelectionInv is inductive). *)
THEOREM SelectionAdvances == SelectionSpec => [](SelectionTypeOK /\ AdvancesOnOneSymbol)
<1>1. SelectionInit => SelectionInv
  BY DEF SelectionInit, SelectionInv, SelectionTypeOK, AdvancesOnOneSymbol
<1>2. SelectionInv /\ [SelectionNext]_selectionVars => SelectionInv'
  <2> SUFFICES ASSUME SelectionInv, [SelectionNext]_selectionVars PROVE SelectionInv'  OBVIOUS
  <2>1. ASSUME NEW c \in Finalists, NEW screen \in Screens, NEW q \in SymbolCertifications,
               CertifySymbol(c, screen, q)
        PROVE  SelectionInv'
    <3>1. PICK screened : screened = EvaluateScreen(screen).passed  OBVIOUS
    <3>2. PICK r : r = [q EXCEPT !.screened = screened]  OBVIOUS
    <3>3. PICK report : report = EvaluatePortability(r)  OBVIOUS
    <3>4. r.screened = screened  BY <3>2, SelectionInputsAssumption DEF CertificationRequest
    <3>5. report.allowed => screened  BY <3>3, <3>4 DEF EvaluatePortability
    <3>6. certification' = [candidate |-> c, execution |-> report.execution, allowed |-> report.allowed,
                            outcome |-> report.outcome, screened |-> screened]
          /\ UNCHANGED <<fitReports, fitTime, fitDecision, dollars, protocol, selection>>
      BY <2>1, <3>1, <3>2, <3>3 DEF CertifySymbol
    <3>7. certification'.allowed => certification'.screened  BY <3>5, <3>6
    <3> QED  BY <3>6, <3>7 DEF SelectionInv, SelectionTypeOK, AdvancesOnOneSymbol
  <2>2. ASSUME NEW c \in Finalists, NEW q \in FitRequests, FitAccount(c, q) PROVE SelectionInv'
    <3>1. PICK status : status = EvaluateAccountFit(q, fitTime)  OBVIOUS
    <3>2. PICK report : report = [candidate |-> c, symbol |-> q.symbol, status |-> status]  OBVIOUS
    <3>3. report \in FitReports
      BY <3>1, <3>2, FitStatuses, SelectionInputsAssumption DEF FitReports, AccountFitRequest
    <3>4. fitReports' = Append(fitReports, report) /\ certification # NoEvidence
          /\ UNCHANGED <<certification, fitTime, fitDecision, dollars, protocol, selection>>
      BY <2>2, <3>1, <3>2 DEF FitAccount
    <3>5. fitReports' \in Seq(FitReports)  BY <3>3, <3>4 DEF SelectionInv
    <3>6. \A i \in DOMAIN fitReports' : fitReports'[i].status \in {"pass", "stale", "fail", "invalid"}
      <4>1. \A r \in FitReports : r.status \in {"pass", "stale", "fail", "invalid"}  BY DEF FitReports
      <4> QED  BY <3>5, <4>1
    <3> QED  BY <3>4, <3>5, <3>6 DEF SelectionInv, SelectionTypeOK, AdvancesOnOneSymbol
  <2>3. CASE PassFitTime
    BY <2>3 DEF PassFitTime, SelectionInv, SelectionTypeOK, AdvancesOnOneSymbol
  <2>4. CASE ChooseSymbol
    <3>1. PICK d : d = ChooseExecutionSymbol(fitReports)  OBVIOUS
    <3>2. fitReports # <<>> /\ fitReports' = <<>>
          /\ fitDecision' = [candidate |-> d.candidate, allowed |-> d.allowed, selected |-> d.selected,
                             status |-> d.status, sources |-> ToSet(fitReports)]
          /\ fitDecision = NoEvidence
          /\ UNCHANGED <<certification, fitTime, dollars, protocol, selection>>
      BY <2>4, <3>1 DEF ChooseSymbol
    <3>3. d.allowed = {fitReports[i].symbol : i \in {j \in DOMAIN fitReports : fitReports[j].status = "pass"}}
      BY <3>1 DEF ChooseExecutionSymbol
    <3>4. fitDecision'.allowed = d.allowed /\ fitDecision'.sources = ToSet(fitReports)  BY <3>2
    <3>5. AllowedPassed(fitDecision')  BY <3>3, <3>4 DEF AllowedPassed, ToSet
    <3>6. fitDecision'.allowed \subseteq {r.symbol : r \in fitDecision'.sources}  BY <3>5 DEF AllowedPassed
    <3>7. DOMAIN fitReports' = {} /\ fitReports' \in Seq(FitReports)  BY <3>2
    <3> QED  BY <3>2, <3>5, <3>6, <3>7 DEF SelectionInv, SelectionTypeOK, AdvancesOnOneSymbol
  <2>5. ASSUME NEW c \in Finalists, NEW q \in DollarRequests, CountDollars(c, q) PROVE SelectionInv'
    BY <2>5 DEF CountDollars, SelectionInv, SelectionTypeOK, AdvancesOnOneSymbol
  <2>6. ASSUME NEW c \in Finalists, NEW passed \in BOOLEAN, ReportProtocol(c, passed) PROVE SelectionInv'
    BY <2>6 DEF ReportProtocol, SelectionInv, SelectionTypeOK, AdvancesOnOneSymbol
  <2>7. ASSUME NEW q, Select(q) PROVE SelectionInv'
    <3>1. PICK e : e = [certification |-> certification, fit |-> fitDecision, dollars |-> dollars,
                        protocol |-> protocol]
      OBVIOUS
    <3>2. PICK decision : decision = EvaluateSelection(q, e)  OBVIOUS
    <3>3. selection' = [request |-> q, evidence |-> e, decision |-> decision] /\ protocol # NoEvidence
          /\ UNCHANGED <<certification, fitReports, fitTime, fitDecision, dollars, protocol>>
      BY <2>7, <3>1, <3>2 DEF Select
    <3>4. selection'.request = q /\ selection'.evidence = e /\ selection'.decision = decision  BY <3>3
    <3>5. decision \in {"advance", "hold", "pivot", "reject"}  BY <3>2, AdvancingFailsNothing
    <3>6. ASSUME decision = "advance"
          PROVE  /\ e.certification.execution = SelectedSymbol(q, e) /\ e.dollars.symbol = SelectedSymbol(q, e)
                 /\ e.certification.screened /\ e.protocol.passed
                 /\ \E r \in e.fit.sources : r.symbol = SelectedSymbol(q, e) /\ r.status = "pass"
      <4>1. SymbolPinned(q, e) /\ e.protocol.passed /\ e.certification.allowed
        BY <3>2, <3>6, AdvancingFailsNothing, NoFailurePins
      <4>2. e.certification = certification /\ e.fit = fitDecision  BY <3>1
      <4>3. fitDecision # NoEvidence  BY <3>3 DEF SelectionInv
      <4>4. AllowedPassed(e.fit) /\ (e.certification.allowed => e.certification.screened)
        BY <4>2, <4>3 DEF SelectionInv
      <4> QED  BY <4>1, <4>4 DEF SymbolPinned, AllowedPassed
    <3>7. AdvancesOnOneSymbol'  BY <3>4, <3>6 DEF AdvancesOnOneSymbol, SelectedSymbol
    <3> QED  BY <3>3, <3>4, <3>5, <3>7 DEF SelectionInv, SelectionTypeOK
  <2>8. CASE UNCHANGED selectionVars
    BY <2>8 DEF selectionVars, SelectionInv, SelectionTypeOK, AdvancesOnOneSymbol
  <2> QED
    BY <2>1, <2>2, <2>3, <2>4, <2>5, <2>6, <2>7, <2>8 DEF SelectionNext
<1>3. SelectionInv => SelectionTypeOK /\ AdvancesOnOneSymbol  BY DEF SelectionInv
<1> QED
  BY <1>1, <1>2, <1>3, PTL DEF SelectionSpec

(* What the finding about borrowed evidence leaves: a finalist that advances does
   so on a certificate and on dollars of its own, and at least one of the
   account-fit reports is its own. *)
AdvancesOnItsOwnEvidence ==
  (selection # NoEvidence /\ selection.decision = "advance") =>
    LET e == selection.evidence
        candidate == selection.request.candidate
    IN  /\ e.certification.candidate = candidate /\ e.dollars.candidate = candidate
        /\ \E r \in e.fit.sources : r.candidate = candidate

(* A finalist only advances on reports that name it. *)
LEMMA AdvancingIsAligned ==
  ASSUME NEW q, NEW e, EvaluateSelection(q, e) = "advance"
  PROVE  IdentitiesAligned(q, e)
<1>1. PICK answer : answer = "advance"  OBVIOUS
<1>2. PICK failed : failed = FailedGates(q, e)  OBVIOUS
<1>3. PICK provisional : provisional = FailureDecision(failed, e)  OBVIOUS
<1>4. PICK gates : gates =
        <<Gate(~q.supported \/ ~IdentitiesAligned(q, e), "hold"), Gate("bundle" \in failed, "hold"),
          Gate(failed # {} \/ RankingOverrides(q, failed, provisional), provisional)>>
  OBVIOUS
<1>5. EvaluateSelection(q, e) = FirstClosed(gates, answer)  BY <1>1, <1>2, <1>3, <1>4 DEF EvaluateSelection
<1>6. PICK closed : closed = {i \in DOMAIN gates : gates[i].closed}  OBVIOUS
<1>7. DOMAIN gates = 1..3 /\ closed \in SUBSET Nat /\ closed \subseteq 1..3  BY <1>4, <1>6
<1>8. ASSUME ~IdentitiesAligned(q, e) PROVE FALSE
  <2>1. gates[1].closed /\ gates[1].answer = "hold"  BY <1>4, <1>8 DEF Gate
  <2>2. 1 \in closed  BY <1>6, <1>7, <2>1
  <2>3. \E i \in closed : \A j \in closed : i <= j  BY <1>7, <2>2, LeastNatural
  <2>4. PICK first : first = Earliest(closed)  OBVIOUS
  <2>5. first \in closed /\ first <= 1  BY <2>2, <2>3, <2>4 DEF Earliest
  <2>6. first \in 1..3  BY <1>7, <2>5
  <2>7. first = 1  BY <2>5, <2>6
  <2>8. FirstClosed(gates, answer) = gates[first].answer  BY <1>6, <2>2, <2>4 DEF FirstClosed
  <2>9. FirstClosed(gates, answer) = "hold"  BY <2>1, <2>7, <2>8
  <2> QED  BY <1>1, <1>5, <2>9
<1> QED  BY <1>8

(* The decision about an account fit names the candidate of one of its reports,
   and the evidence is gathered in order. *)
OwnEvidenceInv ==
  /\ AdvancesOnItsOwnEvidence /\ fitReports \in Seq(FitReports)
  /\ fitDecision # NoEvidence => \E r \in fitDecision.sources : r.candidate = fitDecision.candidate
  /\ dollars # NoEvidence => fitDecision # NoEvidence
  /\ protocol # NoEvidence => dollars # NoEvidence

(* The gates keep a finalist from advancing on reports that all speak of another. *)
THEOREM SelectionOwnsEvidence == SelectionSpec => []AdvancesOnItsOwnEvidence
<1>1. SelectionInit => OwnEvidenceInv
  BY DEF SelectionInit, OwnEvidenceInv, AdvancesOnItsOwnEvidence
<1>2. OwnEvidenceInv /\ [SelectionNext]_selectionVars => OwnEvidenceInv'
  <2> SUFFICES ASSUME OwnEvidenceInv, [SelectionNext]_selectionVars PROVE OwnEvidenceInv'  OBVIOUS
  <2>1. ASSUME UNCHANGED <<fitDecision, dollars, protocol, selection>>, fitReports' \in Seq(FitReports)
        PROVE  OwnEvidenceInv'
    BY <2>1 DEF OwnEvidenceInv, AdvancesOnItsOwnEvidence
  <2>2. ASSUME NEW c \in Finalists, NEW screen \in Screens, NEW q \in SymbolCertifications,
               CertifySymbol(c, screen, q)
        PROVE  OwnEvidenceInv'
    BY <2>1, <2>2 DEF CertifySymbol, OwnEvidenceInv
  <2>3. ASSUME NEW c \in Finalists, NEW q \in FitRequests, FitAccount(c, q) PROVE OwnEvidenceInv'
    <3>1. PICK report : report = [candidate |-> c, symbol |-> q.symbol, status |-> EvaluateAccountFit(q, fitTime)]
      OBVIOUS
    <3>2. report \in FitReports
      BY <3>1, FitStatuses, SelectionInputsAssumption DEF FitReports, AccountFitRequest
    <3>3. /\ fitReports' = Append(fitReports, report)
          /\ UNCHANGED <<fitDecision, dollars, protocol, selection>>
      BY <2>3, <3>1 DEF FitAccount
    <3> QED  BY <2>1, <3>2, <3>3 DEF OwnEvidenceInv
  <2>4. CASE PassFitTime  BY <2>1, <2>4 DEF PassFitTime, OwnEvidenceInv
  <2>5. CASE ChooseSymbol
    <3>1. PICK d : d = ChooseExecutionSymbol(fitReports)  OBVIOUS
    <3>2. /\ fitReports # <<>> /\ fitDecision = NoEvidence
          /\ fitDecision' = [candidate |-> d.candidate, allowed |-> d.allowed, selected |-> d.selected,
                             status |-> d.status, sources |-> ToSet(fitReports)]
          /\ fitReports' = <<>> /\ UNCHANGED <<dollars, protocol, selection>>
      BY <2>5, <3>1 DEF ChooseSymbol
    <3>3. d.candidate = fitReports[1].candidate  BY <3>1 DEF ChooseExecutionSymbol
    <3>4. fitReports[1] \in ToSet(fitReports)  BY <3>2 DEF OwnEvidenceInv, ToSet
    <3>5. \E r \in fitDecision'.sources : r.candidate = fitDecision'.candidate  BY <3>2, <3>3, <3>4
    <3> QED  BY <3>2, <3>5 DEF OwnEvidenceInv, AdvancesOnItsOwnEvidence
  <2>6. ASSUME NEW c \in Finalists, NEW q \in DollarRequests, CountDollars(c, q) PROVE OwnEvidenceInv'
    BY <2>6 DEF CountDollars, OwnEvidenceInv, AdvancesOnItsOwnEvidence
  <2>7. ASSUME NEW c \in Finalists, NEW passed \in BOOLEAN, ReportProtocol(c, passed) PROVE OwnEvidenceInv'
    BY <2>7 DEF ReportProtocol, OwnEvidenceInv, AdvancesOnItsOwnEvidence
  <2>8. ASSUME NEW q, Select(q) PROVE OwnEvidenceInv'
    <3>1. PICK e : e = [certification |-> certification, fit |-> fitDecision, dollars |-> dollars,
                        protocol |-> protocol]
      OBVIOUS
    <3>2. PICK decision : decision = EvaluateSelection(q, e)  OBVIOUS
    <3>3. selection' = [request |-> q, evidence |-> e, decision |-> decision] /\ protocol # NoEvidence
          /\ UNCHANGED <<fitReports, fitDecision, dollars, protocol>>
      BY <2>8, <3>1, <3>2 DEF Select
    <3>4. e.fit = fitDecision /\ fitDecision # NoEvidence  BY <3>1, <3>3 DEF OwnEvidenceInv
    <3>5. \E r \in e.fit.sources : r.candidate = e.fit.candidate  BY <3>4 DEF OwnEvidenceInv
    <3>6. ASSUME decision = "advance"
          PROVE  /\ e.certification.candidate = q.candidate /\ e.dollars.candidate = q.candidate
                 /\ \E r \in e.fit.sources : r.candidate = q.candidate
      <4>1. {q.afterCost.candidate, e.certification.candidate, e.fit.candidate, e.dollars.candidate} = {q.candidate}
        BY <3>2, <3>6, AdvancingIsAligned DEF IdentitiesAligned
      <4> QED  BY <3>5, <4>1
    <3>7. selection'.request = q /\ selection'.evidence = e /\ selection'.decision = decision  BY <3>3
    <3>8. AdvancesOnItsOwnEvidence'  BY <3>6, <3>7 DEF AdvancesOnItsOwnEvidence
    <3> QED  BY <3>3, <3>8 DEF OwnEvidenceInv
  <2>9. CASE UNCHANGED selectionVars  BY <2>1, <2>9 DEF selectionVars, OwnEvidenceInv
  <2> QED  BY <2>2, <2>3, <2>4, <2>5, <2>6, <2>7, <2>8, <2>9 DEF SelectionNext
<1>3. OwnEvidenceInv => AdvancesOnItsOwnEvidence  BY DEF OwnEvidenceInv
<1> QED  BY <1>1, <1>2, <1>3, PTL DEF SelectionSpec

----------------------------------------------------------------------------
(* What the evaluator authorises: a continuation with a budget under the cap,
   screened when it is deep. *)
LEMMA AuthorisedIsCapped ==
  ASSUME NEW q, EvaluateFamilyBudgetDecision(q) = "authorize"
  PROVE  /\ q.type # "terminate" /\ (q.type = "terminate" \/ q.next > 0)
         /\ q.next <= q.preregistration.limits.continuation
         /\ (q.preregistration.limits.screened /\ q.next > q.preregistration.limits.exploratory) => ViabilityScreened(q)
<1>1. PICK answer : answer = "authorize"  OBVIOUS
<1>2. PICK limits : limits = q.preregistration.limits  OBVIOUS
<1>3. PICK s : s = q.summary  OBVIOUS
<1>4. PICK gates : gates =
        <<Gate(EvaluatePreregistration(q.preregistration) # "register", "invalid"),
          Gate(~DecisionAligned(q), "invalid"),
          Gate(~(s.quality /\ s.economics /\ s.metrics # {} /\ s.metrics \subseteq q.preregistration.metrics), "invalid"),
          Gate(~(q.consumed >= 0 /\ q.next <= limits.continuation), "violation"),
          Gate(limits.screened /\ DeepBudgetRequested(q) /\ ~ViabilityScreened(q), "violation"),
          Gate(q.type = "pause", "hold"),
          Gate(q.type = "terminate", "terminate")>>
  OBVIOUS
<1>5. DOMAIN gates = 1..7 /\ DOMAIN gates \in SUBSET Nat /\ \A i \in DOMAIN gates : gates[i].answer # answer
  BY <1>1, <1>4 DEF Gate
<1>6. answer = FirstClosed(gates, answer)  BY <1>1, <1>2, <1>3, <1>4 DEF EvaluateFamilyBudgetDecision
<1>7. \A i \in DOMAIN gates : ~ gates[i].closed  BY <1>5, <1>6, ChainOpen
<1>8. ~ gates[2].closed /\ ~ gates[4].closed /\ ~ gates[5].closed /\ ~ gates[7].closed  BY <1>5, <1>7
<1>9. DecisionAligned(q) /\ q.next <= limits.continuation /\ q.type # "terminate"
  BY <1>4, <1>8 DEF Gate
<1>10. limits.screened /\ DeepBudgetRequested(q) => ViabilityScreened(q)  BY <1>4, <1>8 DEF Gate
<1> QED  BY <1>2, <1>9, <1>10 DEF DecisionAligned, DeepBudgetRequested

(* What is allowed past the exploratory limit is covered by the decision shown. *)
LEMMA AllowedIsCovered ==
  ASSUME NEW l, NEW suite, NEW program, NEW d, NEW limits, NEW answer,
         answer = EvaluateDiscoveryAccounting(l, suite, program, d, limits),
         answer \in {"allow_exploratory", "allow_with_continuation"},
         ExceedsExploratory(l, limits)
  PROVE  ContinuationCovers(d, l)
<1>1. PICK otherwise : otherwise = "allow_exploratory"  OBVIOUS
<1>2. PICK gates : gates =
        <<Gate(~FamilyLedgerValid(l, suite), "invalid"),
          Gate(~ProgramLedgerValid(program, l.family), "invalid"),
          Gate(~NullSuiteComplete(suite), "block"),
          Gate(ExceedsExploratory(l, limits) /\ ~ContinuationCovers(d, l), "block"),
          Gate(ExceedsExploratory(l, limits), "allow_with_continuation")>>
  OBVIOUS
<1>3. DOMAIN gates = 1..5 /\ DOMAIN gates \in SUBSET Nat  BY <1>2
<1>4. \A i \in 1..4 : gates[i].answer \in {"invalid", "block"}  BY <1>2 DEF Gate
<1>5. answer = FirstClosed(gates, otherwise)  BY <1>1, <1>2 DEF EvaluateDiscoveryAccounting
<1>6. gates[5].closed  BY <1>2 DEF Gate
<1>7. \E i \in DOMAIN gates : gates[i].closed /\ answer = gates[i].answer /\ \A j \in DOMAIN gates : j < i => ~ gates[j].closed
  BY <1>3, <1>5, <1>6, ChainAnswers
<1>8. ~ gates[4].closed  BY <1>3, <1>4, <1>7
<1> QED  BY <1>2, <1>8 DEF Gate

(* The fallback of a list is offered and of that list, or the program ends. *)
LEMMA OfferedFallback ==
  ASSUME NEW n \in Nat, NEW order, DOMAIN order = 1..n, NEW offers
  PROVE  \/ FirstOffered(order, offers) = "terminate"
         \/ \E i \in 1..n : FirstOffered(order, offers) = order[i] /\ order[i] \in offers
<1>1. PICK otherwise : otherwise = "terminate"  OBVIOUS
<1>2. PICK answer : answer = FirstOffered(order, offers)  OBVIOUS
<1>3. PICK gates : gates = [i \in DOMAIN order |-> Gate(order[i] \in offers, order[i])]  OBVIOUS
<1>4. DOMAIN gates = 1..n /\ DOMAIN gates \in SUBSET Nat
  <2>1. DOMAIN gates = 1..n  BY <1>3
  <2> QED  BY <2>1
<1>5. answer = FirstClosed(gates, otherwise)  BY <1>1, <1>2, <1>3 DEF FirstOffered
<1>6. \/ answer = otherwise
      \/ \E i \in DOMAIN gates : gates[i].closed /\ answer = gates[i].answer
  BY <1>4, <1>5, ChainAnswers
<1>7. \A i \in 1..n : gates[i].closed = (order[i] \in offers) /\ gates[i].answer = order[i]
  BY <1>3 DEF Gate
<1> QED  BY <1>1, <1>2, <1>4, <1>6, <1>7

(* A closure review answers with an offer, or to continue or terminate: it
   continues only when nothing triggers, terminates when neither the market nor the
   economics carries the programme, and never answers an untradable one with capital. *)
LEMMA ReviewsAreCoherent ==
  ASSUME NEW q \in ProgramClosureRequest, NEW answer, answer = EvaluateProgramClosure(q)
  PROVE  /\ answer \in q.offers \cup {"continue", "terminate"}
         /\ answer = "continue" <=> Triggers(q) = {}
         /\ {"tradability", "economics"} \subseteq Triggers(q) => answer = "terminate"
         /\ ~q.tradable => answer # "higher_capital"
<1>1. PICK triggers : triggers = Triggers(q)  OBVIOUS
<1>2. ~q.tradable => "tradability" \in triggers  BY <1>1 DEF Triggers
<1>3. PICK offers : offers = q.offers /\ offers \subseteq {"intraday", "alternate_symbol", "paper", "higher_capital"}
  BY DEF ProgramClosureRequest
<1>4. PICK leading : leading =
        FirstClosed(<<Gate("tradability" \in triggers, "tradability"), Gate("economics" \in triggers, "economics"),
                      Gate("friction" \in triggers, "friction")>>, "posture")
  OBVIOUS
<1>5. leading \in {"tradability", "economics", "friction", "posture"}
      /\ ("tradability" \in triggers => leading = "tradability")
  <2>1. PICK otherwise : otherwise = "posture"  OBVIOUS
  <2>2. PICK gates : gates = <<Gate("tradability" \in triggers, "tradability"),
                               Gate("economics" \in triggers, "economics"), Gate("friction" \in triggers, "friction")>>
    OBVIOUS
  <2>3. DOMAIN gates = 1..3 /\ DOMAIN gates \in SUBSET Nat  BY <2>2
  <2>4. gates[1].answer = "tradability" /\ gates[2].answer = "economics" /\ gates[3].answer = "friction"
        /\ ("tradability" \in triggers => gates[1].closed)
    BY <2>2 DEF Gate
  <2>5. leading = FirstClosed(gates, otherwise)  BY <1>4, <2>1, <2>2
  <2>6. \/ leading = otherwise /\ \A i \in DOMAIN gates : ~ gates[i].closed
        \/ \E i \in DOMAIN gates : gates[i].closed /\ leading = gates[i].answer
                                   /\ \A j \in DOMAIN gates : j < i => ~ gates[j].closed
    BY <2>3, <2>5, ChainAnswers
  <2>7. CASE leading = otherwise /\ \A i \in DOMAIN gates : ~ gates[i].closed
    <3>1. "tradability" \notin triggers  BY <2>3, <2>4, <2>7
    <3> QED  BY <2>1, <2>7, <3>1
  <2>8. ASSUME NEW i \in DOMAIN gates, gates[i].closed, leading = gates[i].answer,
               \A j \in DOMAIN gates : j < i => ~ gates[j].closed
        PROVE  leading \in {"tradability", "economics", "friction", "posture"}
               /\ ("tradability" \in triggers => leading = "tradability")
    <3>1. i \in 1..3  BY <2>3
    <3>2. leading \in {"tradability", "economics", "friction"}  BY <2>4, <2>8, <3>1
    <3>3. "tradability" \in triggers => i = 1  BY <2>3, <2>4, <2>8, <3>1
    <3> QED  BY <2>4, <2>8, <3>2, <3>3
  <2> QED  BY <2>6, <2>7, <2>8
<1>6. PICK order : order = ClosureFallbacks[leading]  OBVIOUS
<1>7. /\ \E n \in Nat : DOMAIN order = 1..n
      /\ \A i \in DOMAIN order : order[i] # "continue"
      /\ leading = "tradability" => \A i \in DOMAIN order : order[i] # "higher_capital"
  <2>1. CASE leading = "tradability"
    <3>1. order = <<"intraday", "alternate_symbol", "paper">>  BY <1>6, <2>1 DEF ClosureFallbacks
    <3>2. DOMAIN order = 1..3  BY <3>1
    <3>3. \A i \in 1..3 : order[i] \in {"intraday", "alternate_symbol", "paper"}  BY <3>1
    <3> QED  BY <3>2, <3>3
  <2>2. CASE leading \in {"economics", "friction", "posture"}
    <3>1. order \in {<<"higher_capital", "paper">>, <<"paper", "intraday">>}  BY <1>6, <2>2 DEF ClosureFallbacks
    <3>2. DOMAIN order = 1..2  BY <3>1
    <3>3. \A i \in 1..2 : order[i] \in {"higher_capital", "paper", "intraday"}  BY <3>1
    <3> QED  BY <2>2, <3>2, <3>3
  <2> QED  BY <1>5, <2>1, <2>2
<1>8. PICK fallback : fallback = FirstOffered(order, offers)  OBVIOUS
<1>9. \/ fallback = "terminate"
      \/ \E i \in DOMAIN order : fallback = order[i] /\ order[i] \in offers
  <2>1. PICK n \in Nat : DOMAIN order = 1..n  BY <1>7
  <2> QED  BY <1>8, <2>1, OfferedFallback
<1>10. fallback \in offers \cup {"terminate"} /\ fallback # "continue"
       /\ ("tradability" \in triggers => fallback # "higher_capital")
  BY <1>3, <1>5, <1>7, <1>9
<1>11. answer = CASE triggers = {} -> "continue"
                  [] {"tradability", "economics"} \subseteq triggers -> "terminate"
                  [] OTHER -> fallback
  BY <1>1, <1>3, <1>4, <1>6, <1>8, Zenon DEF EvaluateProgramClosure
<1> QED  BY <1>1, <1>2, <1>3, <1>10, <1>11

(* The sums a decision and a request are about. *)
FundingDecisions ==
  [family : FundedFamilies, type : {"continue", "pivot", "pause", "terminate"}, next : 1..BudgetLimits.continuation,
   viability : ViabilityDecisionReference \cup {NoFunding}]
DecisionEarned(d) ==
  (BudgetLimits.screened /\ d.next > BudgetLimits.exploratory)
    => d.viability # NoFunding /\ d.viability.passed /\ d.viability.symbol = "MGC"

(* Every decision recorded is under the cap, and screened when it is deep. *)
FundingInv ==
  /\ spent \in [FundedFamilies -> 0..MaxSpend] /\ entered \in [FundedFamilies -> Nat]
  /\ \A f \in FundedFamilies : entered[f] <= spent[f]
  /\ decisions \in [FundedFamilies -> Seq(FundingDecisions)]
  /\ \A f \in FundedFamilies : \A i \in DOMAIN decisions[f] :
       decisions[f][i].family = f /\ DecisionEarned(decisions[f][i])
  /\ allowed # NoFunding => /\ allowed.family \in FundedFamilies
                            /\ allowed.spent <= spent[allowed.family] /\ allowed.entered <= entered[allowed.family]
                            /\ allowed.spent \in Nat /\ allowed.entered \in Nat
  /\ SpendingIsGoverned

(* Recording a decision of the family keeps what the decisions rest on. *)
LEMMA DecidingStaysEarned ==
  ASSUME FundingInv, NEW f \in FundedFamilies, NEW type \in {"continue", "pivot", "pause", "terminate"},
         NEW next \in BudgetRequests, NEW viability \in ViabilityDecisionReference \cup {NoFunding},
         DecideBudget(f, type, next, viability)
  PROVE  FundingInv'
<1>1. PICK q : q = [preregistration |-> Preregistration(f), decisionFamily |-> f, type |-> type, next |-> next,
            consumed |-> spent[f], reasons |-> TRUE, cited |-> {"e1"}, viability |-> viability,
            summary |-> ContinuationEvidenceSummary]
  OBVIOUS
<1>2. PICK d : d = [family |-> f, type |-> type, next |-> next, viability |-> viability]  OBVIOUS
<1>3. /\ EvaluateFamilyBudgetDecision(q) = "authorize"
      /\ decisions' = [decisions EXCEPT ![f] = Append(@, d)]
      /\ UNCHANGED <<spent, entered, allowed, closure>>
  BY <1>1, <1>2 DEF DecideBudget
<1>4. q.preregistration = Preregistration(f) /\ q.type = type /\ q.next = next /\ q.viability = viability  BY <1>1
<1>5. Preregistration(f).limits = BudgetLimits /\ Preregistration(f).symbol = "MGC"  BY DEF Preregistration
<1>6. BudgetLimits \in FamilyBudgetLimits
  <2>1. Preregistration(f) \in StrategyFamilyPreregistration  BY FundingInputsAssumption
  <2>2. Preregistration(f).limits \in FamilyBudgetLimits  BY <2>1 DEF StrategyFamilyPreregistration
  <2> QED  BY <1>5, <2>2
<1>7. /\ type # "terminate" /\ next > 0 /\ next <= BudgetLimits.continuation
      /\ (BudgetLimits.screened /\ next > BudgetLimits.exploratory) => ViabilityScreened(q)
  BY <1>3, <1>4, <1>5, AuthorisedIsCapped
<1>8. next \in 1..BudgetLimits.continuation
  <2>1. next \in Nat /\ BudgetLimits.continuation \in Int
    BY <1>6, ResearchFundingAssumption DEF FamilyBudgetLimits
  <2> QED  BY <1>7, <2>1
<1>9. d \in FundingDecisions /\ d.family = f  BY <1>2, <1>8 DEF FundingDecisions
<1>10. DecisionEarned(d)
  <2>1. ViabilityScreened(q) => viability # NoFunding /\ viability.passed /\ viability.symbol = "MGC"
    BY <1>4, <1>5 DEF ViabilityScreened
  <2>2. d.next = next /\ d.viability = viability  BY <1>2
  <2> QED  BY <1>7, <2>1, <2>2 DEF DecisionEarned
<1>11. decisions' \in [FundedFamilies -> Seq(FundingDecisions)]  BY <1>3, <1>9 DEF FundingInv
<1>12. ASSUME NEW g \in FundedFamilies, NEW i \in DOMAIN decisions'[g]
       PROVE  decisions'[g][i].family = g /\ DecisionEarned(decisions'[g][i])
  <2>1. decisions[g] \in Seq(FundingDecisions)  BY DEF FundingInv
  <2>2. CASE g = f
    <3>1. decisions'[g] = Append(decisions[g], d)  BY <1>3, <2>2 DEF FundingInv
    <3>2. PICK n : n = Len(decisions[g]) /\ n \in Nat  BY <2>1
    <3>3. DOMAIN decisions[g] = 1..n /\ i \in 1..(n + 1)  BY <2>1, <3>1, <3>2
    <3>4. CASE i = n + 1
      <4>1. decisions'[g][i] = d  BY <2>1, <3>1, <3>2, <3>4
      <4> QED  BY <1>9, <1>10, <2>2, <4>1
    <3>5. CASE i \in 1..n
      <4>1. decisions'[g][i] = decisions[g][i]  BY <2>1, <3>1, <3>2, <3>5
      <4> QED  BY <3>3, <3>5, <4>1 DEF FundingInv
    <3> QED  BY <3>2, <3>3, <3>4, <3>5
  <2>3. CASE g # f
    <3>1. decisions'[g] = decisions[g]  BY <1>3, <2>3 DEF FundingInv
    <3> QED  BY <3>1 DEF FundingInv
  <2> QED  BY <2>2, <2>3
<1> QED
  BY <1>3, <1>11, <1>12 DEF FundingInv, SpendingIsGoverned, DeepBudgetIsEarned, ClosuresAreCoherent

(* Granting discovery keeps what the grants rest on. *)
LEMMA RequestingIsEarned ==
  ASSUME FundingInv, NEW f \in FundedFamilies, NEW requested \in BudgetRequests, NEW suite, NEW program,
         NEW presented \in {NoFunding} \cup UNION {Range(decisions[g]) : g \in FundedFamilies},
         RequestDiscovery(f, requested, suite, presented, program)
  PROVE  FundingInv'
<1>1. PICK l : l = FamilyDiscoveryLedgerEntry(f, spent[f], requested)  OBVIOUS
<1>2. PICK answer : answer = EvaluateDiscoveryAccounting(l, suite, program, presented, BudgetLimits)  OBVIOUS
<1>3. PICK a : a = [family |-> f, requested |-> requested, answer |-> answer, presented |-> presented,
                    spent |-> spent[f], entered |-> entered[f]]
  OBVIOUS
<1>4. /\ answer \in {"allow_exploratory", "allow_with_continuation"} /\ allowed' = a
      /\ UNCHANGED <<spent, entered, decisions, closure>>
  BY <1>1, <1>2, <1>3 DEF RequestDiscovery
<1>5. PICK units : units = spent[f] /\ units \in Nat  BY ResearchFundingAssumption DEF FundingInv
<1>6. l.requested = requested /\ l.family = f /\ l.amounts = AmountsOf(units)
  BY <1>1, <1>5 DEF FamilyDiscoveryLedgerEntry
<1>7. AmountsOf(units).data = units /\ AmountsOf(units).compute = 0
  BY DEF AmountsOf, Measures
<1>8. requested \in Nat  BY ResearchFundingAssumption
<1>9. units + requested > BudgetLimits.exploratory => ExceedsExploratory(l, BudgetLimits)
  <2>1. l.amounts.data + l.amounts.compute + l.requested = units + requested  BY <1>5, <1>6, <1>7, <1>8
  <2> QED  BY <2>1 DEF ExceedsExploratory
<1>10. ASSUME units + requested > BudgetLimits.exploratory
       PROVE  /\ presented # NoFunding /\ presented.family = f /\ requested <= presented.next
              /\ presented.next \in 1..BudgetLimits.continuation /\ DecisionEarned(presented)
  <2>1. ContinuationCovers(presented, l)  BY <1>2, <1>4, <1>9, <1>10, AllowedIsCovered
  <2>2. presented # NoFunding /\ presented.family = f /\ presented.next >= requested
    BY <1>6, <2>1 DEF ContinuationCovers
  <2>3. PICK g \in FundedFamilies : presented \in Range(decisions[g])  BY <2>2
  <2>4. PICK i \in DOMAIN decisions[g] : presented = decisions[g][i]  BY <2>3 DEF Range
  <2>5. DecisionEarned(presented) /\ presented \in FundingDecisions
    <3>1. decisions[g] \in Seq(FundingDecisions)  BY DEF FundingInv
    <3> QED  BY <2>4, <3>1 DEF FundingInv
  <2>6. presented.next \in 1..BudgetLimits.continuation  BY <2>5 DEF FundingDecisions
  <2> QED  BY <1>8, <2>2, <2>5, <2>6
<1>11. /\ a.family = f /\ a.requested = requested /\ a.presented = presented /\ a.spent = units /\ a.entered = entered[f]
  BY <1>3, <1>5
<1>12. DeepBudgetIsEarned'
  <2> SUFFICES ASSUME units + requested > BudgetLimits.exploratory
               PROVE  /\ presented # NoFunding /\ presented.family = f /\ requested <= presented.next
                      /\ requested <= BudgetLimits.continuation /\ DecisionEarned(presented)
    BY <1>4, <1>11 DEF DeepBudgetIsEarned, DecisionEarned
  <2>1. presented.next \in 1..BudgetLimits.continuation /\ requested <= presented.next  BY <1>10
  <2>2. BudgetLimits.continuation \in Int
    <3>1. Preregistration(f) \in StrategyFamilyPreregistration  BY FundingInputsAssumption
    <3>2. Preregistration(f).limits = BudgetLimits  BY DEF Preregistration
    <3>3. BudgetLimits \in FamilyBudgetLimits  BY <3>1, <3>2 DEF StrategyFamilyPreregistration
    <3> QED  BY <3>3 DEF FamilyBudgetLimits
  <2>3. requested <= BudgetLimits.continuation  BY <1>8, <2>1, <2>2
  <2> QED  BY <1>10, <2>3
<1>13. entered[f] \in Nat /\ entered[f] <= units /\ units <= spent[f]  BY <1>5 DEF FundingInv
<1> QED
  BY <1>4, <1>5, <1>11, <1>12, <1>13 DEF FundingInv, SpendingIsGoverned, ClosuresAreCoherent

(* A family is granted a deep budget only on a screened decision of its own, and
   the closure reviews are coherent (FundingInv is inductive). *)
THEOREM FundingGoverns == FundingSpec => [](FundingTypeOK /\ SpendingIsGoverned)
<1>1. FundingInit => FundingInv
  <2> SUFFICES ASSUME FundingInit PROVE FundingInv  OBVIOUS
  <2>1. MaxSpend \in Nat  BY ResearchFundingAssumption
  <2>2. \A f \in FundedFamilies : spent[f] = 0 /\ entered[f] = 0 /\ decisions[f] = <<>>  BY DEF FundingInit
  <2>3. /\ spent \in [FundedFamilies -> 0..MaxSpend] /\ entered \in [FundedFamilies -> Nat]
        /\ decisions \in [FundedFamilies -> Seq(FundingDecisions)]
    BY <2>1 DEF FundingInit
  <2>4. allowed = NoFunding /\ closure = NoFunding  BY DEF FundingInit
  <2> QED  BY <2>2, <2>3, <2>4 DEF FundingInv, SpendingIsGoverned, DeepBudgetIsEarned, ClosuresAreCoherent
<1>2. FundingInv /\ [FundingNext \/ ClosureNext]_fundingVars => FundingInv'
  <2> SUFFICES ASSUME FundingInv, [FundingNext \/ ClosureNext]_fundingVars PROVE FundingInv'  OBVIOUS
  <2>0. MaxSpend \in Nat  BY ResearchFundingAssumption
  <2>1. ASSUME NEW f \in FundedFamilies, Spend(f) PROVE FundingInv'
    <3>1. /\ spent[f] < MaxSpend /\ spent' = [spent EXCEPT ![f] = spent[f] + 1]
          /\ UNCHANGED <<entered, decisions, allowed, closure>>
      BY <2>1 DEF Spend
    <3>2. spent' \in [FundedFamilies -> 0..MaxSpend]  BY <2>0, <3>1 DEF FundingInv
    <3>3. \A g \in FundedFamilies : spent[g] \in Nat /\ spent'[g] \in Nat /\ entered[g] \in Nat /\ spent[g] <= spent'[g]
      BY <2>0, <3>1 DEF FundingInv
    <3>4. \A g \in FundedFamilies : entered'[g] <= spent'[g]  BY <3>1, <3>3 DEF FundingInv
    <3>5. allowed # NoFunding => allowed.spent <= spent'[allowed.family]  BY <3>3 DEF FundingInv
    <3> QED
      BY <3>1, <3>2, <3>4, <3>5 DEF FundingInv, SpendingIsGoverned, DeepBudgetIsEarned, ClosuresAreCoherent
  <2>2. ASSUME NEW f \in FundedFamilies, EnterInProgram(f) PROVE FundingInv'
    <3>1. /\ entered' = [entered EXCEPT ![f] = spent[f]] /\ UNCHANGED <<spent, decisions, allowed, closure>>
      BY <2>2 DEF EnterInProgram
    <3>2. \A g \in FundedFamilies : spent[g] \in Nat /\ entered[g] \in Nat  BY <2>0 DEF FundingInv
    <3>3. entered' \in [FundedFamilies -> Nat]  BY <3>1, <3>2 DEF FundingInv
    <3>4. \A g \in FundedFamilies : entered'[g] <= spent'[g] /\ entered[g] <= entered'[g]
      BY <3>1, <3>2 DEF FundingInv
    <3>5. \A g \in FundedFamilies : entered'[g] \in Nat  BY <3>3
    <3>6. allowed # NoFunding => allowed.entered <= entered'[allowed.family]  BY <3>2, <3>4, <3>5 DEF FundingInv
    <3> QED
      BY <3>1, <3>3, <3>4, <3>6 DEF FundingInv, SpendingIsGoverned, DeepBudgetIsEarned, ClosuresAreCoherent
  <2>3. ASSUME NEW f \in FundedFamilies, NEW type \in {"continue", "pivot", "pause", "terminate"},
               NEW next \in BudgetRequests,
               NEW v \in {NoFunding} \cup ViabilityReports,
               DecideBudget(f, type, next, v)
        PROVE  FundingInv'
    <3>1. v \in ViabilityDecisionReference \cup {NoFunding}  BY FundingInputsAssumption
    <3> QED  BY <2>3, <3>1, DecidingStaysEarned
  <2>4. ASSUME NEW f \in FundedFamilies, NEW requested \in BudgetRequests, NEW suite, NEW program,
               NEW d \in {NoFunding} \cup UNION {Range(decisions[g]) : g \in FundedFamilies},
               RequestDiscovery(f, requested, suite, d, program)
        PROVE  FundingInv'
    BY <2>4, RequestingIsEarned
  <2>5. ASSUME NEW q \in ClosureReviews, ReviewProgram(q) PROVE FundingInv'
    <3>1. PICK answer : answer = EvaluateProgramClosure(q)  OBVIOUS
    <3>2. closure' = [review |-> q, answer |-> answer] /\ UNCHANGED <<spent, entered, decisions, allowed>>
      BY <2>5, <3>1 DEF ReviewProgram
    <3>3. closure'.review = q /\ closure'.answer = answer  BY <3>2
    <3>4. q \in ProgramClosureRequest  BY FundingInputsAssumption
    <3>5. ClosuresAreCoherent'  BY <3>1, <3>3, <3>4, ReviewsAreCoherent DEF ClosuresAreCoherent
    <3> QED  BY <3>2, <3>5 DEF FundingInv, SpendingIsGoverned, DeepBudgetIsEarned
  <2>6. CASE UNCHANGED fundingVars
    BY <2>6 DEF fundingVars, FundingInv, SpendingIsGoverned, DeepBudgetIsEarned, ClosuresAreCoherent
  <2> QED
    BY <2>1, <2>2, <2>3, <2>4, <2>5, <2>6 DEF FundingNext, ClosureNext
<1>3. FundingInv => FundingTypeOK /\ SpendingIsGoverned
  <2> SUFFICES ASSUME FundingInv PROVE FundingTypeOK  BY DEF FundingInv
  <2>1. MaxSpend \in Nat  BY ResearchFundingAssumption
  <2>2. ASSUME NEW f \in FundedFamilies
        PROVE  /\ entered[f] \in 0..spent[f] /\ spent[f] \in 0..MaxSpend
               /\ \A i \in DOMAIN decisions[f] :
                    /\ decisions[f][i].family = f /\ decisions[f][i].next \in 1..BudgetLimits.continuation
                    /\ decisions[f][i].viability \in ViabilityDecisionReference \cup {NoFunding}
    <3>1. spent[f] \in 0..MaxSpend /\ entered[f] \in Nat /\ entered[f] <= spent[f]  BY DEF FundingInv
    <3>2. decisions[f] \in Seq(FundingDecisions)  BY DEF FundingInv
    <3>3. \A i \in DOMAIN decisions[f] : decisions[f][i] \in FundingDecisions /\ decisions[f][i].family = f
      BY <3>2 DEF FundingInv
    <3>4. \A i \in DOMAIN decisions[f] : decisions[f][i].next \in 1..BudgetLimits.continuation
             /\ decisions[f][i].viability \in ViabilityDecisionReference \cup {NoFunding}
      BY <3>3 DEF FundingDecisions
    <3> QED  BY <2>1, <3>1, <3>3, <3>4
  <2>3. allowed # NoFunding => allowed.spent <= spent[allowed.family] /\ allowed.entered <= entered[allowed.family]
    BY DEF FundingInv
  <2> QED  BY <2>2, <2>3 DEF FundingTypeOK
<1> QED
  BY <1>1, <1>2, <1>3, PTL DEF FundingSpec

----------------------------------------------------------------------------
(* A replay that passes produced what was expected: no step of any stream
   diverges. *)
LEMMA PassingReplay ==
  ASSUME NEW q, NEW expected, NEW actual, EvaluateReplayCertification(q, expected, actual) = "pass"
  PROVE  \A s \in Streams : DivergentSteps(expected[s], actual[s]) = {}
<1>1. PICK answer : answer = "pass"  OBVIOUS
<1>2. PICK gates : gates =
        <<Gate(q.ready # "pass", q.ready), Gate(q.incremental /\ ~q.prior, "invalid"),
          Gate(q.incremental /\ q.scope # "narrow", "violation"),
          Gate(\E s \in Streams : DivergentSteps(expected[s], actual[s]) # {}, "violation")>>
  OBVIOUS
<1>3. DOMAIN gates = 1..4 /\ DOMAIN gates \in SUBSET Nat  BY <1>2
<1>4. answer = FirstClosed(gates, answer)  BY <1>1, <1>2 DEF EvaluateReplayCertification
<1>5. gates[1].closed => gates[1].answer # answer  BY <1>1, <1>2 DEF Gate
<1>6. \A i \in 2..4 : gates[i].answer # answer  BY <1>1, <1>2 DEF Gate
<1>7. \/ \A i \in DOMAIN gates : ~ gates[i].closed
      \/ \E i \in DOMAIN gates : gates[i].closed /\ answer = gates[i].answer
  BY <1>3, <1>4, ChainAnswers
<1>8. ~ gates[4].closed  BY <1>3, <1>5, <1>6, <1>7
<1> QED  BY <1>2, <1>8 DEF Gate

(* Streams without a divergent step are the same stream. *)
LEMMA NothingDiverges ==
  ASSUME NEW e \in Seq(Nat), NEW a \in Seq(Nat), DivergentSteps(e, a) = {}
  PROVE  e = a
<1>1. PICK m : m = Len(e) /\ m \in Nat  OBVIOUS
<1>2. PICK n : n = Len(a) /\ n \in Nat  OBVIOUS
<1>3. PICK longer : longer = (IF m > n THEN m ELSE n) /\ longer \in Nat  BY <1>1, <1>2
<1>4. DivergentSteps(e, a) = {i \in 1..longer : i > m \/ i > n \/ e[i] # a[i]}
  BY <1>1, <1>2, <1>3 DEF DivergentSteps
<1>5. \A i \in 1..longer : i <= m /\ i <= n /\ e[i] = a[i]  BY <1>1, <1>2, <1>4
<1>6. m = n
  <2>1. CASE m > n  BY <1>1, <1>2, <1>3, <1>5, <2>1
  <2>2. CASE n > m  BY <1>1, <1>2, <1>3, <1>5, <2>2
  <2> QED  BY <1>1, <1>2, <2>1, <2>2
<1>7. longer = m  BY <1>1, <1>2, <1>3, <1>6
<1> QED  BY <1>1, <1>2, <1>5, <1>6, <1>7, SeqEqual

(* The last record of an objective counts, and it did not fail. *)
LEMMA SatisfiedByTheLast ==
  ASSUME NEW S, NEW gathered \in Seq(S), NEW o, ObjectiveSatisfied(gathered, o)
  PROVE  LET recorded == {i \in DOMAIN gathered : o \notin gathered[i].missing}
         IN  \E i \in recorded : o \notin gathered[i].failed /\ \A j \in recorded : j <= i
<1>1. PICK recorded : recorded = {i \in DOMAIN gathered : o \notin gathered[i].missing}  OBVIOUS
<1>2. PICK records : records = Picked(gathered, recorded)  OBVIOUS
<1>3. records # <<>> /\ o \notin records[Len(records)].failed
  BY <1>1, <1>2 DEF ObjectiveSatisfied, RecordsOf
<1>4. recorded # {}  BY <1>1, <1>2, <1>3, PickedNone
<1>5. Len(gathered) \in Nat /\ DOMAIN gathered = 1..Len(gathered)  OBVIOUS
<1>6. recorded \in SUBSET (0..Len(gathered))  BY <1>1, <1>5
<1>7. PICK i \in recorded : \A j \in recorded : i >= j  BY <1>4, <1>5, <1>6, GreatestNatural
<1>8. i \in 1..Len(gathered) /\ \A j \in 1..Len(gathered) : j \in recorded => j <= i
  BY <1>1, <1>5, <1>7
<1>9. EndsWith(records, gathered[i])  BY <1>2, <1>7, <1>8, PickedLast
<1>10. records[Len(records)] = gathered[i]  BY <1>9 DEF EndsWith
<1>11. o \notin gathered[i].failed  BY <1>3, <1>10
<1> QED  BY <1>1, <1>5, <1>7, <1>8, <1>11

(* What a stage request that is granted rests on. *)
LEMMA GrantedStage ==
  ASSUME NEW lane, NEW q, NEW paper, NEW shadow, NEW overnight,
         EvaluateStagePolicy(lane, q, paper, shadow, overnight) = "SATISFIED", lane # "paper"
  PROVE  /\ StageRequestValid(q) /\ PaperStageComplete(lane, q, paper)
         /\ lane = "live" => ShadowStageComplete(lane, q, shadow)
<1>1. PICK answer : answer = "SATISFIED"  OBVIOUS
<1>2. PICK gates : gates =
        <<Gate(~StageRequestValid(q), "REQUEST_INVALID"), Gate(lane = "paper", "SATISFIED"),
          Gate(~PaperStageComplete(lane, q, paper), "PAPER_INCOMPLETE"),
          Gate(lane = "live" /\ ~ShadowStageComplete(lane, q, shadow), "SHADOW_INCOMPLETE"),
          Gate(lane = "live" /\ ~OvernightComplete(q.class, overnight), "OVERNIGHT_INCOMPLETE")>>
  OBVIOUS
<1>3. DOMAIN gates = 1..5 /\ DOMAIN gates \in SUBSET Nat  BY <1>2
<1>4. answer = FirstClosed(gates, answer)  BY <1>1, <1>2 DEF EvaluateStagePolicy
<1>5. ~ gates[2].closed  BY <1>2 DEF Gate
<1>6. \A i \in {1, 3, 4, 5} : gates[i].answer # answer  BY <1>1, <1>2 DEF Gate
<1>7. \/ \A i \in DOMAIN gates : ~ gates[i].closed
      \/ \E i \in DOMAIN gates : gates[i].closed /\ answer = gates[i].answer
  BY <1>3, <1>4, ChainAnswers
<1>8. ~ gates[1].closed /\ ~ gates[3].closed /\ ~ gates[4].closed  BY <1>3, <1>5, <1>6, <1>7
<1> QED  BY <1>2, <1>8 DEF Gate

(* Shadow asks for nothing that a request of the shadow stage complete in paper lacks. *)
LEMMA ShadowIsGranted ==
  ASSUME NEW q, NEW paper, NEW shadow, StageRequestValid(q), PaperStageComplete("shadow_live", q, paper)
  PROVE  EvaluateStagePolicy("shadow_live", q, paper, shadow, {}) = "SATISFIED"
<1>1. PICK otherwise : otherwise = "SATISFIED"  OBVIOUS
<1>2. PICK lane : lane = "shadow_live"  OBVIOUS
<1>3. PICK gates : gates =
        <<Gate(~StageRequestValid(q), "REQUEST_INVALID"), Gate(lane = "paper", "SATISFIED"),
          Gate(~PaperStageComplete(lane, q, paper), "PAPER_INCOMPLETE"),
          Gate(lane = "live" /\ ~ShadowStageComplete(lane, q, shadow), "SHADOW_INCOMPLETE"),
          Gate(lane = "live" /\ ~OvernightComplete(q.class, {}), "OVERNIGHT_INCOMPLETE")>>
  OBVIOUS
<1>4. DOMAIN gates = 1..5 /\ DOMAIN gates \in SUBSET Nat  BY <1>3
<1>5. \A i \in 1..5 : ~ gates[i].closed
  <2>1. ~ gates[1].closed /\ ~ gates[3].closed  BY <1>2, <1>3 DEF Gate
  <2>2. ~ gates[2].closed /\ ~ gates[4].closed /\ ~ gates[5].closed  BY <1>2, <1>3 DEF Gate
  <2> QED  BY <2>1, <2>2
<1>6. PICK answer : answer = FirstClosed(gates, otherwise)  OBVIOUS
<1>7. answer = otherwise  BY <1>4, <1>5, <1>6, ChainAnswers
<1>8. EvaluateStagePolicy(lane, q, paper, shadow, {}) = FirstClosed(gates, otherwise)
  BY <1>1, <1>3 DEF EvaluateStagePolicy
<1> QED  BY <1>1, <1>2, <1>6, <1>7, <1>8

(* A lane that is granted had the lane below it granted by the same records, and
   each objective it needs passed in the last batch that recorded it. *)
LEMMA GrantedIsClimbed ==
  ASSUME NEW log, log.paper \in Seq(ObjectiveBatch("paper")), log.shadow_live \in Seq(ObjectiveBatch("shadow_live")),
         NEW lane \in {"shadow_live", "live"}, NEW q, NEW overnight,
         EvaluateStagePolicy(lane, q, log.paper, log.shadow_live, overnight) = "SATISFIED"
  PROVE  /\ EvaluateStagePolicy("shadow_live", q, log.paper, log.shadow_live, {}) = "SATISFIED"
         /\ \A o \in PaperObjectives \cup (IF lane = "live" THEN ShadowObjectives ELSE {}) :
              LET gathered == log[IF o \in PaperObjectives THEN "paper" ELSE "shadow_live"]
                  recorded == {i \in DOMAIN gathered : o \notin gathered[i].missing}
              IN  \E i \in recorded : o \notin gathered[i].failed /\ \A j \in recorded : j <= i
<1>1. lane # "paper"  OBVIOUS
<1>2. /\ StageRequestValid(q) /\ PaperStageComplete(lane, q, log.paper)
      /\ lane = "live" => ShadowStageComplete(lane, q, log.shadow_live)
  BY <1>1, GrantedStage
<1>3. PaperStageComplete("shadow_live", q, log.paper)  BY <1>1, <1>2 DEF PaperStageComplete
<1>4. EvaluateStagePolicy("shadow_live", q, log.paper, log.shadow_live, {}) = "SATISFIED"
  BY <1>2, <1>3, ShadowIsGranted
<1>5. StageObjectives["paper"] = PaperObjectives /\ StageObjectives["shadow_live"] = ShadowObjectives
  BY DEF StageObjectives
<1>6. \A o \in PaperObjectives : ObjectiveSatisfied(log.paper, o)
  BY <1>2, <1>5 DEF PaperStageComplete, StageSatisfied
<1>7. lane = "live" => \A o \in ShadowObjectives : ObjectiveSatisfied(log.shadow_live, o)
  BY <1>2, <1>5 DEF ShadowStageComplete, StageSatisfied
<1>8. ASSUME NEW o \in PaperObjectives \cup (IF lane = "live" THEN ShadowObjectives ELSE {})
      PROVE  LET gathered == log[IF o \in PaperObjectives THEN "paper" ELSE "shadow_live"]
                 recorded == {i \in DOMAIN gathered : o \notin gathered[i].missing}
             IN  \E i \in recorded : o \notin gathered[i].failed /\ \A j \in recorded : j <= i
  <2>1. PICK kept : kept = log[IF o \in PaperObjectives THEN "paper" ELSE "shadow_live"]  OBVIOUS
  <2>2. kept \in Seq(ObjectiveBatch("paper") \cup ObjectiveBatch("shadow_live"))
    <3>1. CASE o \in PaperObjectives
      <4>1. kept \in Seq(ObjectiveBatch("paper"))  BY <2>1, <3>1
      <4> QED  BY <4>1
    <3>2. CASE o \notin PaperObjectives
      <4>1. kept \in Seq(ObjectiveBatch("shadow_live"))  BY <2>1, <3>2
      <4> QED  BY <4>1
    <3> QED  BY <3>1, <3>2
  <2>3. ObjectiveSatisfied(kept, o)  BY <1>6, <1>7, <1>8, <2>1
  <2> QED  BY <2>1, <2>2, <2>3, SatisfiedByTheLast
<1> QED  BY <1>4, <1>8

(* The records of a lane stay of that lane; what was certified or granted stays
   justified by the records that are kept. *)
EvidenceInv ==
  /\ DOMAIN stageLog = {"paper", "shadow_live"}
  /\ \A lane \in {"paper", "shadow_live"} : stageLog[lane] \in Seq(ObjectiveBatch(lane))
  /\ \A b \in overnightLog : b \subseteq OvernightRecord
  /\ {parity, fidelity} \subseteq {"none", "pass", "violation", "stale", "invalid"}
  /\ EvidencePrecedesTrading

(* What a parity study can say. *)
LEMMA ParityAnswers ==
  ASSUME NEW s, NEW now
  PROVE  EvaluateBarParity(s, now) \in {"pass", "violation", "stale", "invalid"}
<1>1. PICK otherwise : otherwise = "pass"  OBVIOUS
<1>2. PICK gates : gates =
        <<Gate(~StudyAdmissible(s), "invalid"), Gate(~DimensionsComplete(s), "invalid"),
          Gate(~s.expectations \/ ~s.artifacts, "invalid"), Gate(now > s.expires, "stale"),
          Gate(\E i \in DOMAIN s.dimensions : ~DimensionPassed(s.dimensions[i]), "violation")>>
  OBVIOUS
<1>3. DOMAIN gates \in SUBSET Nat /\ \A i \in DOMAIN gates : gates[i].answer \in {"violation", "stale", "invalid"}
  BY <1>2 DEF Gate
<1>4. EvaluateBarParity(s, now) = FirstClosed(gates, otherwise)  BY <1>1, <1>2 DEF EvaluateBarParity
<1> QED  BY <1>1, <1>3, <1>4, ChainAnswers

(* What a fidelity calibration can say. *)
LEMMA FidelityAnswers ==
  ASSUME NEW q
  PROVE  EvaluateFidelityCalibration(q) \in {"pass", "violation", "invalid"}
<1>1. PICK otherwise : otherwise = "pass"  OBVIOUS
<1>2. PICK gates : gates =
        <<Gate(~CalibrationWellFormed(q), "invalid"),
          Gate(~LowerFrequencyLane(q) \/ ~SurfacesSeparated(q), "violation"),
          Gate(\E i \in DOMAIN q.sessions : ~SessionCredible(q.sessions[i], q.needsPassive), "violation")>>
  OBVIOUS
<1>3. DOMAIN gates \in SUBSET Nat /\ \A i \in DOMAIN gates : gates[i].answer \in {"violation", "invalid"}
  BY <1>2 DEF Gate
<1>4. EvaluateFidelityCalibration(q) = FirstClosed(gates, otherwise)  BY <1>1, <1>2 DEF EvaluateFidelityCalibration
<1> QED  BY <1>1, <1>3, <1>4, ChainAnswers

(* What was certified or granted rests on records that are still kept, the last of
   each objective included (EvidenceInv is inductive). *)
THEOREM EvidenceComesFirst == EvidenceSpec => [](EvidenceTypeOK /\ EvidencePrecedesTrading)
<1>1. EvidenceInit => EvidenceInv
  <2> SUFFICES ASSUME EvidenceInit PROVE EvidenceInv  OBVIOUS
  <2>1. \A lane \in {"paper", "shadow_live"} : stageLog[lane] \in Seq(ObjectiveBatch(lane))
    BY DEF EvidenceInit
  <2> QED
    BY <2>1 DEF EvidenceInit, EvidenceInv, EvidencePrecedesTrading, CertifiedIsReproduced, StagesAreClimbed
<1>2. EvidenceInv /\ [ReplayNext \/ StudyNext \/ StageNext]_evidenceVars => EvidenceInv'
  <2> SUFFICES ASSUME EvidenceInv, [ReplayNext \/ StudyNext \/ StageNext]_evidenceVars PROVE EvidenceInv'
    OBVIOUS
  <2>1. ASSUME NEW q \in ReplayTerms, NEW expected \in Traces, NEW actual \in Traces, CertifyReplay(q, expected, actual)
        PROVE  EvidenceInv'
    <3>1. PICK status : status = EvaluateReplayCertification(q, expected, actual)  OBVIOUS
    <3>2. certificate' = [expected |-> expected, actual |-> actual, status |-> status]
          /\ UNCHANGED <<study, evidenceTime, parity, fidelity, stageLog, overnightLog, permission>>
      BY <2>1, <3>1 DEF CertifyReplay
    <3>3. certificate'.expected = expected /\ certificate'.actual = actual /\ certificate'.status = status  BY <3>2
    <3>4. expected \in [Streams -> Seq(Nat)] /\ actual \in [Streams -> Seq(Nat)]  BY EvidenceInputsAssumption
    <3>5. status = "pass" => expected = actual
      <4>1. status = "pass" => \A s \in Streams : DivergentSteps(expected[s], actual[s]) = {}
        BY <3>1, PassingReplay
      <4>2. \A s \in Streams : expected[s] \in Seq(Nat) /\ actual[s] \in Seq(Nat)  BY <3>4
      <4>3. status = "pass" => \A s \in Streams : expected[s] = actual[s]  BY <4>1, <4>2, NothingDiverges
      <4> QED  BY <3>4, <4>3
    <3>6. CertifiedIsReproduced'  BY <3>3, <3>5 DEF CertifiedIsReproduced
    <3> QED  BY <3>2, <3>6 DEF EvidenceInv, EvidencePrecedesTrading, StagesAreClimbed
  <2>2. ASSUME NEW s \in ParityStudies, PresentStudy(s) PROVE EvidenceInv'
    <3>1. parity' \in {"pass", "violation", "stale", "invalid"}  BY <2>2, ParityAnswers DEF PresentStudy
    <3>2. UNCHANGED <<certificate, evidenceTime, fidelity, stageLog, overnightLog, permission>>
      BY <2>2 DEF PresentStudy
    <3> QED  BY <3>1, <3>2 DEF EvidenceInv, EvidencePrecedesTrading, CertifiedIsReproduced, StagesAreClimbed
  <2>3. CASE AskAgain
    <3>1. parity' \in {"pass", "violation", "stale", "invalid"}  BY <2>3, ParityAnswers DEF AskAgain
    <3>2. UNCHANGED <<certificate, study, fidelity, stageLog, overnightLog, permission>>
      BY <2>3 DEF AskAgain
    <3> QED  BY <3>1, <3>2 DEF EvidenceInv, EvidencePrecedesTrading, CertifiedIsReproduced, StagesAreClimbed
  <2>4. ASSUME NEW q \in Calibrations, Calibrate(q) PROVE EvidenceInv'
    <3>1. fidelity' \in {"pass", "violation", "invalid"}  BY <2>4, FidelityAnswers DEF Calibrate
    <3>2. UNCHANGED <<certificate, study, evidenceTime, parity, stageLog, overnightLog, permission>>
      BY <2>4 DEF Calibrate
    <3> QED  BY <3>1, <3>2 DEF EvidenceInv, EvidencePrecedesTrading, CertifiedIsReproduced, StagesAreClimbed
  <2>5. ASSUME NEW batch \in StageBatches, RecordObjectives(batch) PROVE EvidenceInv'
    <3>1. permission = NoCertificate /\ stageLog' = [stageLog EXCEPT ![batch.lane] = Append(@, batch)]
          /\ UNCHANGED <<certificate, study, evidenceTime, parity, fidelity, overnightLog, permission>>
      BY <2>5 DEF RecordObjectives
    <3>2. batch \in ObjectiveBatch(batch.lane)  BY EvidenceInputsAssumption
    <3>3. DOMAIN stageLog' = {"paper", "shadow_live"}  BY <3>1 DEF EvidenceInv
    <3>4. ASSUME NEW lane \in {"paper", "shadow_live"} PROVE stageLog'[lane] \in Seq(ObjectiveBatch(lane))
      <4>1. stageLog[lane] \in Seq(ObjectiveBatch(lane))  BY DEF EvidenceInv
      <4>2. CASE lane = batch.lane
        <5>1. stageLog'[lane] = Append(stageLog[lane], batch)  BY <3>1, <4>2 DEF EvidenceInv
        <5> QED  BY <3>2, <4>1, <4>2, <5>1
      <4>3. CASE lane # batch.lane
        <5>1. stageLog'[lane] = stageLog[lane]  BY <3>1, <4>3 DEF EvidenceInv
        <5> QED  BY <4>1, <5>1
      <4> QED  BY <4>2, <4>3
    <3> QED  BY <3>1, <3>3, <3>4 DEF EvidenceInv, EvidencePrecedesTrading, CertifiedIsReproduced, StagesAreClimbed
  <2>6. ASSUME NEW batch \in OvernightBatches, RecordOvernight(batch) PROVE EvidenceInv'
    <3>1. batch \subseteq OvernightRecord  BY EvidenceInputsAssumption
    <3>2. overnightLog' = overnightLog \cup {batch}
          /\ UNCHANGED <<certificate, study, evidenceTime, parity, fidelity, stageLog, permission>>
      BY <2>6 DEF RecordOvernight
    <3>3. \A b \in overnightLog' : b \subseteq OvernightRecord  BY <3>1, <3>2 DEF EvidenceInv
    <3> QED  BY <3>2, <3>3 DEF EvidenceInv, EvidencePrecedesTrading, CertifiedIsReproduced, StagesAreClimbed
  <2>7. ASSUME NEW lane \in {"paper", "shadow_live", "live"}, NEW q \in StageTerms, RequestStage(lane, q)
        PROVE  EvidenceInv'
    <3>1. PICK overnight : overnight = UNION overnightLog  OBVIOUS
    <3>2. PICK answer : answer = EvaluateStagePolicy(lane, q, stageLog.paper, stageLog.shadow_live, overnight)  OBVIOUS
    <3>3. permission' = [lane |-> lane, terms |-> q, answer |-> answer]
          /\ UNCHANGED <<certificate, study, evidenceTime, parity, fidelity, stageLog, overnightLog>>
      BY <2>7, <3>1, <3>2 DEF RequestStage
    <3>4. permission'.lane = lane /\ permission'.terms = q /\ permission'.answer = answer  BY <3>3
    <3>5. stageLog.paper \in Seq(ObjectiveBatch("paper")) /\ stageLog.shadow_live \in Seq(ObjectiveBatch("shadow_live"))
      BY DEF EvidenceInv
    <3>6. ASSUME answer = "SATISFIED", lane # "paper"
          PROVE  /\ EvaluateStagePolicy("shadow_live", q, stageLog.paper, stageLog.shadow_live, {}) = "SATISFIED"
                 /\ \A o \in PaperObjectives \cup (IF lane = "live" THEN ShadowObjectives ELSE {}) :
                      LET gathered == stageLog[IF o \in PaperObjectives THEN "paper" ELSE "shadow_live"]
                          recorded == {i \in DOMAIN gathered : o \notin gathered[i].missing}
                      IN  \E i \in recorded : o \notin gathered[i].failed /\ \A j \in recorded : j <= i
      <4>1. lane \in {"shadow_live", "live"}  BY <3>6
      <4> QED  BY <3>2, <3>5, <3>6, <4>1, GrantedIsClimbed
    <3>7. StagesAreClimbed'  BY <3>3, <3>4, <3>6, Zenon DEF StagesAreClimbed
    <3> QED  BY <3>3, <3>7 DEF EvidenceInv, EvidencePrecedesTrading, CertifiedIsReproduced
  <2>8. CASE UNCHANGED evidenceVars
    BY <2>8 DEF evidenceVars, EvidenceInv, EvidencePrecedesTrading, CertifiedIsReproduced, StagesAreClimbed
  <2> QED
    BY <2>1, <2>2, <2>3, <2>4, <2>5, <2>6, <2>7, <2>8 DEF ReplayNext, StudyNext, StageNext
<1>3. EvidenceInv => EvidenceTypeOK /\ EvidencePrecedesTrading
  <2> SUFFICES ASSUME EvidenceInv
               PROVE  \A lane \in DOMAIN stageLog : \A i \in DOMAIN stageLog[lane] :
                        stageLog[lane][i] \in ObjectiveBatch(lane)
    BY DEF EvidenceInv, EvidenceTypeOK
  <2> TAKE lane \in DOMAIN stageLog
  <2>1. stageLog[lane] \in Seq(ObjectiveBatch(lane))  BY DEF EvidenceInv
  <2> QED  BY <2>1
<1> QED
  BY <1>1, <1>2, <1>3, PTL DEF EvidenceSpec

----------------------------------------------------------------------------
(* Of rules of distinct classes the first and the last of a class are the same. *)
LEMMA OneRulePerClass ==
  ASSUME NEW rules \in Seq(SessionConditionedRiskRule), Distinct(ClassesOf(rules)), NEW class,
         RulesFor(rules, class) # <<>>
  PROVE  Head(RulesFor(rules, class)) = Last(RulesFor(rules, class))
<1>1. PICK positions : positions = {i \in DOMAIN rules : rules[i].class = class}  OBVIOUS
<1>2. PICK kept : kept = Picked(rules, positions)  OBVIOUS
<1>3. kept \in Seq(SessionConditionedRiskRule) /\ PickedFrom(rules, positions, kept, Len(rules))
  BY <1>2, PickedType, PickedEntries
<1>4. kept = RulesFor(rules, class) /\ kept # <<>>  BY <1>1, <1>2 DEF RulesFor
<1>5. 1 \in DOMAIN kept /\ Len(kept) \in DOMAIN kept  BY <1>3, <1>4
<1>6. PICK i \in positions : kept[1] = rules[i]  BY <1>3, <1>5 DEF PickedFrom
<1>7. PICK j \in positions : kept[Len(kept)] = rules[j]  BY <1>3, <1>5 DEF PickedFrom
<1>8. i = j
  <2>1. PICK classes : classes = ClassesOf(rules)  OBVIOUS
  <2>2. classes[i] = classes[j] /\ i \in DOMAIN classes /\ j \in DOMAIN classes
    BY <1>1, <2>1 DEF ClassesOf
  <2> QED  BY <2>1, <2>2 DEF Distinct
<1>9. Head(kept) = kept[1] /\ Last(kept) = kept[Len(kept)]  BY <1>3, <1>4 DEF Last
<1> QED  BY <1>4, <1>6, <1>7, <1>8, <1>9

(* What the envelope says of carrying rests on the first rule of the session. *)
LEMMA CarryRestsOnARule ==
  ASSUME NEW profile, NEW risk, NEW values, NEW class, NEW call, risk # NoBound,
         EvaluateOperatingEnvelope(profile, risk, values, class, call).carry
  PROVE  /\ Distinct(ClassesOf(risk.rules)) /\ RulesFor(risk.rules, class) # <<>>
         /\ Head(RulesFor(risk.rules, class)).carry
<1> DEFINE found == {MatchingBands(d, values[d.id]) : d \in {profile.dimensions[i] : i \in DOMAIN profile.dimensions}}
           rules == IF risk = NoBound THEN <<>> ELSE RulesFor(risk.rules, class)
           results == {Head(f) : f \in found} \cup {rules[i] : i \in {1} \cap DOMAIN rules}
           actions == UNION {r.actions : r \in {s \in results : s.band # "green"}}
           size == Min({IF rules = <<>> THEN 2 ELSE Head(rules).size} \cup {ActionSize(a) : a \in actions})
           trades == Min({IF rules = <<>> THEN 2 ELSE Head(rules).trades} \cup {ActionTrades(a) : a \in actions})
           status == CHOOSE b \in Bands : /\ \E r \in results : r.band = b
                                         /\ \A r \in results : BandSeverity[r.band] <= BandSeverity[b]
<1>1. rules = RulesFor(risk.rules, class)  OBVIOUS
<1>2. EvaluateOperatingEnvelope(profile, risk, values, class, call) =
        IF ~EnvelopeEvaluable(profile, risk, values, class, call) \/ <<>> \in found \/ (risk # NoBound /\ rules = <<>>)
        THEN InvalidEnvelope
        ELSE [status |-> status, actions |-> actions, size |-> size, trades |-> trades, mode |-> EntryMode(actions),
              carry |-> (rules # <<>> => Head(rules).carry) /\ "no_new_overnight_carry" \notin actions]
  BY Zenon DEF EvaluateOperatingEnvelope
<1> HIDE DEF found, rules, results, actions, size, trades, status
<1>3. ~ InvalidEnvelope.carry  BY DEF InvalidEnvelope
<1>4. EnvelopeEvaluable(profile, risk, values, class, call) /\ rules # <<>> /\ Head(rules).carry
  <2>1. PICK bad : bad = (~EnvelopeEvaluable(profile, risk, values, class, call) \/ <<>> \in found \/ (risk # NoBound /\ rules = <<>>))
    OBVIOUS
  <2>2. PICK carry : carry = ((rules # <<>> => Head(rules).carry) /\ "no_new_overnight_carry" \notin actions)
    OBVIOUS
  <2>3. PICK result : result = [status |-> status, actions |-> actions, size |-> size, trades |-> trades,
                                mode |-> EntryMode(actions), carry |-> carry]
    OBVIOUS
  <2>4. EvaluateOperatingEnvelope(profile, risk, values, class, call) = IF bad THEN InvalidEnvelope ELSE result
    BY <1>2, <2>1, <2>2, <2>3, Zenon
  <2>5. result.carry = carry  BY <2>3
  <2>6. ~ bad
    <3>1. bad => EvaluateOperatingEnvelope(profile, risk, values, class, call) = InvalidEnvelope  BY <2>4
    <3> QED  BY <1>3, <3>1
  <2>7. carry  BY <2>4, <2>5, <2>6
  <2> QED  BY <2>1, <2>2, <2>6, <2>7
<1>5. Distinct(ClassesOf(risk.rules))
  BY <1>4 DEF EnvelopeEvaluable, EnvelopeProfileValid, RiskProfileValid
<1> QED  BY <1>1, <1>4, <1>5

(* Nothing is carried out of a session that the qualification protects. *)
LEMMA ProtectedIsNotCarried ==
  ASSUME NEW profile, NEW risk, NEW values, NEW class \in {"maintenance_adjacent", "degraded_data"}, NEW call,
         risk # NoBound, risk.rules \in Seq(SessionConditionedRiskRule), SessionsProtected(risk)
  PROVE  ~ EvaluateOperatingEnvelope(profile, risk, values, class, call).carry
<1> SUFFICES ASSUME EvaluateOperatingEnvelope(profile, risk, values, class, call).carry PROVE FALSE  OBVIOUS
<1>1. /\ Distinct(ClassesOf(risk.rules)) /\ RulesFor(risk.rules, class) # <<>>
      /\ Head(RulesFor(risk.rules, class)).carry
  BY CarryRestsOnARule
<1>2. Head(RulesFor(risk.rules, class)) = Last(RulesFor(risk.rules, class))  BY <1>1, OneRulePerClass
<1>3. ~ Last(RulesFor(risk.rules, class)).carry  BY DEF SessionsProtected
<1> QED  BY <1>1, <1>2, <1>3

(* What the controls let through has a waiver for each control it triggers. *)
LEMMA AllowedIsWaived ==
  ASSUME NEW q, NEW d, NEW waivers, NEW now
  PROVE  /\ EvaluateBaselineRisk(q, d, waivers, now)
              \in {"halt", "flatten", "exit_only", "restrict", "allow_with_waiver", "allow"}
         /\ EvaluateBaselineRisk(q, d, waivers, now) \in {"allow", "allow_with_waiver"} =>
              \A c \in TriggeredControls(q, d) : ControlWaived(c, q, d, waivers, now)
<1>1. PICK otherwise : otherwise = "allow"  OBVIOUS
<1>2. PICK triggered : triggered = TriggeredControls(q, d)  OBVIOUS
<1>3. PICK unwaived : unwaived = {c \in triggered : ~ControlWaived(c, q, d, waivers, now)}  OBVIOUS
<1>4. PICK gates : gates =
        <<Gate(BaselineRequestInvalid(q), "halt"), Gate(\E c \in unwaived : ControlActionOf(c, q, d) = "halt", "halt"),
          Gate(\E c \in unwaived : ControlActionOf(c, q, d) = "flatten", "flatten"),
          Gate(\E c \in unwaived : ControlActionOf(c, q, d) = "exit_only", "exit_only"),
          Gate(unwaived # {}, "restrict"), Gate(triggered # {}, "allow_with_waiver")>>
  OBVIOUS
<1>5. PICK answer : answer = EvaluateBaselineRisk(q, d, waivers, now)  OBVIOUS
<1>6. answer = FirstClosed(gates, otherwise)
  BY <1>1, <1>2, <1>3, <1>4, <1>5, Zenon DEF EvaluateBaselineRisk
<1>7. DOMAIN gates = 1..6 /\ DOMAIN gates \in SUBSET Nat  BY <1>4
<1>8. \A i \in 1..5 : gates[i].answer \in {"halt", "flatten", "exit_only", "restrict"}  BY <1>4 DEF Gate
<1>9. gates[6].answer = "allow_with_waiver"  BY <1>4 DEF Gate
<1>10. \/ answer = otherwise /\ \A i \in DOMAIN gates : ~ gates[i].closed
       \/ \E i \in DOMAIN gates : /\ gates[i].closed /\ answer = gates[i].answer
                                  /\ \A j \in DOMAIN gates : j < i => ~ gates[j].closed
  BY <1>6, <1>7, ChainAnswers
<1>11. answer \in {"halt", "flatten", "exit_only", "restrict", "allow_with_waiver", "allow"}
  <2>1. \A i \in DOMAIN gates : gates[i].answer \in {"halt", "flatten", "exit_only", "restrict", "allow_with_waiver"}
    BY <1>7, <1>8, <1>9
  <2> QED  BY <1>1, <1>10, <2>1
<1>12. answer \in {"allow", "allow_with_waiver"} => ~ gates[5].closed  BY <1>7, <1>8, <1>10
<1>13. gates[5].closed = (unwaived # {})  BY <1>4 DEF Gate
<1> QED  BY <1>2, <1>3, <1>5, <1>11, <1>12, <1>13

(* An answer of the engine that is no block leaves no failing rule unwaived. *)
LEMMA UnblockedIsWaived ==
  ASSUME NEW category, NEW rules, NEW waivers, NEW now, FinalizeTrace(category, rules, waivers, now) # "block"
  PROVE  \A r \in rules : r.passed \/ \E w \in waivers : Matches(w, category, r.id, r.reason, now)
<1>1. PICK otherwise : otherwise = "allow"  OBVIOUS
<1>2. PICK failing : failing = {r \in rules : ~r.passed}  OBVIOUS
<1>3. PICK unwaived : unwaived = {r \in failing : \A w \in waivers : ~Matches(w, category, r.id, r.reason, now)}
  OBVIOUS
<1>4. PICK gates : gates = <<Gate(unwaived # {}, "block"), Gate(failing # {}, "allow_with_waiver")>>  OBVIOUS
<1>5. PICK answer : answer = FinalizeTrace(category, rules, waivers, now)  OBVIOUS
<1>6. answer = FirstClosed(gates, otherwise)  BY <1>1, <1>2, <1>3, <1>4, <1>5 DEF FinalizeTrace
<1>7. DOMAIN gates = 1..2 /\ DOMAIN gates \in SUBSET Nat  BY <1>4
<1>8. gates[1].answer = "block"  BY <1>4 DEF Gate
<1>9. ~ gates[1].closed
  <2>1. \/ \A i \in DOMAIN gates : ~ gates[i].closed
        \/ \E i \in DOMAIN gates : /\ gates[i].closed /\ answer = gates[i].answer
                                   /\ \A j \in DOMAIN gates : j < i => ~ gates[j].closed
    BY <1>6, <1>7, ChainAnswers
  <2>2. answer # gates[1].answer  BY <1>5, <1>8
  <2> QED  BY <1>7, <2>1, <2>2
<1>10. unwaived = {}  BY <1>4, <1>9 DEF Gate
<1> QED  BY <1>2, <1>3, <1>10

(* A candidate qualifies only under a profile that protects the sessions. *)
LEMMA QualifiedIsProtected ==
  ASSUME NEW q, EvaluateOvernightCandidate(q) = "qualified"
  PROVE  SessionsProtected(q.risk)
<1>1. PICK answer : answer = "qualified"  OBVIOUS
<1>2. PICK gates : gates =
        <<Gate(~OvernightRequestValid(q), "invalid"),
          Gate(q.fit.status = "stale", "stale"), Gate(q.fit.status = "invalid", "invalid"),
          Gate(\/ ~DeclaredStrict(q) \/ ~FitsOvernight(q) \/ ~SessionsProtected(q.risk)
               \/ ~ScenariosEvidenced(q.evidence) \/ ~CarryRestricted(q.carry) \/ ~MarginsPassed(q), "blocked")>>
  OBVIOUS
<1>3. DOMAIN gates = 1..4 /\ DOMAIN gates \in SUBSET Nat /\ \A i \in DOMAIN gates : gates[i].answer # answer
  BY <1>1, <1>2 DEF Gate
<1>4. answer = FirstClosed(gates, answer)  BY <1>1, <1>2 DEF EvaluateOvernightCandidate
<1>5. \A i \in DOMAIN gates : ~ gates[i].closed  BY <1>3, <1>4, ChainOpen
<1>6. ~ gates[4].closed  BY <1>3, <1>5
<1> QED  BY <1>2, <1>6 DEF Gate

(* What a review that passes says of the steps and of the waiver. *)
LEMMA PassingReview ==
  ASSUME NEW q, EvaluateSoloGovernance(q) = "pass"
  PROVE  /\ Cardinality(q.steps) >= 2 /\ Cardinality({s.id : s \in q.steps}) = Cardinality(q.steps)
         /\ \A s \in q.steps : s.by = Operator /\ s.evidence
         /\ CoolingOffObserved(q) >= CoolingOff
         /\ q.waiver # NoLaneRecord =>
              ~ (q.waiver.policy.expires <= q.waiver.issued) /\ ~ (q.now > q.waiver.policy.expires)
<1>1. PICK answer : answer = "pass"  OBVIOUS
<1>2. PICK answers : answers = {AttestationStepsCheck(q), CoolingOffCheck(q), SignedChecklistsCheck(q),
                                ExceptionCaptureCheck(q), WaiverCheck(q), IncidentClosureCheck(q)}
  OBVIOUS
<1>3. PICK gates : gates = <<Gate("invalid" \in answers, "invalid"), Gate("violation" \in answers, "violation")>>
  OBVIOUS
<1>4. DOMAIN gates = 1..2 /\ DOMAIN gates \in SUBSET Nat /\ \A i \in DOMAIN gates : gates[i].answer # answer
  BY <1>1, <1>3 DEF Gate
<1>5. answer = FirstClosed(gates, answer)  BY <1>1, <1>2, <1>3 DEF EvaluateSoloGovernance
<1>6. \A i \in DOMAIN gates : ~ gates[i].closed  BY <1>4, <1>5, ChainOpen
<1>7. ~ gates[1].closed /\ ~ gates[2].closed  BY <1>4, <1>6
<1>8. "invalid" \notin answers /\ "violation" \notin answers  BY <1>3, <1>7 DEF Gate
<1>9. /\ AttestationStepsCheck(q) # "invalid" /\ CoolingOffCheck(q) # "violation"
      /\ SignedChecklistsCheck(q) # "invalid" /\ WaiverCheck(q) \notin {"invalid", "violation"}
  BY <1>2, <1>8
<1>10. /\ Cardinality(q.steps) >= 2 /\ Cardinality({s.id : s \in q.steps}) = Cardinality(q.steps)
       /\ \A s \in q.steps : s.by = Operator
  BY <1>9 DEF AttestationStepsCheck
<1>11. CoolingOffObserved(q) >= CoolingOff  BY <1>9 DEF CoolingOffCheck
<1>12. \A s \in q.steps : s.evidence  BY <1>9 DEF SignedChecklistsCheck
<1>13. ASSUME q.waiver # NoLaneRecord
       PROVE  ~ (q.waiver.policy.expires <= q.waiver.issued) /\ ~ (q.now > q.waiver.policy.expires)
  <2>1. PICK otherwise : otherwise = "pass"  OBVIOUS
  <2>2. PICK asked : asked = <<Gate(~q.waiver.filled \/ q.waiver.policy.expires <= q.waiver.issued, "invalid"),
                               Gate(q.now > q.waiver.policy.expires, "violation")>>
    OBVIOUS
  <2>3. PICK said : said = WaiverCheck(q)  OBVIOUS
  <2>4. said = FirstClosed(asked, otherwise)  BY <1>13, <2>1, <2>2, <2>3 DEF WaiverCheck
  <2>5. DOMAIN asked = 1..2 /\ DOMAIN asked \in SUBSET Nat  BY <2>2
  <2>6. asked[1].answer = "invalid" /\ asked[2].answer = "violation"  BY <2>2 DEF Gate
  <2>7. \/ \A i \in DOMAIN asked : ~ asked[i].closed
        \/ \E i \in DOMAIN asked : asked[i].closed /\ said = asked[i].answer
    BY <2>4, <2>5, ChainAnswers
  <2>8. ~ asked[1].closed /\ ~ asked[2].closed  BY <1>9, <2>3, <2>5, <2>6, <2>7
  <2> QED  BY <2>2, <2>8 DEF Gate
<1> QED  BY <1>10, <1>11, <1>12, <1>13

(* Among two steps or more that carry an identifier each, and whose first and
   last lie a cooling-off apart, there are two such steps with identifiers of
   their own: when all were signed at once, any two of them. *)
LEMMA TwoSittings ==
  ASSUME NEW steps \in SUBSET SelfAttestationStep, IsFiniteSet(steps), NEW now \in Nat,
         \A s \in steps : s.signedAt <= now,
         Cardinality(steps) >= 2, Cardinality({s.id : s \in steps}) = Cardinality(steps),
         Max({s.signedAt : s \in steps}) - Min({s.signedAt : s \in steps}) >= CoolingOff
  PROVE  \E s, t \in steps : s.id # t.id /\ t.signedAt >= s.signedAt + CoolingOff
<1>0. CoolingOff \in Nat  BY SoloGovernanceAssumption
<1>1. PICK ids : ids = {s.id : s \in steps}  OBVIOUS
<1>2. \A s, t \in steps : s.id = t.id => s = t
  <2>1. PICK f : f = [s \in steps |-> s.id]  OBVIOUS
  <2>2. f \in Surjection(steps, ids)
    <3>1. f \in [steps -> ids]  BY <1>1, <2>1
    <3>2. \A i \in ids : \E s \in steps : f[s] = i  BY <1>1, <2>1
    <3> QED  BY <3>1, <3>2 DEF Surjection
  <2>3. f \in Injection(steps, ids)  BY <1>1, <2>2, FS_Surjection
  <2>4. DOMAIN f = steps  BY <2>1
  <2>5. \A s, t \in steps : f[s] = f[t] => s = t  BY <2>3, <2>4 DEF Injection, IsInjective
  <2> QED  BY <2>1, <2>5
<1>3. \A s \in steps : s.signedAt \in 0..now
  BY DEF SelfAttestationStep
<1>4. steps # {}  BY FS_EmptySet
<1>5. PICK instants : instants = {s.signedAt : s \in steps}  OBVIOUS
<1>6. instants \in SUBSET (0..now) /\ instants # {} /\ instants \in SUBSET Nat  BY <1>3, <1>4, <1>5
<1>7. Max(instants) \in instants /\ \A n \in instants : Max(instants) >= n
  <2>1. \E n \in instants : \A m \in instants : n >= m  BY <1>6, GreatestNatural
  <2> QED  BY <2>1 DEF Max
<1>8. Min(instants) \in instants /\ \A n \in instants : Min(instants) <= n
  <2>1. \E n \in instants : \A m \in instants : n <= m  BY <1>6, LeastNatural
  <2> QED  BY <2>1 DEF Min
<1>9. PICK first \in steps : first.signedAt = Min(instants)  BY <1>5, <1>8
<1>10. PICK last \in steps : last.signedAt = Max(instants)  BY <1>5, <1>7
<1>11. last.signedAt >= first.signedAt + CoolingOff  BY <1>0, <1>3, <1>5, <1>9, <1>10
<1>12. CASE first # last  BY <1>2, <1>11, <1>12
<1>13. CASE first = last
  <2>1. PICK other \in steps : other # first
    <3>1. steps # {first}  BY FS_Singleton
    <3> QED  BY <1>4, <3>1
  <2>2. other.signedAt \in instants  BY <1>5
  <2>3. other.signedAt <= last.signedAt /\ first.signedAt <= other.signedAt  BY <1>7, <1>8, <1>9, <1>10, <2>2
  <2>4. other.signedAt >= first.signedAt + CoolingOff  BY <1>0, <1>3, <1>11, <1>13, <2>3
  <2> QED  BY <1>2, <2>1, <2>4
<1> QED  BY <1>12, <1>13

(* A control that a waiver releases is covered by it. *)
LEMMA WaivedIsCovered ==
  ASSUME NEW q, NEW c, ControlWaived(c, q, LimitsOf(q), signed, laneTime)
  PROVE  Covered("baseline_risk_controls", c, ControlReason(c, q, LimitsOf(q)))
<1>1. PICK reason : reason = ControlReason(c, q, LimitsOf(q))  OBVIOUS
<1>2. PICK w \in signed :
        /\ IsActive(w, laneTime)
        /\ w.categories = {} \/ "baseline_risk_controls" \in w.categories
        /\ w.rules = {} \/ c \in w.rules
        /\ w.reasons = {} \/ reason \in w.reasons
  BY <1>1, Zenon DEF ControlWaived
<1>3. w.expires # NoExpiry => w.expires >= laneTime  BY <1>2 DEF IsActive
<1>4. \A pair \in {<<w.categories, "baseline_risk_controls">>, <<w.rules, c>>, <<w.reasons, reason>>} :
        pair[1] # {} => pair[2] \in pair[1]
  BY <1>2
<1> QED  BY <1>1, <1>3, <1>4, Zenon DEF Covered

(* A failing rule that a waiver matches is covered by it. *)
LEMMA MatchedIsCovered ==
  ASSUME NEW category, NEW rule, NEW reason, NEW w \in signed, Matches(w, category, rule, reason, laneTime)
  PROVE  Covered(category, rule, reason)
<1>1. w.expires # NoExpiry => w.expires >= laneTime  BY DEF Matches, IsActive
<1>2. \A pair \in {<<w.categories, category>>, <<w.rules, rule>>, <<w.reasons, reason>>} :
        pair[1] # {} => pair[2] \in pair[1]
  BY DEF Matches
<1> QED  BY <1>1, <1>2, Zenon DEF Covered

(* An answer that an order which grows the position gets past is an allowance. *)
LEMMA GrowingIsAllowed ==
  ASSUME NEW action, NEW mode, NEW before \in Int, NEW after \in Int, Obeys(action, mode, before, after),
         Size(after) > Size(before),
         action \in {"halt", "flatten", "exit_only", "restrict", "allow_with_waiver", "allow"}
  PROVE  action \in {"allow", "allow_with_waiver"}
<1>1. action \notin {"halt", "restrict"}  BY DEF Obeys
<1>2. after # 0  BY DEF Size
<1>3. action # "flatten"  BY <1>2 DEF Obeys
<1>4. ~ Between(before, after)  BY DEF Between, Size
<1>5. action # "exit_only"  BY <1>4 DEF Obeys
<1> QED  BY <1>1, <1>3, <1>5

(* What the reviews rest on stays: steps are only added, and time only passes.
   Besides, a profile is only qualified under when it protects its sessions, the
   engine of the review only has waivers that were reviewed, and a lane on its
   own does not ask the engine. *)
ReviewStands(review) ==
  /\ TwiceAttested(review)
  /\ review.waiver.issued < review.waiver.policy.expires /\ review.at <= review.waiver.policy.expires
RiskInv ==
  /\ LaneTypeOK /\ GovernanceTypeOK /\ RiskIsGoverned
  /\ IsFiniteSet(attested) /\ \A s \in attested : s.signedAt <= laneTime
  /\ qualified # NoLaneRecord => SessionsProtected(qualified) /\ qualified # NoBound
  /\ \A review \in reviews : ReviewStands(review)
  /\ running = "governance" => \A w \in signed : \E review \in reviews : w = review.waiver.policy
  /\ running # "governance" => taken = NoLaneRecord \/ taken.kind # "decision"

(* A step that claims nothing leaves risk governed. *)
LEMMA ClaimingNothing ==
  ASSUME taken' = NoLaneRecord
  PROVE  RiskIsGoverned'
BY DEF RiskIsGoverned, RiskIsPermitted, ExceptionsAreGoverned

(* The actions of the lane and of its governance, one by one. *)
LEMMA OrdersAreGoverned ==
  ASSUME RiskInv, running # "governance", NEW order \in LaneOrders, NEW mode, PlaceOrder(order, mode),
         UNCHANGED <<running, governanceVars>>
  PROVE  RiskInv'
<1> USE DEF governanceVars
<1>0. position \in -MaxLanePosition..MaxLanePosition /\ MaxLanePosition \in Nat /\ position \in Int
  BY TradingLaneAssumption DEF RiskInv, LaneTypeOK
<1>1. PICK q : q = BaselineRequest(order)  OBVIOUS
<1>2. q.projected = position + order.delta /\ q.increases = (Size(position + order.delta) > Size(position))
  BY <1>1, TradingLaneAssumption DEF BaselineRequest, BaselineRiskRequest
<1>3. q.projected \in Int  BY <1>0, <1>2, TradingLaneAssumption
<1>4. PICK action : action = EvaluateBaselineRisk(q, LimitsOf(q), signed, laneTime)  OBVIOUS
<1>5. /\ Size(q.projected) <= MaxLanePosition
      /\ Obeys(action, mode, position, q.projected)
      /\ position' = q.projected
      /\ taken' = [kind |-> "order", request |-> q]
      /\ UNCHANGED <<session, readings, laneTime, signed, qualified>>
  BY <1>1, <1>4 DEF PlaceOrder
<1>6. q.increases => \A c \in TriggeredControls(q, LimitsOf(q)) :
                       Covered("baseline_risk_controls", c, ControlReason(c, q, LimitsOf(q)))
  <2>1. action \in {"halt", "flatten", "exit_only", "restrict", "allow_with_waiver", "allow"}
    BY <1>4, AllowedIsWaived
  <2>2. ASSUME q.increases PROVE action \in {"allow", "allow_with_waiver"}
    BY <1>0, <1>2, <1>3, <1>5, <2>1, <2>2, GrowingIsAllowed
  <2>3. action \in {"allow", "allow_with_waiver"} =>
          \A c \in TriggeredControls(q, LimitsOf(q)) : ControlWaived(c, q, LimitsOf(q), signed, laneTime)
    BY <1>4, AllowedIsWaived
  <2> QED  BY <2>2, <2>3, WaivedIsCovered
<1>7. taken'.kind = "order" /\ taken'.request = q  BY <1>5
<1>8. RiskIsPermitted'
  <2>1. q.increases => \A c \in TriggeredControls(q, LimitsOf(q)) :
                         Covered("baseline_risk_controls", c, ControlReason(c, q, LimitsOf(q)))'
    BY <1>5, <1>6 DEF Covered
  <2> QED  BY <1>7, <2>1 DEF RiskIsPermitted
<1>9. ExceptionsAreGoverned'  BY <1>7 DEF ExceptionsAreGoverned
<1>10. position' \in -MaxLanePosition..MaxLanePosition  BY <1>0, <1>3, <1>5 DEF Size
<1>11. LaneTypeOK'  BY <1>5, <1>10 DEF LaneTypeOK, RiskInv
<1>12. GovernanceTypeOK'  BY <1>5 DEF GovernanceTypeOK, RiskInv
<1>13. \A review \in reviews' : ReviewStands(review)'  BY DEF RiskInv, ReviewStands, TwiceAttested
<1> QED  BY <1>5, <1>7, <1>8, <1>9, <1>11, <1>12, <1>13 DEF RiskInv, RiskIsGoverned

(* A position is carried past a close that protects nothing, and covered. *)
LEMMA ClosesAreGoverned ==
  ASSUME RiskInv, running # "governance", NEW order \in LaneOrders, NEW call, CloseSession(order, call),
         UNCHANGED <<running, governanceVars>>
  PROVE  RiskInv'
<1> USE DEF governanceVars
<1>0. position \in -MaxLanePosition..MaxLanePosition /\ MaxLanePosition \in Nat
  BY TradingLaneAssumption DEF RiskInv, LaneTypeOK
<1>1. PICK q : q = [BaselineRequest(order) EXCEPT !.projected = position, !.overnight = TRUE]  OBVIOUS
<1>2. PICK carried : carried = (/\ qualified # NoLaneRecord
                                /\ EvaluateOperatingEnvelope(EnvelopeProfile, qualified, readings, session, call).carry
                                /\ Limited(q)
                                /\ EvaluateBaselineRisk(q, LimitsOf(q), signed, laneTime)
                                     \in {"allow", "allow_with_waiver"})
  OBVIOUS
<1>3. /\ position' = IF carried THEN position ELSE 0
      /\ taken' = IF carried THEN [kind |-> "carry", request |-> q, class |-> session] ELSE NoLaneRecord
      /\ session' \in LaneSessions
      /\ UNCHANGED <<readings, laneTime, signed, qualified>>
  BY <1>1, <1>2, Zenon DEF CloseSession
<1>4. LaneTypeOK'
  BY <1>0, <1>3, TradingLaneAssumption DEF LaneTypeOK, RiskInv
<1>5. GovernanceTypeOK'  BY <1>3 DEF GovernanceTypeOK, RiskInv
<1>6. \A review \in reviews' : ReviewStands(review)'  BY DEF RiskInv, ReviewStands, TwiceAttested
<1>7. CASE ~carried
  <2>1. taken' = NoLaneRecord  BY <1>3, <1>7
  <2>2. RiskIsGoverned'  BY <2>1, ClaimingNothing
  <2> QED  BY <1>3, <1>4, <1>5, <1>6, <2>1, <2>2 DEF RiskInv
<1>8. CASE carried
  <2>1. /\ qualified # NoLaneRecord
        /\ EvaluateOperatingEnvelope(EnvelopeProfile, qualified, readings, session, call).carry
        /\ EvaluateBaselineRisk(q, LimitsOf(q), signed, laneTime) \in {"allow", "allow_with_waiver"}
    BY <1>2, <1>8
  <2>2. taken' = [kind |-> "carry", request |-> q, class |-> session]  BY <1>3, <1>8
  <2>3. taken'.kind = "carry" /\ taken'.request = q /\ taken'.class = session  BY <2>2
  <2>4. session \notin {"maintenance_adjacent", "degraded_data"}
    <3>1. qualified # NoBound /\ SessionsProtected(qualified) /\ qualified.rules \in Seq(SessionConditionedRiskRule)
      BY <2>1 DEF RiskInv, LaneTypeOK
    <3> QED  BY <2>1, <3>1, ProtectedIsNotCarried
  <2>5. \A c \in TriggeredControls(q, LimitsOf(q)) : ControlWaived(c, q, LimitsOf(q), signed, laneTime)
    BY <2>1, AllowedIsWaived
  <2>6. \A c \in TriggeredControls(q, LimitsOf(q)) :
          Covered("baseline_risk_controls", c, ControlReason(c, q, LimitsOf(q)))
    BY <2>5, WaivedIsCovered
  <2>7. \A c \in TriggeredControls(q, LimitsOf(q)) :
          Covered("baseline_risk_controls", c, ControlReason(c, q, LimitsOf(q)))'
    BY <1>3, <2>6 DEF Covered
  <2>8. RiskIsPermitted'  BY <2>3, <2>4, <2>7 DEF RiskIsPermitted
  <2>9. ExceptionsAreGoverned'  BY <2>3 DEF ExceptionsAreGoverned
  <2> QED  BY <1>3, <1>4, <1>5, <1>6, <2>3, <2>8, <2>9 DEF RiskInv, RiskIsGoverned
<1> QED  BY <1>7, <1>8

(* The engine of a review waives with reviewed waivers, and they have not lapsed. *)
LEMMA AnswersAreGoverned ==
  ASSUME RiskInv, running = "governance", NEW question \in EngineQuestions, AskEngine(question),
         UNCHANGED <<running, governanceVars>>
  PROVE  RiskInv'
<1> USE DEF governanceVars
<1>1. PICK category : category = question.category  OBVIOUS
<1>2. PICK about : about = question.about  OBVIOUS
<1>3. PICK rules : rules = RulesOf(category, about)  OBVIOUS
<1>4. PICK answer : answer = FinalizeTrace(category, rules, signed, laneTime)  OBVIOUS
<1>5. /\ taken' = [kind |-> "decision", category |-> category, about |-> about, answer |-> answer]
      /\ UNCHANGED <<position, session, readings, laneTime, signed, qualified>>
  BY <1>1, <1>2, <1>3, <1>4 DEF AskEngine
<1>6. /\ taken'.kind = "decision" /\ taken'.category = category /\ taken'.about = about
      /\ taken'.answer = answer
  BY <1>5
<1>7. LaneTypeOK' /\ GovernanceTypeOK'  BY <1>5 DEF LaneTypeOK, GovernanceTypeOK, RiskInv
<1>8. \A review \in reviews' : ReviewStands(review)'  BY DEF RiskInv, ReviewStands, TwiceAttested
<1>9. ASSUME answer # "block"
      PROVE  \A r \in rules : r.passed \/ \E w \in signed : Matches(w, category, r.id, r.reason, laneTime)
  BY <1>4, <1>9, UnblockedIsWaived
<1>10. RiskIsPermitted'
  <2>1. ASSUME answer # "block" PROVE \A r \in rules : r.passed \/ Covered(category, r.id, r.reason)
    BY <1>9, <2>1, MatchedIsCovered
  <2>2. ASSUME answer # "block" PROVE \A r \in rules : r.passed \/ Covered(category, r.id, r.reason)'
    BY <1>5, <2>1, <2>2 DEF Covered
  <2> QED  BY <1>3, <1>6, <2>2 DEF RiskIsPermitted
<1>11. ExceptionsAreGoverned'
  <2>1. ASSUME answer # "block", NEW rule \in rules, ~ rule.passed
        PROVE  \E review \in reviews :
                 /\ ReviewStands(review) /\ laneTime <= review.waiver.policy.expires
                 /\ Matches(review.waiver.policy, category, rule.id, rule.reason, laneTime)
    <3>1. PICK w \in signed : Matches(w, category, rule.id, rule.reason, laneTime)  BY <1>9, <2>1
    <3>2. PICK review \in reviews : w = review.waiver.policy  BY DEF RiskInv
    <3>3. ReviewStands(review) /\ review.waiver \in {c.waiver : c \in ExceptionCases} \ {NoLaneRecord}
      BY DEF RiskInv, GovernanceTypeOK
    <3>4. w.expires # NoExpiry  BY <3>2, <3>3, SoloGovernanceAssumption
    <3>5. PICK case \in ExceptionCases : case.waiver = review.waiver /\ case.waiver # NoLaneRecord  BY <3>3
    <3>6. case.waiver \in GovernanceWaiverRecord
      BY <3>5, SoloGovernanceAssumption DEF ExceptionCase
    <3>7. w \in PolicyWaiver  BY <3>2, <3>5, <3>6 DEF GovernanceWaiverRecord
    <3>8. w.expires \in Nat  BY <3>4, <3>7 DEF PolicyWaiver
    <3>9. laneTime \in Nat  BY DEF RiskInv, LaneTypeOK
    <3>10. laneTime <= w.expires  BY <3>1, <3>4, <3>8, <3>9 DEF Matches, IsActive
    <3> QED  BY <3>1, <3>2, <3>3, <3>10
  <2>2. ASSUME answer # "block", NEW rule \in rules, ~ rule.passed
        PROVE  \E review \in reviews' :
                 /\ TwiceAttested(review)'
                 /\ review.waiver.issued < review.waiver.policy.expires
                 /\ review.at <= review.waiver.policy.expires /\ laneTime' <= review.waiver.policy.expires
                 /\ Matches(review.waiver.policy, category, rule.id, rule.reason, laneTime')
    BY <1>5, <2>1, <2>2 DEF ReviewStands, TwiceAttested
  <2> QED  BY <1>3, <1>6, <2>2 DEF ExceptionsAreGoverned
<1> QED  BY <1>5, <1>7, <1>8, <1>10, <1>11 DEF RiskInv, RiskIsGoverned

(* A step that claims nothing and lets the signatures, the reviews and the
   qualification stand keeps what risk rests on. *)
LEMMA StandingStays ==
  ASSUME RiskInv, taken' = NoLaneRecord, LaneTypeOK', GovernanceTypeOK',
         UNCHANGED <<running, qualified, attested, reviews>>, laneTime' \in Nat, laneTime <= laneTime',
         running = "governance" => UNCHANGED signed
  PROVE  RiskInv'
<1>1. RiskIsGoverned'  BY ClaimingNothing
<1>2. laneTime \in Nat /\ \A s \in attested : s.signedAt \in Nat /\ s.signedAt <= laneTime
  BY DEF RiskInv, LaneTypeOK, GovernanceTypeOK, SelfAttestationStep
<1>3. \A s \in attested' : s.signedAt <= laneTime'
  <2> SUFFICES ASSUME NEW s \in attested PROVE s.signedAt <= laneTime'  OBVIOUS
  <2>1. s.signedAt \in Nat /\ s.signedAt <= laneTime  BY <1>2
  <2> QED  BY <1>2, <2>1
<1>4. \A review \in reviews' : ReviewStands(review)'  BY DEF RiskInv, ReviewStands, TwiceAttested
<1>5. IsFiniteSet(attested') /\ (qualified' # NoLaneRecord => SessionsProtected(qualified') /\ qualified' # NoBound)
  BY DEF RiskInv
<1>6. running' = "governance" => \A w \in signed' : \E review \in reviews' : w = review.waiver.policy
  BY DEF RiskInv
<1> QED  BY <1>1, <1>3, <1>4, <1>5, <1>6 DEF RiskInv

(* A qualification binds a profile that protects its sessions. *)
LEMMA QualifyingIsGoverned ==
  ASSUME RiskInv, running # "governance", NEW q \in OvernightRequests, QualifyOvernight(q),
         UNCHANGED <<running, governanceVars>>
  PROVE  RiskInv'
<1> USE DEF governanceVars
<1>1. PICK answer : answer = EvaluateOvernightCandidate(q)  OBVIOUS
<1>2. /\ qualified' = IF answer = "qualified" THEN q.risk ELSE NoLaneRecord
      /\ taken' = NoLaneRecord
      /\ UNCHANGED <<position, session, readings, laneTime, signed>>
  BY <1>1 DEF QualifyOvernight
<1>3. q.risk # NoBound /\ q.risk.rules \in Seq(SessionConditionedRiskRule)  BY TradingLaneAssumption
<1>4. answer = "qualified" => SessionsProtected(q.risk)  BY <1>1, QualifiedIsProtected
<1>5. qualified' # NoLaneRecord =>
        /\ SessionsProtected(qualified') /\ qualified' # NoBound
        /\ qualified'.rules \in Seq(SessionConditionedRiskRule)
  BY <1>2, <1>3, <1>4
<1>6. LaneTypeOK' /\ GovernanceTypeOK'  BY <1>2, <1>5 DEF LaneTypeOK, GovernanceTypeOK, RiskInv
<1>7. RiskIsGoverned'  BY <1>2, ClaimingNothing
<1>8. \A review \in reviews' : ReviewStands(review)'  BY DEF RiskInv, ReviewStands, TwiceAttested
<1> QED  BY <1>2, <1>5, <1>6, <1>7, <1>8 DEF RiskInv

(* A signed step takes nothing from the reviews before it. *)
LEMMA SigningIsGoverned ==
  ASSUME RiskInv, running = "governance", NEW form \in StepForms, SignStep(form), UNCHANGED running
  PROVE  RiskInv'
<1>1. PICK step : step = [id |-> form.id, by |-> form.by, evidence |-> form.evidence, signedAt |-> laneTime]
  OBVIOUS
<1>2. /\ Cardinality(attested) < MaxSteps /\ attested' = attested \cup {step} /\ taken' = NoLaneRecord
      /\ UNCHANGED <<position, session, readings, laneTime, signed, qualified, reviews>>
  BY <1>1 DEF SignStep
<1>3. laneTime \in Nat  BY DEF RiskInv, LaneTypeOK
<1>4. step \in SelfAttestationStep /\ step.signedAt = laneTime
  BY <1>1, <1>3, SoloGovernanceAssumption DEF SelfAttestationStep
<1>5. IsFiniteSet(attested)  BY DEF RiskInv
<1>6. IsFiniteSet(attested') /\ Cardinality(attested') <= MaxSteps
  <2>1. Cardinality(attested) \in Nat /\ MaxSteps \in Nat  BY <1>5, FS_CardinalityType, SoloGovernanceAssumption
  <2>2. IsFiniteSet(attested \cup {step})
        /\ (Cardinality(attested \cup {step}) = Cardinality(attested)
            \/ Cardinality(attested \cup {step}) = Cardinality(attested) + 1)
    BY <1>5, FS_AddElement
  <2> QED  BY <1>2, <2>1, <2>2
<1>7. LaneTypeOK' /\ GovernanceTypeOK'
  BY <1>2, <1>4, <1>6 DEF LaneTypeOK, GovernanceTypeOK, RiskInv
<1>8. \A s \in attested' : s.signedAt <= laneTime'
  BY <1>2, <1>3, <1>4 DEF RiskInv
<1>9. \A review \in reviews' : ReviewStands(review)'
  <2> SUFFICES ASSUME NEW review \in reviews PROVE ReviewStands(review)'  BY <1>2
  <2>1. ReviewStands(review)  BY DEF RiskInv
  <2>2. TwiceAttested(review)'  BY <1>2, <2>1 DEF ReviewStands, TwiceAttested
  <2> QED  BY <2>1, <2>2 DEF ReviewStands
<1>10. RiskIsGoverned'  BY <1>2, ClaimingNothing
<1> QED  BY <1>2, <1>6, <1>7, <1>8, <1>9, <1>10 DEF RiskInv

(* A review that hands over its waiver was attested twice. *)
LEMMA ReviewsAreGoverned ==
  ASSUME RiskInv, running = "governance", NEW case \in ExceptionCases, NEW steps \in SUBSET attested,
         ReviewException(case, steps), UNCHANGED running
  PROVE  RiskInv'
<1>1. PICK q : q = [live |-> case.live, waiver |-> case.waiver, incident |-> case.incident, now |-> laneTime,
                    steps |-> steps]
  OBVIOUS
<1>2. PICK handed : handed = (EvaluateSoloGovernance(q) = "pass" /\ case.waiver # NoLaneRecord)  OBVIOUS
<1>3. PICK review : review = [waiver |-> case.waiver, at |-> laneTime]  OBVIOUS
<1>4. /\ reviews' = IF handed THEN reviews \cup {review} ELSE reviews
      /\ signed' = IF handed THEN signed \cup {case.waiver.policy} ELSE signed
      /\ taken' = NoLaneRecord
      /\ UNCHANGED <<position, session, readings, laneTime, qualified, attested>>
  BY <1>1, <1>2, <1>3 DEF ReviewException, ToPolicyWaiver
<1>5. CASE ~handed
  <2>1. UNCHANGED <<reviews, signed>>  BY <1>4, <1>5
  <2>2. LaneTypeOK' /\ GovernanceTypeOK'  BY <1>4, <2>1 DEF LaneTypeOK, GovernanceTypeOK, RiskInv
  <2>3. laneTime' \in Nat /\ laneTime <= laneTime'  BY <1>4 DEF RiskInv, LaneTypeOK
  <2> QED  BY <1>4, <2>1, <2>2, <2>3, StandingStays
<1>6. CASE handed
  <2>1. EvaluateSoloGovernance(q) = "pass" /\ case.waiver # NoLaneRecord  BY <1>2, <1>6
  <2>2. q.steps = steps /\ q.waiver = case.waiver /\ q.now = laneTime  BY <1>1
  <2>3. review.waiver = case.waiver /\ review.at = laneTime  BY <1>3
  <2>4. laneTime \in Nat /\ CoolingOff \in Nat  BY SoloGovernanceAssumption DEF RiskInv, LaneTypeOK
  <2>5. /\ case.waiver \in GovernanceWaiverRecord /\ case.waiver.policy.expires # NoExpiry
    BY <2>1, SoloGovernanceAssumption DEF ExceptionCase
  <2>6. case.waiver.policy \in PolicyWaiver /\ case.waiver.issued \in Nat /\ case.waiver.policy.expires \in Nat
    BY <2>5 DEF GovernanceWaiverRecord, PolicyWaiver
  <2>7. /\ Cardinality(steps) >= 2 /\ Cardinality({s.id : s \in steps}) = Cardinality(steps)
        /\ \A s \in steps : s.by = Operator /\ s.evidence
        /\ CoolingOffObserved(q) >= CoolingOff
        /\ ~ (case.waiver.policy.expires <= case.waiver.issued) /\ ~ (laneTime > case.waiver.policy.expires)
    BY <2>1, <2>2, PassingReview
  <2>8. /\ steps \in SUBSET SelfAttestationStep /\ IsFiniteSet(steps)
        /\ \A s \in steps : s.signedAt <= laneTime
    BY FS_Subset DEF RiskInv, GovernanceTypeOK
  <2>9. Max({s.signedAt : s \in steps}) - Min({s.signedAt : s \in steps}) >= CoolingOff
    <3>1. Cardinality(steps) \in Nat  BY <2>8, FS_CardinalityType
    <3>2. ~ (Cardinality(steps) < 2)  BY <2>7, <3>1
    <3> QED  BY <2>2, <2>7, <3>2 DEF CoolingOffObserved
  <2>10. \E s, t \in steps : s.id # t.id /\ t.signedAt >= s.signedAt + CoolingOff
    BY <2>4, <2>7, <2>8, <2>9, TwoSittings
  <2>11. TwiceAttested(review)
    BY <2>3, <2>7, <2>8, <2>10 DEF TwiceAttested
  <2>12. review.waiver.issued < review.waiver.policy.expires /\ review.at <= review.waiver.policy.expires
    BY <2>3, <2>4, <2>6, <2>7
  <2>13. \A r \in reviews' : ReviewStands(r)'
    <3>1. \A r \in reviews : ReviewStands(r)  BY DEF RiskInv
    <3>2. ReviewStands(review)  BY <2>11, <2>12 DEF ReviewStands
    <3>3. \A r : ReviewStands(r) => ReviewStands(r)'  BY <1>4 DEF ReviewStands, TwiceAttested
    <3> QED  BY <1>4, <1>6, <3>1, <3>2, <3>3
  <2>14. \A w \in signed' : \E r \in reviews' : w = r.waiver.policy
    BY <1>4, <1>6, <2>3 DEF RiskInv
  <2>15. LaneTypeOK'  BY <1>4, <1>6, <2>6 DEF LaneTypeOK, RiskInv
  <2>16. GovernanceTypeOK'
    <3>1. review \in [waiver : {c.waiver : c \in ExceptionCases} \ {NoLaneRecord}, at : 0..laneTime]
      BY <1>3, <2>1, <2>4
    <3> QED  BY <1>4, <1>6, <3>1 DEF GovernanceTypeOK, RiskInv
  <2>17. RiskIsGoverned'  BY <1>4, ClaimingNothing
  <2> QED  BY <1>4, <2>13, <2>14, <2>15, <2>16, <2>17 DEF RiskInv
<1> QED  BY <1>5, <1>6

(* Risk is taken under a waiver in force for every control it triggers, never over
   a protected close, and an exception is waived only after two attestations a
   cooling-off apart (RiskInv is inductive). *)
THEOREM RiskStaysGoverned == GatesSpec => [](LaneTypeOK /\ GovernanceTypeOK /\ RiskIsGoverned)
<1>1. GatesInit => RiskInv
  <2> SUFFICES ASSUME GatesInit PROVE RiskInv  OBVIOUS
  <2>1. /\ position = 0 /\ laneTime = 0 /\ signed = {} /\ qualified = NoLaneRecord /\ taken = NoLaneRecord
        /\ session = "regular_comex" /\ readings \in EnvelopeReadings /\ attested = {} /\ reviews = {}
    BY DEF GatesInit, LaneInit, GovernanceInit
  <2>2. LaneTypeOK  BY <2>1, TradingLaneAssumption DEF LaneTypeOK, RequiredSessionClasses
  <2>3. IsFiniteSet({}) /\ Cardinality({}) = 0  BY FS_EmptySet
  <2>4. GovernanceTypeOK  BY <2>1, <2>3, SoloGovernanceAssumption DEF GovernanceTypeOK
  <2>5. RiskIsGoverned  BY <2>1 DEF RiskIsGoverned, RiskIsPermitted, ExceptionsAreGoverned
  <2> QED  BY <2>1, <2>2, <2>3, <2>4, <2>5 DEF RiskInv
<1>2. RiskInv /\ [GatesNext]_gateVars => RiskInv'
  <2> SUFFICES ASSUME RiskInv, [GatesNext]_gateVars PROVE RiskInv'  OBVIOUS
  <2>1. laneTime \in 0..MaxLaneTime /\ MaxLaneTime \in Nat  BY TradingLaneAssumption DEF RiskInv, LaneTypeOK
  <2>2. ASSUME UNCHANGED <<running, laneVars, governanceVars>> PROVE RiskInv'
    <3> USE <2>2 DEF laneVars, governanceVars
    <3>1. LaneTypeOK' /\ GovernanceTypeOK'  BY DEF RiskInv, LaneTypeOK, GovernanceTypeOK
    <3>2. RiskIsPermitted'  BY DEF RiskInv, RiskIsGoverned, RiskIsPermitted, Covered
    <3>3. \A review : TwiceAttested(review) => TwiceAttested(review)'  BY DEF TwiceAttested
    <3>4. ExceptionsAreGoverned'  BY <3>3 DEF RiskInv, RiskIsGoverned, ExceptionsAreGoverned
    <3>5. \A review \in reviews' : ReviewStands(review)'  BY <3>3 DEF RiskInv, ReviewStands
    <3> QED  BY <3>1, <3>2, <3>4, <3>5 DEF RiskInv, RiskIsGoverned
  <2>3. ASSUME UNCHANGED <<running, governanceVars>>, PassLaneTime PROVE RiskInv'
    <3>1. /\ laneTime < MaxLaneTime /\ laneTime' = laneTime + 1 /\ taken' = NoLaneRecord
          /\ UNCHANGED <<running, attested, reviews, position, session, readings, signed, qualified>>
      BY <2>3 DEF PassLaneTime, governanceVars
    <3>2. laneTime' \in 0..MaxLaneTime /\ laneTime <= laneTime'  BY <2>1, <3>1
    <3>3. LaneTypeOK'  BY <3>1, <3>2 DEF LaneTypeOK, RiskInv
    <3>4. GovernanceTypeOK'
      <4>1. 0..laneTime \subseteq 0..laneTime'  BY <2>1, <3>1
      <4>2. reviews \subseteq [waiver : {c.waiver : c \in ExceptionCases} \ {NoLaneRecord}, at : 0..laneTime']
        BY <4>1 DEF GovernanceTypeOK, RiskInv
      <4> QED  BY <3>1, <4>2 DEF GovernanceTypeOK, RiskInv
    <3> QED  BY <3>1, <3>2, <3>3, <3>4, StandingStays
  <2>4. CASE running = "lane" /\ running' = running /\ LaneNext /\ UNCHANGED governanceVars
    <3>0. running # "governance" /\ UNCHANGED <<running, governanceVars>>  BY <2>4
    <3>1. ASSUME NEW mode \in ModesInForce, NEW order \in LaneOrders, PlaceOrder(order, mode) PROVE RiskInv'
      BY <3>0, <3>1, OrdersAreGoverned
    <3>2. ASSUME NEW order \in LaneOrders, NEW call, CloseSession(order, call) PROVE RiskInv'
      BY <3>0, <3>2, ClosesAreGoverned
    <3>3. ASSUME NEW q \in OvernightRequests, QualifyOvernight(q) PROVE RiskInv'
      BY <3>0, <3>3, QualifyingIsGoverned
    <3>4. ASSUME NEW values \in EnvelopeReadings, NEW class \in LaneSessions, ReadDimensions(values, class)
          PROVE  RiskInv'
      <4>1. /\ readings' = values /\ session' = class /\ taken' = NoLaneRecord
            /\ UNCHANGED <<attested, reviews, position, laneTime, signed, qualified>>
        BY <3>0, <3>4 DEF ReadDimensions, governanceVars
      <4>2. LaneTypeOK' /\ GovernanceTypeOK'
        BY <4>1, TradingLaneAssumption DEF LaneTypeOK, GovernanceTypeOK, RiskInv
      <4> QED  BY <2>1, <3>0, <4>1, <4>2, StandingStays
    <3>5. ASSUME NEW w \in WaiverOffers, SignWaiver(w) PROVE RiskInv'
      <4>1. /\ signed' = signed \cup {w} /\ taken' = NoLaneRecord
            /\ UNCHANGED <<attested, reviews, position, session, readings, laneTime, qualified>>
        BY <3>0, <3>5 DEF SignWaiver, governanceVars
      <4>2. LaneTypeOK' /\ GovernanceTypeOK'
        BY <4>1, TradingLaneAssumption DEF LaneTypeOK, GovernanceTypeOK, RiskInv
      <4> QED  BY <2>1, <3>0, <4>1, <4>2, StandingStays
    <3> QED  BY <2>3, <2>4, <3>0, <3>1, <3>2, <3>3, <3>4, <3>5 DEF LaneNext, SignOrWait
  <2>5. CASE running = "governance" /\ running' = running /\ GovernanceNext
    <3>1. ASSUME NEW form \in StepForms, SignStep(form) PROVE RiskInv'  BY <2>5, <3>1, SigningIsGoverned
    <3>2. ASSUME NEW case \in ExceptionCases, NEW steps \in SUBSET attested, ReviewException(case, steps)
          PROVE  RiskInv'
      BY <2>5, <3>2, ReviewsAreGoverned
    <3>3. ASSUME NEW question \in EngineQuestions, AskEngine(question), UNCHANGED governanceVars PROVE RiskInv'
      BY <2>5, <3>3, AnswersAreGoverned
    <3> QED  BY <2>3, <2>5, <3>1, <3>2, <3>3 DEF GovernanceNext
  <2> QED  BY <2>2, <2>4, <2>5 DEF GatesNext, gateVars
<1>3. RiskInv => LaneTypeOK /\ GovernanceTypeOK /\ RiskIsGoverned  BY DEF RiskInv
<1> QED  BY <1>1, <1>2, <1>3, PTL DEF GatesSpec

----------------------------------------------------------------------------
(* The policies side by side: what they keep is well formed, and what each of
   them promises holds whichever of them a behaviour runs. *)
THEOREM GatesKeepTheirWord ==
  GatesSpec => /\ [](/\ GatesTypeOK /\ EntriesRestOnEvidence /\ RunsAnswerForOneBatch /\ PassedPathsAreWhole
                     /\ AdvancesOnOneSymbol /\ SpendingIsGoverned /\ EvidencePrecedesTrading /\ RiskIsGoverned)
               /\ ContaminationIsFinal
<1>1. /\ EvaluationTypeOK /\ FundingTypeOK /\ RuntimeRecoveryTypeOK /\ AuthorityTypeOK /\ EvidenceTypeOK
      /\ SelectionTypeOK /\ LaneTypeOK /\ GovernanceTypeOK
      => GatesTypeOK
  BY DEF GatesTypeOK
<1> QED
  BY <1>1, GatesRunEach, RecoveryRestsOnEvidence, EvaluationRunsAnswer, EvaluationStaysContaminated,
     AuthorityPathsAreWhole, SelectionAdvances, FundingGoverns, EvidenceComesFirst, RiskStaysGoverned, PTL
=============================================================================
