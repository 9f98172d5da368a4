---------------------------- MODULE ResearchState ----------------------------
(***************************************************************************)
(* shared/policy/research_state.py: the store of research runs, family     *)
(* decisions and the audit log of every attempt to change them.            *)
(*                                                                         *)
(* A record is submitted with any lifecycle state and any references; the  *)
(* digests, seeds, reasons and attestations it must carry are abstracted   *)
(* to whether they are there.                                              *)
(***************************************************************************)
EXTENDS LifecycleMachines, SequencesExt

CONSTANTS
  Runs, Families, DecisionIds,     \* identifiers
  RunSubmissions,                \* the runs submitted
  DecisionSubmissions,           \* the decisions submitted
  NotRecorded,
  MaxAudit                       \* bound: attempts made

RunLifecycle == {"recorded", "superseded", "quarantined", "revoked"}
DecisionLifecycle == {"active", "superseded", "expired"}

ResearchRunRecord ==
  [id : Runs, family : Families, parents : Seq(Runs), state : RunLifecycle,
   seeds : BOOLEAN, outputs : BOOLEAN, codeDigests : BOOLEAN]

FamilyDecisionRecord ==
  [id : DecisionIds, family : Families, evidence : Seq(Runs), state : DecisionLifecycle,
   attested : BOOLEAN, reasons : BOOLEAN,
   type : {"continue", "pause", "pivot", "terminate"}, budget : Nat, revisit : BOOLEAN]

ASSUME ResearchAssumption ==
  /\ RunSubmissions \subseteq ResearchRunRecord
  /\ DecisionSubmissions \subseteq FamilyDecisionRecord
  /\ NotRecorded \notin ResearchRunRecord \cup FamilyDecisionRecord
  /\ MaxAudit \in Nat

VARIABLES
  researchRuns,      \* the run recorded under each id, or NotRecorded
  familyDecisions,   \* the decision recorded under each id, or NotRecorded
  auditLog           \* one event per attempt, refused ones included

researchVars == <<researchRuns, familyDecisions, auditLog>>

ResearchInit ==
  /\ researchRuns = [r \in Runs |-> NotRecorded]
  /\ familyDecisions = [d \in DecisionIds |-> NotRecorded]
  /\ auditLog = <<>>

----------------------------------------------------------------------------
AuditEvent(type, id, operation, reason, previous, next) ==
  [type |-> type, id |-> id, operation |-> operation, reason |-> reason, previous |-> previous, next |-> next]

Applied == {"RECORDED", "TRANSITION_APPLIED"}

(* The first parent that is missing, or of another family. *)
ParentReason(r) ==
  LET unfit == {i \in DOMAIN r.parents : \/ researchRuns[r.parents[i]] = NotRecorded
                                         \/ researchRuns[r.parents[i]].family # r.family}
  IN  IF unfit = {} THEN "none"
      ELSE IF researchRuns[r.parents[Earliest(unfit)]] = NotRecorded THEN "PARENT_MISSING"
      ELSE "PARENT_FOREIGN_FAMILY"

(* _validate_parent_runs, behind the check for a duplicate id *)
RunReason(r) ==
  FirstClosed(<<Gate(researchRuns[r.id] # NotRecorded, "DUPLICATE_ID"),
                Gate(~r.seeds, "MISSING_SEEDS"),
                Gate(~r.outputs, "MISSING_OUTPUT_ARTIFACTS"),
                Gate(~r.codeDigests, "MISSING_CODE_DIGESTS"),
                Gate(ParentReason(r) # "none", ParentReason(r))>>,
              "RECORDED")

(* _evidence_chain_report over the runs as they are now *)
EvidenceReason(family, evidence) ==
  LET missing == \E i \in DOMAIN evidence : researchRuns[evidence[i]] = NotRecorded
      foreign == \E i \in DOMAIN evidence :
                   /\ researchRuns[evidence[i]] # NotRecorded
                   /\ researchRuns[evidence[i]].family # family
      repeated == \E i, j \in DOMAIN evidence : i # j /\ evidence[i] = evidence[j]
  IN  FirstClosed(<<Gate(missing, "EVIDENCE_RUN_MISSING"), Gate(foreign, "EVIDENCE_FOREIGN_FAMILY"),
                    Gate(repeated, "EVIDENCE_DUPLICATE_REFERENCE")>>, "EVIDENCE_CHAIN_VALID")

(* Faulty variant: the evidence chain is not looked at. *)
UncheckedEvidence(d) ==
  FirstClosed(<<Gate(familyDecisions[d.id] # NotRecorded, "DUPLICATE_ID"),
                Gate(d.evidence = <<>>, "MISSING_EVIDENCE")>>, "RECORDED")

(* _validate_decision_policy, behind the check for a duplicate id *)
DecisionReason(d) ==
  FirstClosed(<<Gate(familyDecisions[d.id] # NotRecorded, "DUPLICATE_ID"),
                Gate(d.evidence = <<>>, "MISSING_EVIDENCE"),
                Gate(~d.attested, "MISSING_ATTESTATION"),
                Gate(~d.reasons, "MISSING_REASON_BUNDLE"),
                Gate(d.type = "terminate" /\ d.budget # 0, "TERMINATE_REQUIRES_ZERO_BUDGET"),
                Gate(d.type # "terminate" /\ d.budget = 0, "NON_TERMINAL_REQUIRES_BUDGET"),
                Gate(d.type = "pause" /\ ~d.revisit, "PAUSE_REQUIRES_REVISIT"),
                Gate(EvidenceReason(d.family, d.evidence) # "EVIDENCE_CHAIN_VALID",
                     EvidenceReason(d.family, d.evidence))>>,
              "RECORDED")

(* Whether a record in this state may move there. *)
TransitionReason(record, transitions, to) ==
  FirstClosed(<<Gate(record = NotRecorded, "NOT_FOUND"),
                Gate(record # NotRecorded /\ to \notin transitions[record.state], "INVALID_TRANSITION")>>,
              "TRANSITION_APPLIED")

----------------------------------------------------------------------------
Audit(event) == auditLog' = Append(auditLog, event)
MayAttempt == Len(auditLog) < MaxAudit

RecordResearchRun(r) ==
  /\ MayAttempt
  /\ researchRuns' = IF RunReason(r) = "RECORDED" THEN [researchRuns EXCEPT ![r.id] = r] ELSE researchRuns
  /\ Audit(AuditEvent("research_run", r.id, "create", RunReason(r), "none", r.state))
  /\ UNCHANGED familyDecisions

(* Faulty variant: a refused transition is logged as applied. *)
LogsRefusedAsApplied(id, to) ==
  /\ MayAttempt
  /\ researchRuns' = IF TransitionReason(researchRuns[id], RunTransitions, to) = "TRANSITION_APPLIED"
                     THEN [researchRuns EXCEPT ![id].state = to] ELSE researchRuns
  /\ Audit(AuditEvent("research_run", id, "transition", "TRANSITION_APPLIED", "none", to))
  /\ UNCHANGED familyDecisions

TransitionResearchRun(id, to) ==
  LET reason == TransitionReason(researchRuns[id], RunTransitions, to)
      previous == IF researchRuns[id] = NotRecorded THEN "none" ELSE researchRuns[id].state
  IN  /\ MayAttempt
      /\ researchRuns' = IF reason = "TRANSITION_APPLIED"
                         THEN [researchRuns EXCEPT ![id].state = to] ELSE researchRuns
      /\ Audit(AuditEvent("research_run", id, "transition", reason, previous, to))
      /\ UNCHANGED familyDecisions

RecordFamilyDecision(d) ==
  /\ MayAttempt
  /\ familyDecisions' = IF DecisionReason(d) = "RECORDED" THEN [familyDecisions EXCEPT ![d.id] = d]
                        ELSE familyDecisions
  /\ Audit(AuditEvent("family_decision", d.id, "create", DecisionReason(d), "none", d.state))
  /\ UNCHANGED researchRuns

TransitionFamilyDecision(id, to) ==
  LET reason == TransitionReason(familyDecisions[id], DecisionTransitions, to)
      previous == IF familyDecisions[id] = NotRecorded THEN "none" ELSE familyDecisions[id].state
  IN  /\ MayAttempt
      /\ familyDecisions' = IF reason = "TRANSITION_APPLIED"
                            THEN [familyDecisions EXCEPT ![id].state = to] ELSE familyDecisions
      /\ Audit(AuditEvent("family_decision", id, "transition", reason, previous, to))
      /\ UNCHANGED researchRuns

ResearchNext ==
  \/ \E r \in RunSubmissions : RecordResearchRun(r)
  \/ \E id \in Runs, to \in RunLifecycle : TransitionResearchRun(id, to)
  \/ \E d \in DecisionSubmissions : RecordFamilyDecision(d)
  \/ \E id \in DecisionIds, to \in DecisionLifecycle : TransitionFamilyDecision(id, to)

ResearchSpec == ResearchInit /\ [][ResearchNext]_researchVars

----------------------------------------------------------------------------
RecordedRuns == {r \in Runs : researchRuns[r] # NotRecorded}
RecordedDecisions == {d \in DecisionIds : familyDecisions[d] # NotRecorded}

ResearchTypeOK ==
  /\ researchRuns \in [Runs -> ResearchRunRecord \cup {NotRecorded}]
  /\ familyDecisions \in [DecisionIds -> FamilyDecisionRecord \cup {NotRecorded}]

(* Every reference resolves for ever: the parents of a recorded run are
   recorded runs of its family, and the evidence of a recorded decision is
   still a valid chain, whatever has happened to those runs since
   (validate_decision_evidence_chain answers pass at any later time). *)
LineageResolves ==
  \A r \in RecordedRuns : \A i \in DOMAIN researchRuns[r].parents :
    LET p == researchRuns[r].parents[i]
    IN  p \in RecordedRuns /\ researchRuns[p].family = researchRuns[r].family

EvidenceResolves ==
  \A d \in RecordedDecisions :
    EvidenceReason(familyDecisions[d].family, familyDecisions[d].evidence) = "EVIDENCE_CHAIN_VALID"

ReferencesResolve == LineageResolves /\ EvidenceResolves

(* audit_events_for_record, of the events that were applied: their positions. *)
AppliedTo(log, type, id) ==
  {n \in DOMAIN log : log[n].type = type /\ log[n].id = id /\ log[n].reason \in Applied}

(* What the events applied to a record tell of it: nothing is recorded before the
   first, and its state is the one the last of them names. *)
Rebuilds(log, type, id, record) ==
  LET applied == AppliedTo(log, type, id)
  IN  IF applied = {} THEN record = NotRecorded
      ELSE record # NotRecorded /\ record.state = log[Max(applied)].next

(* The audit log alone rebuilds the store: what is recorded, and the state of
   each record, are those of the last event that was applied to it. *)
AuditRebuildsTheStore ==
  /\ \A r \in Runs : Rebuilds(auditLog, "research_run", r, researchRuns[r])
  /\ \A d \in DecisionIds : Rebuilds(auditLog, "family_decision", d, familyDecisions[d])
=============================================================================
