------------------------ MODULE DependencyPropagation ------------------------
(***************************************************************************)
(* shared/policy/readiness_revocation.py: what becomes of a readiness      *)
(* record, and of the deployment running on it, when a release it depends  *)
(* on is quarantined, revoked or corrected, and the review that follows an *)
(* emergency withdrawal.                                                   *)
(*                                                                         *)
(* The module evaluates requests; the store that holds the record and the  *)
(* deployment is its caller's.  The caller modelled here applies a         *)
(* resulting state when the report says its transition is allowed.         *)
(***************************************************************************)
EXTENDS ReleaseGovernance

CONSTANTS
  Releases,      \* the releases the record depends on
  Corrections,   \* correction events that may come with a propagation
  NoCorrection,
  NoReport       \* nothing propagated yet

VARIABLES
  releaseState,   \* the lifecycle state of each release
  readiness,      \* the lifecycle state of the readiness record
  deployment,     \* the state of the deployment that runs on it
  propagation     \* the report of the last step, NoReport unless it propagated

propagationVars == <<releaseState, readiness, deployment, propagation>>

LiveStates == {"LIVE_ACTIVE", "LIVE_CANARY"}
Degraded == {"QUARANTINED", "REVOKED"}

PropagationInit ==
  /\ releaseState = [r \in Releases |-> "ACTIVE"]
  /\ readiness \in {"PAPER_ELIGIBLE", "LIVE_ELIGIBLE"}
  /\ deployment = IF readiness = "LIVE_ELIGIBLE" THEN "LIVE_CANARY" ELSE "PAPER_RUNNING"
  /\ propagation = NoReport

(* _resulting_state_for_dependency: the update that names this record, else
   the impact of the correction, else the state of the release. *)
ImpactGates(named, impact, state) ==
  <<Gate(named = "recertify", "RECERT_REQUIRED"),
    Gate(named = "quarantine", "SUSPECT"),
    Gate(named = "supersede", "REVOKED"),
    Gate(impact = "recert_required", "RECERT_REQUIRED"),
    Gate(impact = "suspect", "SUSPECT"),
    Gate(state = "QUARANTINED", "RECERT_REQUIRED"),
    Gate(state = "REVOKED", "SUSPECT")>>
ResultingState(correction, state, current) ==
  LET named == IF correction = NoCorrection THEN "none_named" ELSE correction.update
      impact == IF correction = NoCorrection THEN "none" ELSE correction.impact
  IN  FirstClosed(ImpactGates(named, impact, state), current)

(* Faulty variant: paper deployments alone are withdrawn. *)
WithdrawsPaperOnly(resulting, current, state, waived) ==
  IF state = "PAPER_RUNNING" /\ resulting # current THEN "withdraw_required" ELSE "none"

(* What a live deployment must do about it. *)
LiveAction(resulting, current, state, waived) ==
  IF state \in LiveStates /\ resulting # current
  THEN IF waived THEN "continue_with_reviewed_waiver" ELSE "withdraw_required"
  ELSE "none"

(* evaluate_dependency_propagation, and what its caller keeps. *)
Propagate(r, correction, waived) ==
  LET resulting == ResultingState(correction, releaseState[r], readiness)
      allowed == EvaluateTransition("bundle_readiness", readiness, resulting) = "TRANSITION_ALLOWED"
  IN  /\ readiness' = IF allowed THEN resulting ELSE readiness
      /\ propagation' =
           [release |-> r, state |-> releaseState[r], correction |-> correction, before |-> readiness,
            resulting |-> resulting, deployment |-> deployment, waived |-> waived,
            action |-> LiveAction(resulting, readiness, deployment, waived)]
      /\ UNCHANGED <<releaseState, deployment>>

(* Releases, the record and the deployment move through their machines. *)
MoveRelease(r, to, stamped) ==
  /\ EvaluateReleaseTransition("release_dataset", releaseState[r], to, stamped).status = "pass"
  /\ releaseState' = [releaseState EXCEPT ![r] = to]
  /\ propagation' = NoReport
  /\ UNCHANGED <<readiness, deployment>>

MoveReadiness(to) ==
  /\ EvaluateTransition("bundle_readiness", readiness, to) = "TRANSITION_ALLOWED"
  /\ readiness' = to
  /\ propagation' = NoReport
  /\ UNCHANGED <<releaseState, deployment>>

MoveDeployment(to) ==
  /\ EvaluateTransition("deployment_instance", deployment, to) = "TRANSITION_ALLOWED"
  /\ deployment' = to
  /\ propagation' = NoReport
  /\ UNCHANGED <<releaseState, readiness>>

(* evaluate_emergency_withdrawal_review: until a review is recorded with a
   decision the lifecycle admits, the record is suspect. *)
ReviewOutcome(decision, recorded) ==
  IF recorded /\ decision \in {readiness, "RECERT_REQUIRED", "SUSPECT", "REVOKED"}
  THEN decision ELSE "SUSPECT"

ReviewWithdrawal(decision, recorded) ==
  LET outcome == ReviewOutcome(decision, recorded)
  IN  /\ deployment = "WITHDRAWN"
      /\ readiness' = IF EvaluateTransition("bundle_readiness", readiness, outcome) = "TRANSITION_ALLOWED"
                      THEN outcome ELSE readiness
      /\ propagation' = NoReport
      /\ UNCHANGED <<releaseState, deployment>>

PropagationNext ==
  \/ \E r \in Releases, c \in Corrections \cup {NoCorrection}, waived \in BOOLEAN : Propagate(r, c, waived)
  \/ \E r \in Releases, to \in StatesOf("release_dataset"), stamped \in BOOLEAN : MoveRelease(r, to, stamped)
  \/ \E to \in StatesOf("bundle_readiness") : MoveReadiness(to)
  \/ \E to \in StatesOf("deployment_instance") : MoveDeployment(to)
  \/ \E to \in StatesOf("bundle_readiness"), recorded \in BOOLEAN : ReviewWithdrawal(to, recorded)

PropagationSpec == PropagationInit /\ [][PropagationNext]_propagationVars

----------------------------------------------------------------------------
(* The correction event with its updates: one that does not name the record
   asks something of another dependent. *)
CorrectionEvent(correction) ==
  [versionSupported |-> TRUE, fieldsComplete |-> TRUE, kind |-> "dataset_release",
   watermarkMoved |-> TRUE, priorReproducible |-> TRUE, namesSuccessor |-> TRUE,
   impact |-> correction.impact,
   updates |-> [d \in {"record"} |->
                  IF correction.update = "none_named" THEN CHOOSE a \in AllowedActions[correction.impact] : TRUE
                  ELSE correction.update]]

(* evaluate_release_correction classifies the event. *)
Classified(correction) == EvaluateCorrection(CorrectionEvent(correction)) = "POLICY_CLASSIFIED"

(* A fault of a dependency that finds a healthy record leaves it set back, for
   good if it was revoked, and a live deployment on it is told to withdraw
   unless the fault was waived: whether the fault is a quarantine, a revocation
   or a correction of material impact, and whether or not the correction names
   the record. *)
DegradationIsAnswered ==
  propagation # NoReport =>
    LET material == propagation.correction # NoCorrection
                    /\ Classified(propagation.correction)
                    /\ propagation.correction.impact \in {"recert_required", "suspect"}
        degraded == propagation.correction = NoCorrection /\ propagation.state \in Degraded
        healthy == propagation.before \notin Setbacks
    IN  (material \/ degraded) /\ healthy =>
          /\ propagation.resulting \in Setbacks
          /\ propagation.deployment \in LiveStates =>
               propagation.action = IF propagation.waived THEN "continue_with_reviewed_waiver"
                                    ELSE "withdraw_required"

(* A benign correction costs nobody a deployment while the release is sound. *)
NoAlarmWithoutCause ==
  (propagation # NoReport /\ propagation.action # "none") =>
    \/ propagation.state \in Degraded
    \/ propagation.correction # NoCorrection
       /\ ~(Classified(propagation.correction)
            /\ propagation.correction.impact \in {"none", "diagnostic_only"})

(* Every material fault of a dependency is answered, and nothing else is. *)
FaultsArePropagated == DegradationIsAnswered /\ NoAlarmWithoutCause

(* No live deployment continues through a degraded dependency without a
   reviewed waiver (the rule trace of every propagation report). *)
LiveNeedsWaiver ==
  (propagation # NoReport /\ propagation.state \in Degraded /\ propagation.deployment \in LiveStates)
    => propagation.waived \/ propagation.action = "withdraw_required"
=============================================================================
