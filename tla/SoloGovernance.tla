----------------------------- MODULE SoloGovernance ----------------------------
(***************************************************************************)
(* shared/policy/solo_governance.py beside the policy engine: one operator *)
(* signs attestation steps as time passes, presents some of them with a    *)
(* waiver or an incident, and the waiver of a review that passes is handed *)
(* to the engine.  The engine and the clock are those of TradingLane.      *)
(*                                                                         *)
(* Instants are compared as times; the source orders the steps by their    *)
(* text, which is the same for instants of one offset.                     *)
(***************************************************************************)
EXTENDS TradingLane

CONSTANTS
  Operator,            \* the operator of the requests
  StepForms,           \* [id, by, evidence]: the steps that may be signed
  ExceptionCases,      \* [live, waiver, incident]: the exceptions that may be presented
  CoolingOff,          \* minimum_cooling_off_minutes, in units of the clock
  MaxSteps

(* evidence: the step names a checklist, its digest, a signature, controls and a rationale *)
SelfAttestationStep == [id : STRING, by : STRING, evidence : BOOLEAN, signedAt : Nat]
GovernanceWaiverRecord == [filled : BOOLEAN, issued : Nat, policy : PolicyWaiver]
GovernanceIncidentRecord ==
  [filled : BOOLEAN, opened : Nat, due : Nat, closed : Nat \cup {NoLaneRecord}, summary : BOOLEAN]

ExceptionCase ==
  [live : BOOLEAN, waiver : GovernanceWaiverRecord \cup {NoLaneRecord},
   incident : GovernanceIncidentRecord \cup {NoLaneRecord}]

(* to_policy_waiver *)
ToPolicyWaiver(w) == w.policy

(* SG01: two steps or more, no id twice, all by the operator *)
AttestationStepsCheck(q) ==
  LET ids == {s.id : s \in q.steps}
  IN  IF Cardinality(q.steps) >= 2 /\ Cardinality(ids) = Cardinality(q.steps) /\ \A s \in q.steps : s.by = Operator
      THEN "pass" ELSE "invalid"

(* Faulty variant: the wait counted up to the review, not to the last step. *)
WaitedForTheReview(q) == IF Cardinality(q.steps) < 2 THEN 0 ELSE q.now - Min({s.signedAt : s \in q.steps})

(* SG02: from the first step to the last *)
CoolingOffObserved(q) ==
  LET instants == {s.signedAt : s \in q.steps}
  IN  IF Cardinality(q.steps) < 2 THEN 0 ELSE Max(instants) - Min(instants)
CoolingOffCheck(q) == IF CoolingOffObserved(q) >= CoolingOff THEN "pass" ELSE "violation"

(* SG03 *)
SignedChecklistsCheck(q) == IF \A s \in q.steps : s.evidence THEN "pass" ELSE "invalid"

(* SG04: a waiver or an incident, not both, and one of them for a live exception *)
GovernancePath(q) ==
  FirstClosed(<<Gate(q.waiver # NoLaneRecord /\ q.incident # NoLaneRecord, "conflict"),
                Gate(q.waiver # NoLaneRecord, "waiver"), Gate(q.incident # NoLaneRecord, "incident")>>, "none")
ExceptionCaptureCheck(q) ==
  IF GovernancePath(q) # "conflict" /\ (q.live => GovernancePath(q) # "none") THEN "pass" ELSE "violation"

(* SG05 *)
WaiverCheck(q) ==
  IF q.waiver = NoLaneRecord THEN "pass"
  ELSE FirstClosed(<<Gate(~q.waiver.filled \/ q.waiver.policy.expires <= q.waiver.issued, "invalid"),
                     Gate(q.now > q.waiver.policy.expires, "violation")>>, "pass")

(* SG06 *)
IncidentClosureCheck(q) ==
  IF q.incident = NoLaneRecord THEN "pass"
  ELSE FirstClosed(<<Gate(~q.incident.filled \/ q.incident.due < q.incident.opened, "invalid"),
                     Gate(q.incident.closed = NoLaneRecord \/ ~q.incident.summary, "violation")>>,
                   IF q.incident.closed < q.incident.opened THEN "invalid" ELSE "pass")

(* evaluate_solo_governance: every check is made, and an invalid one speaks first. *)
EvaluateSoloGovernance(q) ==
  LET answers == {AttestationStepsCheck(q), CoolingOffCheck(q), SignedChecklistsCheck(q), ExceptionCaptureCheck(q),
                  WaiverCheck(q), IncidentClosureCheck(q)}
  IN  FirstClosed(<<Gate("invalid" \in answers, "invalid"), Gate("violation" \in answers, "violation")>>, "pass")

ASSUME SoloGovernanceAssumption ==
  /\ {CoolingOff, MaxSteps} \subseteq Nat /\ StepForms \subseteq [id : STRING, by : STRING, evidence : BOOLEAN]
  /\ ExceptionCases \subseteq ExceptionCase
  /\ \A c \in ExceptionCases : c.waiver # NoLaneRecord => c.waiver.policy.expires # NoExpiry
----------------------------------------------------------------------------
VARIABLES
  attested,   \* the steps signed so far
  reviews     \* the reviews that handed a waiver to the engine

governanceVars == <<attested, reviews>>

GovernanceInit == attested = {} /\ reviews = {}

SignStep(form) ==
  /\ Cardinality(attested) < MaxSteps
  /\ attested' = attested \cup {[id |-> form.id, by |-> form.by, evidence |-> form.evidence, signedAt |-> laneTime]}
  /\ taken' = NoLaneRecord
  /\ UNCHANGED <<position, session, readings, laneTime, signed, qualified, reviews>>

(* The operator presents the steps of their choice, and the engine gets the
   waiver of a review that passed. *)
ReviewException(case, steps) ==
  LET q == [live |-> case.live, waiver |-> case.waiver, incident |-> case.incident, now |-> laneTime, steps |-> steps]
      handed == EvaluateSoloGovernance(q) = "pass" /\ case.waiver # NoLaneRecord
  IN  /\ reviews' = IF handed THEN reviews \cup {[waiver |-> case.waiver, at |-> laneTime]} ELSE reviews
      /\ signed' = IF handed THEN signed \cup {ToPolicyWaiver(case.waiver)} ELSE signed
      /\ taken' = NoLaneRecord
      /\ UNCHANGED <<position, session, readings, laneTime, qualified, attested>>

GovernanceNext ==
  \/ \E form \in StepForms : SignStep(form)
  \/ \E case \in ExceptionCases, steps \in SUBSET attested : ReviewException(case, steps)
  \/ /\ PassLaneTime \/ \E question \in EngineQuestions : AskEngine(question)
     /\ UNCHANGED governanceVars

(* The lane and the reviews of its exceptions share the waivers and the clock. *)
GovernedLaneSpec ==
  /\ LaneInit /\ GovernanceInit
  /\ [][(LaneNext /\ UNCHANGED governanceVars) \/ GovernanceNext]_<<laneVars, governanceVars>>

GovernanceTypeOK ==
  /\ attested \subseteq SelfAttestationStep /\ Cardinality(attested) <= MaxSteps
  /\ reviews \subseteq [waiver : {c.waiver : c \in ExceptionCases} \ {NoLaneRecord}, at : 0..laneTime]

----------------------------------------------------------------------------
(* Between them the review and the engine let no exception through on one sitting:
   when the engine waives a failing rule, the operator had signed two steps a
   cooling-off apart before the review that handed it the waiver, the waiver was in
   force at that review, and it still is; and consent to risk covers what was asked. *)
TwiceAttested(review) ==
  \E s, t \in attested : /\ s.id # t.id /\ {s.by, t.by} = {Operator} /\ s.evidence /\ t.evidence
                         /\ t.signedAt >= s.signedAt + CoolingOff /\ t.signedAt <= review.at
ExceptionsAreGoverned ==
  taken # NoLaneRecord /\ taken.kind = "decision" /\ taken.answer # "block" =>
    \A rule \in {r \in RulesOf(taken.category, taken.about) : ~r.passed} :
      \E review \in reviews :
        /\ TwiceAttested(review)
        /\ review.waiver.issued < review.waiver.policy.expires
        /\ review.at <= review.waiver.policy.expires /\ laneTime <= review.waiver.policy.expires
        /\ Matches(review.waiver.policy, taken.category, rule.id, rule.reason, laneTime)
RiskIsGoverned == RiskIsPermitted /\ ExceptionsAreGoverned
=============================================================================
