-------------------------- MODULE LifecycleMachines --------------------------
(***************************************************************************)
(* shared/policy/lifecycle_specs.py: the catalog of lifecycle state        *)
(* machines and the evaluator of transitions, with the second catalog that *)
(* shared/policy/lifecycle_compatibility.py builds on the same tables.     *)
(*                                                                         *)
(* One subject walks through the machine it belongs to: every transition   *)
(* requested is evaluated, and applied when it passes.                     *)
(***************************************************************************)
EXTENDS Integers, Sequences, GateChain

CONSTANTS
  NoSubject   \* no record created yet

----------------------------------------------------------------------------
DatasetTransitions ==
  [DRAFT       |-> {"STAGING", "CERTIFIED", "REVOKED"},
   STAGING     |-> {"CERTIFIED", "QUARANTINED", "REVOKED"},
   CERTIFIED   |-> {"APPROVED", "QUARANTINED", "REVOKED"},
   APPROVED    |-> {"ACTIVE", "QUARANTINED", "REVOKED"},
   ACTIVE      |-> {"SUPERSEDED", "QUARANTINED", "REVOKED"},
   SUPERSEDED  |-> {"QUARANTINED", "REVOKED"},
   QUARANTINED |-> {"APPROVED", "ACTIVE", "SUPERSEDED", "REVOKED"},
   REVOKED     |-> {}]

DerivedTransitions ==
  [DRAFT       |-> {"CERTIFIED", "REVOKED"},
   CERTIFIED   |-> {"APPROVED", "QUARANTINED", "REVOKED"},
   APPROVED    |-> {"ACTIVE", "QUARANTINED", "REVOKED"},
   ACTIVE      |-> {"SUPERSEDED", "QUARANTINED", "REVOKED"},
   SUPERSEDED  |-> {"QUARANTINED", "REVOKED"},
   QUARANTINED |-> {"APPROVED", "ACTIVE", "SUPERSEDED", "REVOKED"},
   REVOKED     |-> {}]

(* The promotion ladder: every rung leads to the next, and any rung may fall
   back or be revoked. *)
Setbacks == {"RECERT_REQUIRED", "SUSPECT", "REVOKED"}

(* Faulty variant: recertification may resume at the paper rung. *)
ResumesAtPaper ==
  [FROZEN              |-> {"PORTABILITY_PENDING"} \cup Setbacks,
   PORTABILITY_PENDING |-> {"PORTABILITY_PASSED"} \cup Setbacks,
   PORTABILITY_PASSED  |-> {"REPLAY_PENDING"} \cup Setbacks,
   REPLAY_PENDING      |-> {"REPLAY_PASSED"} \cup Setbacks,
   REPLAY_PASSED       |-> {"PAPER_ELIGIBLE"} \cup Setbacks,
   PAPER_ELIGIBLE      |-> {"PAPER_PASSED"} \cup Setbacks,
   PAPER_PASSED        |-> {"SHADOW_ELIGIBLE"} \cup Setbacks,
   SHADOW_ELIGIBLE     |-> {"SHADOW_PASSED"} \cup Setbacks,
   SHADOW_PASSED       |-> {"LIVE_ELIGIBLE"} \cup Setbacks,
   LIVE_ELIGIBLE       |-> Setbacks,
   RECERT_REQUIRED     |-> {"PORTABILITY_PENDING", "PAPER_ELIGIBLE", "SUSPECT", "REVOKED"},
   SUSPECT             |-> {"RECERT_REQUIRED", "REVOKED"},
   REVOKED             |-> {}]

ReadinessTransitions ==
  [FROZEN              |-> {"PORTABILITY_PENDING"} \cup Setbacks,
   PORTABILITY_PENDING |-> {"PORTABILITY_PASSED"} \cup Setbacks,
   PORTABILITY_PASSED  |-> {"REPLAY_PENDING"} \cup Setbacks,
   REPLAY_PENDING      |-> {"REPLAY_PASSED"} \cup Setbacks,
   REPLAY_PASSED       |-> {"PAPER_ELIGIBLE"} \cup Setbacks,
   PAPER_ELIGIBLE      |-> {"PAPER_PASSED"} \cup Setbacks,
   PAPER_PASSED        |-> {"SHADOW_ELIGIBLE"} \cup Setbacks,
   SHADOW_ELIGIBLE     |-> {"SHADOW_PASSED"} \cup Setbacks,
   SHADOW_PASSED       |-> {"LIVE_ELIGIBLE"} \cup Setbacks,
   LIVE_ELIGIBLE       |-> Setbacks,
   RECERT_REQUIRED     |-> {"PORTABILITY_PENDING", "REPLAY_PENDING", "SUSPECT", "REVOKED"},
   SUSPECT             |-> {"RECERT_REQUIRED", "REVOKED"},
   REVOKED             |-> {}]

DeploymentTransitions ==
  [PAPER_PENDING  |-> {"PAPER_RUNNING", "WITHDRAWN", "CLOSED"},
   PAPER_RUNNING  |-> {"WITHDRAWN", "CLOSED"},
   SHADOW_PENDING |-> {"SHADOW_RUNNING", "WITHDRAWN", "CLOSED"},
   SHADOW_RUNNING |-> {"WITHDRAWN", "CLOSED"},
   LIVE_CANARY    |-> {"LIVE_ACTIVE", "WITHDRAWN", "CLOSED"},
   LIVE_ACTIVE    |-> {"WITHDRAWN", "CLOSED"},
   WITHDRAWN      |-> {"CLOSED"},
   CLOSED         |-> {}]

RunTransitions ==
  [recorded    |-> {"superseded", "quarantined", "revoked"},
   superseded  |-> {},
   quarantined |-> {"revoked"},
   revoked     |-> {}]

DecisionTransitions ==
  [active |-> {"superseded", "expired"}, superseded |-> {}, expired |-> {}]

(* The states that carry a tag: what a readiness record must retain, and the
   deployments that run. *)
ApprovalRequired ==
  {"PORTABILITY_PASSED", "REPLAY_PASSED", "PAPER_ELIGIBLE", "PAPER_PASSED",
   "SHADOW_ELIGIBLE", "SHADOW_PASSED", "LIVE_ELIGIBLE"}
FreshnessRequired == ApprovalRequired \ {"PORTABILITY_PASSED", "REPLAY_PASSED"}
RuntimeActive == {"PAPER_RUNNING", "SHADOW_RUNNING", "LIVE_CANARY", "LIVE_ACTIVE"}

CompatibilityDomains ==
  {"data_protocol", "strategy_protocol", "ops_protocol",
   "policy_bundle_hash", "compatibility_matrix_version"}

(* Each machine with its initial and terminal states, and the domains that
   the second catalog ties to its transitions. *)
Machines ==
  [release_dataset |-> [initial |-> "DRAFT", terminal |-> {"REVOKED"}, next |-> DatasetTransitions,
     domains |-> CompatibilityDomains \ {"strategy_protocol", "ops_protocol"}],
   release_derived |-> [initial |-> "DRAFT", terminal |-> {"REVOKED"}, next |-> DerivedTransitions,
     domains |-> CompatibilityDomains \ {"ops_protocol"}],
   bundle_readiness |-> [initial |-> "FROZEN", terminal |-> {"REVOKED"}, next |-> ReadinessTransitions,
     domains |-> CompatibilityDomains],
   deployment_instance |-> [initial |-> "PAPER_PENDING", terminal |-> {"CLOSED"},
     next |-> DeploymentTransitions, domains |-> CompatibilityDomains],
   research_run |-> [initial |-> "recorded", terminal |-> {"superseded", "revoked"}, next |-> RunTransitions,
     domains |-> {"data_protocol", "strategy_protocol", "policy_bundle_hash"}],
   family_decision |-> [initial |-> "active", terminal |-> {"superseded", "expired"},
     next |-> DecisionTransitions, domains |-> {"strategy_protocol", "policy_bundle_hash"}]]

(* The second catalog calls a withdrawn deployment terminal too, which it may still
   close: there, terminal only means a state of the machine. *)
CompatibilityTerminals(m) ==
  Machines[m].terminal \cup IF m = "deployment_instance" THEN {"WITHDRAWN"} ELSE {}

(* validate_contract of either catalog *)
MachineIsWellFormed(m) ==
  LET next == Machines[m].next
  IN  /\ {Machines[m].initial} \cup Machines[m].terminal \subseteq DOMAIN next
      /\ \A s \in DOMAIN next : next[s] \subseteq DOMAIN next
      /\ \A s \in Machines[m].terminal : next[s] = {}
      /\ CompatibilityTerminals(m) \subseteq DOMAIN next
      /\ Machines[m].domains \subseteq CompatibilityDomains

----------------------------------------------------------------------------
StatesOf(m) == IF m \in DOMAIN Machines THEN DOMAIN Machines[m].next ELSE {}
NextStates(m, s) == IF s \in StatesOf(m) THEN Machines[m].next[s] ELSE {}

(* evaluate_transition, by its reason code *)
TransitionGates(m, from, to) ==
  <<Gate(m \notin DOMAIN Machines, "UNKNOWN_MACHINE"),
    Gate(~({from, to} \subseteq StatesOf(m)), "UNKNOWN_STATE"),
    Gate(from = to, "NO_STATE_CHANGE"),
    Gate(to \notin NextStates(m, from), "TRANSITION_NOT_ALLOWED")>>
EvaluateTransition(m, from, to) == FirstClosed(TransitionGates(m, from, to), "TRANSITION_ALLOWED")

(* evaluate_lifecycle_transition of the second catalog: its status, and the
   domains the report names as affected. *)
EvaluateLifecycleTransition(m, from, to) ==
  LET outcome == EvaluateTransition(m, from, to)
  IN  [status |-> CASE outcome = "TRANSITION_ALLOWED" -> "pass"
                    [] outcome = "TRANSITION_NOT_ALLOWED" -> "violation"
                    [] OTHER -> "invalid",
       affected |-> IF m \in DOMAIN Machines THEN Machines[m].domains ELSE {}]

----------------------------------------------------------------------------
VARIABLE subject   \* its machine, state, and the states passed through since
                   \* it was created or last fell back
SubjectInit == subject = NoSubject

CreateSubject(m) ==
  /\ subject = NoSubject
  /\ subject' = [machine |-> m, state |-> Machines[m].initial, passed |-> {Machines[m].initial}]

MoveSubject(to) ==
  /\ subject # NoSubject
  /\ EvaluateLifecycleTransition(subject.machine, subject.state, to).status = "pass"
  /\ subject' = [subject EXCEPT !.state = to,
                   !.passed = IF to \in Setbacks THEN {to} ELSE @ \cup {to}]

SubjectNext ==
  \/ \E m \in DOMAIN Machines : CreateSubject(m)
  \/ \E m \in DOMAIN Machines : \E to \in StatesOf(m) : MoveSubject(to)

SubjectSpec == SubjectInit /\ [][SubjectNext]_subject

(* The rungs from replay up.  Portability is not among them: a recertification may
   resume at replay. *)
ReplayLadder ==
  <<"REPLAY_PENDING", "REPLAY_PASSED", "PAPER_ELIGIBLE", "PAPER_PASSED", "SHADOW_ELIGIBLE",
    "SHADOW_PASSED", "LIVE_ELIGIBLE">>

(* Wherever a bundle stands on the ladder, it was on every rung from replay up to
   that one since it last fell back: no rung, of replay, paper or shadow, is
   inherited across a recertification. *)
LadderIsClimbedAgain ==
  subject # NoSubject /\ subject.machine = "bundle_readiness" =>
    \A n \in DOMAIN ReplayLadder :
      subject.state = ReplayLadder[n] => {ReplayLadder[k] : k \in 1..n} \subseteq subject.passed
=============================================================================
