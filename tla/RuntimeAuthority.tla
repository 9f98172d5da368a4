---------------------------- MODULE RuntimeAuthority ----------------------------
(***************************************************************************)
(* shared/policy/operational_runtime.py: which module owns a state         *)
(* surface, which may take a control action, and when the trace of a       *)
(* supervision path is whole.                                              *)
(*                                                                         *)
(* The evaluators keep nothing.  The runtime modelled here asks before it  *)
(* acts and acts later: between the two the reserved lane may fill up, and *)
(* the event of the action tells which lane it really took.                *)
(***************************************************************************)
EXTENDS Naturals, Sequences, SequencesExt, FiniteSets, GateChain

CONSTANTS
  Labels,          \* [correlation, decision, artifact] an event may carry
  Reporters,       \* modules that report without acting
  RequiredPaths,   \* the sets of processes a supervision path may require
  MaxPathEvents    \* bound: events of a path

----------------------------------------------------------------------------
(* The process of each module: opsd runs the first seven of them. *)
OpsdModules == {"market_data", "strategy_runner", "risk", "broker", "state_store", "reconciliation", "ops_http"}
RuntimeModules == OpsdModules \cup {"guardian", "watchdog", "broker_gateway"}
ModuleProcess == [m \in RuntimeModules |-> IF m \in OpsdModules THEN "opsd" ELSE m]

ASSUME RuntimeAuthorityAssumption ==
  /\ MaxPathEvents \in Nat /\ Reporters \subseteq RuntimeModules
  /\ Labels \subseteq [correlation : Nat, decision : Nat, artifact : BOOLEAN]

StateOwnership ==
  [normalized_market_state |-> "market_data", bundle_decision_state |-> "strategy_runner",
   trading_eligibility_state |-> "risk", exposure_state |-> "risk", orders |-> "broker", positions |-> "broker",
   fills |-> "broker", order_intent_mappings |-> "broker", broker_session_state |-> "broker",
   readiness_state |-> "reconciliation", reconciliation_state |-> "reconciliation",
   snapshot_storage |-> "state_store", append_only_journal |-> "state_store", control_action_evidence |-> "guardian"]

ActionOwners ==
  [halt_new_orders |-> "risk", assert_kill_switch |-> "risk", cancel_open_orders |-> "broker",
   flatten_positions |-> "broker", mark_session_not_ready |-> "reconciliation",
   publish_session_readiness_packet |-> "reconciliation", emergency_cancel_open_orders |-> "guardian",
   emergency_flatten_positions |-> "guardian", restart_opsd |-> "watchdog", restart_guardian |-> "watchdog",
   restart_broker_gateway |-> "watchdog"]
ControlActions == DOMAIN ActionOwners

EmergencyActions == {"emergency_cancel_open_orders", "emergency_flatten_positions"}
HighPriorityActions ==
  EmergencyActions \cup {"cancel_open_orders", "flatten_positions", "mark_session_not_ready",
                         "publish_session_readiness_packet"}

(* evaluate_state_ownership *)
EvaluateStateOwnership(surface, claimant) == IF claimant = StateOwnership[surface] THEN "pass" ELSE "violation"

(* evaluate_control_action_authority *)
EvaluateAuthority(q) ==
  FirstClosed(<<Gate(q.by # ActionOwners[q.action], "violation"),
                Gate(q.action \in EmergencyActions /\ ~q.token, "violation"),
                Gate(q.action \in EmergencyActions /\ ~q.connectivity, "violation"),
                Gate(q.action \in HighPriorityActions /\ ~q.lane, "violation")>>, "pass")

RuntimeTraceEvent ==
  [module : RuntimeModules, action : ControlActions \cup {"none"}, label : Labels, lane : BOOLEAN]
ObservedProcesses(events) == {ModuleProcess[events[i].module] : i \in DOMAIN events}

(* Faulty variant: the lane an event took is not looked at. *)
LaneTakenOnTrust(events, required) ==
  FirstClosed(<<Gate(events = <<>>, "invalid"),
                Gate(~(required \subseteq ObservedProcesses(events)), "violation"),
                Gate(\E i, j \in DOMAIN events : events[i].label.correlation # events[j].label.correlation, "violation"),
                Gate(\E i, j \in DOMAIN events : events[i].label.decision # events[j].label.decision, "violation"),
                Gate(\E i \in DOMAIN events : ~events[i].label.artifact, "invalid")>>, "pass")

(* validate_supervision_trace_bundle: who took an action is not compared with its owner. *)
EvaluateTrace(events, required) ==
  FirstClosed(<<Gate(events = <<>>, "invalid"),
                Gate(~(required \subseteq ObservedProcesses(events)), "violation"),
                Gate(\E i, j \in DOMAIN events : events[i].label.correlation # events[j].label.correlation, "violation"),
                Gate(\E i, j \in DOMAIN events : events[i].label.decision # events[j].label.decision, "violation"),
                Gate(\E i \in DOMAIN events : ~events[i].label.artifact, "invalid"),
                Gate(\E i \in DOMAIN events : events[i].action \in HighPriorityActions /\ ~events[i].lane, "violation")>>,
              "pass")

----------------------------------------------------------------------------
VARIABLES
  laneOpen,   \* the reserved lane has room
  granted,    \* the authorised actions not yet taken, with the module that asked
  path,       \* the events of the supervision path
  pathAnswer  \* the answer about the path, and what was required of it

authorityVars == <<laneOpen, granted, path, pathAnswer>>

AuthorityInit ==
  /\ laneOpen = TRUE /\ granted = {} /\ path = <<>>
  /\ pathAnswer = [status |-> "none", required |-> {}]

Recorded(event) ==
  /\ pathAnswer.status = "none" /\ Len(path) < MaxPathEvents
  /\ path' = Append(path, event)

ShiftLane ==
  /\ pathAnswer.status = "none"
  /\ laneOpen' = ~laneOpen
  /\ UNCHANGED <<granted, path, pathAnswer>>

AskAuthority(action, by, token, connectivity) ==
  LET q == [action |-> action, by |-> by, token |-> token, connectivity |-> connectivity, lane |-> laneOpen]
  IN  /\ granted = {} /\ Len(path) < MaxPathEvents /\ pathAnswer.status = "none" /\ EvaluateAuthority(q) = "pass"
      /\ granted' = {[action |-> action, by |-> by]}
      /\ UNCHANGED <<laneOpen, path, pathAnswer>>

(* The action is taken on the lane that is there now. *)
Act(g, label) ==
  /\ Recorded([module |-> g.by, action |-> g.action, label |-> label, lane |-> laneOpen])
  /\ granted' = granted \ {g}
  /\ UNCHANGED <<laneOpen, pathAnswer>>

(* A module reports without acting, or writes a surface it owns. *)
Report(m, label) ==
  /\ Recorded([module |-> m, action |-> "none", label |-> label, lane |-> FALSE])
  /\ UNCHANGED <<laneOpen, granted, pathAnswer>>

WriteSurface(surface, claimant, label) ==
  /\ EvaluateStateOwnership(surface, claimant) = "pass"
  /\ Report(claimant, label)

AuditPath(required) ==
  /\ granted = {} /\ pathAnswer.status = "none"
  /\ pathAnswer' = [status |-> EvaluateTrace(path, required), required |-> required]
  /\ UNCHANGED <<laneOpen, granted, path>>

AuthorityNext ==
  \/ ShiftLane
  \/ \E action \in ControlActions, by \in RuntimeModules, token, connectivity \in BOOLEAN :
       AskAuthority(action, by, token, connectivity)
  \/ \E g \in granted, label \in Labels : Act(g, label)
  \/ \E m \in Reporters, label \in Labels : Report(m, label)
  \/ \E surface \in DOMAIN StateOwnership, claimant \in RuntimeModules, label \in Labels :
       WriteSurface(surface, claimant, label)
  \/ \E required \in RequiredPaths : AuditPath(required)

AuthoritySpec == AuthorityInit /\ [][AuthorityNext]_authorityVars

----------------------------------------------------------------------------
AuthorityTypeOK ==
  /\ laneOpen \in BOOLEAN /\ path \in Seq(RuntimeTraceEvent) /\ Len(path) <= MaxPathEvents
  /\ \A g \in granted : ActionOwners[g.action] = g.by
  /\ pathAnswer.status \in {"none", "pass", "violation", "invalid"}

(* A path that passed tells one story: its processes are all there, on one
   correlation and one decision trace; no cancel, flatten or reconciliation event
   of it left the reserved lane, although the lane may fill up between the
   authorisation and the action; and its emergency actions ran outside opsd. *)
PassedPathsAreWhole ==
  pathAnswer.status = "pass" =>
    /\ pathAnswer.required \subseteq ObservedProcesses(path)
    /\ Cardinality({path[i].label : i \in DOMAIN path}) = 1
    /\ \A i \in DOMAIN path :
         /\ path[i].action \in HighPriorityActions => path[i].lane
         /\ path[i].action \in EmergencyActions => ModuleProcess[path[i].module] # "opsd"
=============================================================================
