--------------------------- MODULE DeploymentPackets ---------------------------
(***************************************************************************)
(* shared/policy/deployment_packets.py: the packets between a candidate    *)
(* bundle and an entry order.  A bundle is frozen, registered, loaded and  *)
(* replayed; a readiness record and a deployment instance move through     *)
(* their machines; a promotion packet passes its preflight; each session   *)
(* has a packet of its own, and an entry asks whether it may trade.        *)
(*                                                                         *)
(* The module evaluates packets and keeps none.  The holder modelled here  *)
(* keeps what passed and asks again later, with the time, the active       *)
(* deployment and the active promotion of that moment.  No evaluator looks  *)
(* at both the chain of a bundle and the deployment in service, so they are *)
(* two next-state relations over disjoint variables.                       *)
(***************************************************************************)
EXTENDS LifecycleMachines, FiniteSets

CONSTANTS
  Payloads,      \* what a frozen field may hold
  Artifacts,     \* the artifacts a bundle or a packet refers to
  NoPacket,      \* no packet held
  MaxPacketTime, \* bound: instants of the session clock
  MaxPromotions, \* bound: promotions made
  MaxHeldPackets,\* bound: session packets held at a time
  Bundles, Registrations, ReplayContexts, \* what may be presented for freezing and replay
  Preflights,    \* preflight requests that may be made
  PacketShapes   \* session packets that may be issued, but for their bindings

ASSUME DeploymentPacketsAssumption == {MaxPacketTime, MaxPromotions, MaxHeldPackets} \subseteq Nat

----------------------------------------------------------------------------
(* The fields a freeze registration repeats from its bundle. *)
FrozenFields ==
  {"candidate_bundle_id", "content_hash", "signal_kernel_digest", "parameterization_digest",
   "dataset_release_id", "analytic_release_id", "data_profile_release_id",
   "resolved_context_bundle_id", "execution_profile_release_id", "dependency_dag_hash",
   "feature_contract_hashes", "required_evidence_ids", "compatibility_matrix_version",
   "signature_ids", "frozen_bundle_payload"}

CandidateBundle ==
  [supported : BOOLEAN, complete : BOOLEAN, contentAddressed : BOOLEAN, accountBound : BOOLEAN,
   freshnessBound : BOOLEAN, constraintsValid : BOOLEAN,
   frozen : [FrozenFields -> Payloads], needs : SUBSET Artifacts]

CandidateBundleFreezeRegistration == [complete : BOOLEAN, frozen : [FrozenFields -> Payloads], log : Payloads]

CandidateBundleReplayContext == [complete : BOOLEAN, log : Payloads, available : SUBSET Artifacts]

(* validate_candidate_bundle *)
BundleGates(b) ==
  <<Gate(~b.supported, "SCHEMA_VERSION_UNSUPPORTED"),
    Gate(~b.complete, "MISSING_REQUIRED_FIELDS"),
    Gate(~b.contentAddressed, "NOT_CONTENT_ADDRESSED"),
    Gate(b.accountBound, "CONCRETE_ACCOUNT_BINDING_FORBIDDEN"),
    Gate(b.freshnessBound, "FRESHNESS_CONTEXT_FORBIDDEN"),
    Gate(~b.constraintsValid, "ACCOUNT_CONSTRAINTS_INVALID")>>
EvaluateCandidateBundle(b) == FirstClosed(BundleGates(b), "FROZEN")

(* Faulty variant: the payload frozen with the bundle is not compared. *)
PayloadNotCompared(b, registration) ==
  {f \in FrozenFields \ {"frozen_bundle_payload"} : registration.frozen[f] # b.frozen[f]}

FreezeMismatches(b, registration) ==
  {f \in FrozenFields : registration.frozen[f] # b.frozen[f]}

(* validate_candidate_bundle_freeze_registration *)
FreezeGates(b, registration) ==
  <<Gate(EvaluateCandidateBundle(b) # "FROZEN", EvaluateCandidateBundle(b)),
    Gate(~registration.complete, "FREEZE_LOG_INCOMPLETE"),
    Gate(FreezeMismatches(b, registration) # {}, "FREEZE_LOG_MISMATCH")>>
EvaluateFreezeRegistration(b, registration) == FirstClosed(FreezeGates(b, registration), "FREEZE_REGISTERED")

(* validate_candidate_bundle_load: an invalid bundle or log is told from a
   bundle that is not the one registered. *)
InvalidFreezes ==
  {"SCHEMA_VERSION_UNSUPPORTED", "MISSING_REQUIRED_FIELDS", "ACCOUNT_CONSTRAINTS_INVALID",
   "FREEZE_LOG_INCOMPLETE"}
LoadGates(freeze) ==
  <<Gate(freeze \in InvalidFreezes, "LOAD_INVALID"), Gate(freeze # "FREEZE_REGISTERED", "LOAD_MISMATCH")>>
EvaluateCandidateBundleLoad(b, registration) ==
  FirstClosed(LoadGates(EvaluateFreezeRegistration(b, registration)), "LOAD_MATCHES_FREEZE_LOG")

(* validate_candidate_bundle_replay_readiness *)
ReplayGates(b, registration, context) ==
  <<Gate(EvaluateCandidateBundleLoad(b, registration) # "LOAD_MATCHES_FREEZE_LOG", "REPLAY_LOAD_MISMATCH"),
    Gate(~context.complete, "REPLAY_CONTEXT_INCOMPLETE"),
    Gate(~(b.needs \subseteq context.available) \/ context.log # registration.log, "REPLAY_NOT_CLOSED")>>
EvaluateReplayReadiness(b, registration, context) == FirstClosed(ReplayGates(b, registration, context), "REPLAY_READY")

----------------------------------------------------------------------------
BundleReadinessRecord ==
  [supported : BOOLEAN, complete : BOOLEAN, approved : BOOLEAN, fresh : BOOLEAN,
   state : DOMAIN ReadinessTransitions]

(* validate_bundle_readiness_record *)
EvaluateReadinessRecord(r) ==
  FirstClosed(<<Gate(~r.supported, "SCHEMA_VERSION_UNSUPPORTED"),
                Gate(~r.complete, "MISSING_REQUIRED_FIELDS"),
                Gate(r.state \in ApprovalRequired /\ ~r.approved, "APPROVAL_HISTORY_REQUIRED"),
                Gate(r.state \in FreshnessRequired /\ ~r.fresh, "FRESHNESS_EVIDENCE_REQUIRED")>>,
              "READINESS_BOUND")

PromotionLanes == {"paper", "shadow_live", "live"}
Stopped == {"WITHDRAWN", "CLOSED"}
LaneStates ==
  [paper |-> {"PAPER_PENDING", "PAPER_RUNNING"}, shadow_live |-> {"SHADOW_PENDING", "SHADOW_RUNNING"},
   live |-> {"LIVE_CANARY", "LIVE_ACTIVE"}]

DeploymentInstance ==
  [supported : BOOLEAN, complete : BOOLEAN, sequence : Int, lane : PromotionLanes,
   state : DOMAIN DeploymentTransitions, sessions : SUBSET Nat, withdrawal : BOOLEAN, stop : BOOLEAN]

(* validate_deployment_instance *)
InstanceGates(i) ==
  <<Gate(~i.supported, "SCHEMA_VERSION_UNSUPPORTED"),
    Gate(~i.complete, "MISSING_REQUIRED_FIELDS"),
    Gate(i.sequence < 0, "SEQUENCE_NEGATIVE"),
    Gate(i.state \notin LaneStates[i.lane] \cup Stopped, "STATE_LANE_MISMATCH"),
    Gate(i.state \in RuntimeActive /\ i.sessions = {}, "SESSION_HISTORY_REQUIRED"),
    Gate(i.state \notin Stopped /\ i.withdrawal, "WITHDRAWAL_EVENT_STATE_MISMATCH"),
    Gate(i.state \notin Stopped /\ i.stop, "STOP_EVENT_STATE_MISMATCH"),
    Gate(i.state = "WITHDRAWN" /\ ~i.withdrawal, "WITHDRAWAL_EVENT_REQUIRED"),
    Gate(i.state = "CLOSED" /\ ~(i.stop \/ i.withdrawal), "TERMINAL_EVENT_REQUIRED")>>
EvaluateDeploymentInstance(i) == FirstClosed(InstanceGates(i), "INSTANCE_VALID")

(* transition_bundle_readiness_record, transition_deployment_instance *)
TransitionStatus(machine, from, to) ==
  CASE EvaluateTransition(machine, from, to) = "TRANSITION_ALLOWED" -> "pass"
    [] EvaluateTransition(machine, from, to) = "TRANSITION_NOT_ALLOWED" -> "violation"
    [] OTHER -> "invalid"

----------------------------------------------------------------------------
PromotionPacket ==
  [supported : BOOLEAN, complete : BOOLEAN, expiriesReadable : BOOLEAN, lane : PromotionLanes,
   paperEvidence : BOOLEAN, shadowEvidence : BOOLEAN, cites : SUBSET Artifacts]

(* Faulty variant: live asks for either evidence, not both. *)
EitherEvidence(p) ==
  FirstClosed(
    <<Gate(~p.supported, "SCHEMA_VERSION_UNSUPPORTED"),
      Gate(~p.complete, "MISSING_REQUIRED_FIELDS"),
      Gate(p.lane = "shadow_live" /\ ~p.paperEvidence, "PAPER_EVIDENCE_REQUIRED"),
      Gate(p.lane = "live" /\ ~(p.paperEvidence \/ p.shadowEvidence), "LIVE_EVIDENCE_REQUIRED")>>,
    "SIGNED_AND_BOUND")

(* validate_promotion_packet: an expiry is read and never compared. *)
PromotionGates(p) ==
  <<Gate(~p.supported, "SCHEMA_VERSION_UNSUPPORTED"),
    Gate(~p.complete, "MISSING_REQUIRED_FIELDS"),
    Gate(~p.expiriesReadable, "EVIDENCE_EXPIRY_INVALID"),
    Gate(p.lane = "shadow_live" /\ ~p.paperEvidence, "PAPER_EVIDENCE_REQUIRED"),
    Gate(p.lane = "live" /\ ~(p.paperEvidence /\ p.shadowEvidence), "LIVE_EVIDENCE_REQUIRED")>>
EvaluatePromotionPacket(p) == FirstClosed(PromotionGates(p), "SIGNED_AND_BOUND")

PromotionPreflightRequest ==
  [packet : PromotionPacket, supported : BOOLEAN, complete : BOOLEAN, resolved : SUBSET Artifacts,
   verified : SUBSET Artifacts, domains : SUBSET CompatibilityDomains, stale : SUBSET Artifacts,
   superseded : SUBSET Artifacts, failed : SUBSET Artifacts]

(* validate_promotion_preflight *)
PreflightGates(q) ==
  <<Gate(EvaluatePromotionPacket(q.packet) # "SIGNED_AND_BOUND", "PACKET_INVALID"),
    Gate(~q.supported, "SCHEMA_VERSION_UNSUPPORTED"),
    Gate(~q.complete, "MISSING_REQUIRED_FIELDS"),
    Gate(~(q.packet.cites \subseteq q.resolved), "ARTIFACT_RESOLUTION_INCOMPLETE"),
    Gate(~(q.packet.cites \subseteq q.verified), "INTEGRITY_VERIFICATION_INCOMPLETE"),
    Gate(~(CompatibilityDomains \subseteq q.domains), "COMPATIBILITY_INCOMPLETE"),
    Gate(q.stale # {}, "EVIDENCE_STALE"),
    Gate(q.superseded # {}, "ARTIFACT_SUPERSEDED"),
    Gate(q.failed # {}, "INFRASTRUCTURE_CHECK_FAILED")>>
EvaluatePromotionPreflight(q) == FirstClosed(PreflightGates(q), "SIGNED_AND_READY")

----------------------------------------------------------------------------
(* aware: the timestamps parse and name their offset; only such can be compared. *)
SessionReadinessPacket ==
  [supported : BOOLEAN, complete : BOOLEAN, aware : BOOLEAN, deployment : Nat, promotion : Nat, session : Nat,
   from : Nat, to : Nat, status : {"green", "blocked", "suspect"}, clear : BOOLEAN, blockedChecks : BOOLEAN]

(* validate_session_readiness_packet *)
SessionPacketGates(p) ==
  <<Gate(~p.supported, "SCHEMA_VERSION_UNSUPPORTED"),
    Gate(~p.complete, "MISSING_REQUIRED_FIELDS"),
    Gate(~p.aware, "INVALID_VALIDITY_WINDOW"),
    Gate(p.from >= p.to, "VALIDITY_WINDOW_INVERTED"),
    Gate(p.status = "green" /\ ~p.clear, "GREEN_REQUIRES_CLEAR_DISCREPANCIES"),
    Gate(p.status = "green" /\ p.blockedChecks, "GREEN_REQUIRES_ALL_CHECKS_PASSING")>>
EvaluateSessionPacket(p) == FirstClosed(SessionPacketGates(p), "SESSION_PACKET_VALID")

(* Faulty variant: the promotion a packet was issued for is not compared. *)
IgnoresPromotion(p, q) ==
  FirstClosed(<<Gate(EvaluateSessionPacket(p) # "SESSION_PACKET_VALID", "SESSION_PACKET_INVALID"),
                Gate(~q.aware, "INVALID_EVALUATION_TIME"),
                Gate(q.session # p.session, "BINDING_MISMATCH"),
                Gate(~(p.from <= q.at /\ q.at < p.to), "OUTSIDE_VALIDITY_WINDOW"),
                Gate(p.status # "green", "REQUIRES_GREEN_PACKET"),
                Gate(q.stale, "FRESHNESS_CHECK_FAILED"),
                Gate(q.failed, "INFRASTRUCTURE_CHECK_FAILED")>>,
              "GREEN_FOR_NEW_ENTRIES")

(* validate_session_tradeability: q is what is active when the entry asks. *)
TradeabilityGates(p, q) ==
  <<Gate(EvaluateSessionPacket(p) # "SESSION_PACKET_VALID", "SESSION_PACKET_INVALID"),
    Gate(~q.supported, "SCHEMA_VERSION_UNSUPPORTED"),
    Gate(~q.complete, "MISSING_REQUIRED_FIELDS"),
    Gate(~(q.aware /\ p.aware), "INVALID_EVALUATION_TIME"),
    Gate(<<q.deployment, q.promotion, q.session>> # <<p.deployment, p.promotion, p.session>>,
         "BINDING_MISMATCH"),
    Gate(~(p.from <= q.at /\ q.at < p.to), "OUTSIDE_VALIDITY_WINDOW"),
    Gate(p.status # "green", "REQUIRES_GREEN_PACKET"),
    Gate(q.stale, "FRESHNESS_CHECK_FAILED"),
    Gate(q.failed, "INFRASTRUCTURE_CHECK_FAILED")>>
EvaluateSessionTradeability(p, q) == FirstClosed(TradeabilityGates(p, q), "GREEN_FOR_NEW_ENTRIES")

ASSUME PacketInputsAssumption ==
  /\ Bundles \subseteq CandidateBundle /\ Registrations \subseteq CandidateBundleFreezeRegistration
  /\ ReplayContexts \subseteq CandidateBundleReplayContext /\ Preflights \subseteq PromotionPreflightRequest
  /\ PacketShapes \subseteq SessionReadinessPacket
----------------------------------------------------------------------------
VARIABLES
  frozenBundle,   \* the bundle frozen and registered, with its registration
  replayed,       \* the bundle last found ready for replay
  record,         \* the state of the readiness record bound to it
  instance,       \* the deployment instance in service
  promotion,      \* the active promotion: its number, and when it was activated
  finished,       \* the lanes whose run has produced pass evidence
  sessionPackets, \* session packets issued, with the instant of issue
  instant,        \* the clock
  entry           \* the session packet last granted an entry, NoPacket if none

bundleSideVars == <<frozenBundle, replayed, record>>
serviceSideVars == <<instance, promotion, finished, sessionPackets, instant, entry>>
packetVars == <<bundleSideVars, serviceSideVars>>

PacketsInit ==
  /\ frozenBundle = NoPacket /\ replayed = NoPacket /\ record = NoPacket /\ instance = NoPacket
  /\ promotion = [number |-> 0, since |-> 0] /\ finished = {} /\ sessionPackets = {}
  /\ instant = 0 /\ entry = NoPacket

FreezeBundle(b, registration) ==
  /\ frozenBundle = NoPacket
  /\ EvaluateFreezeRegistration(b, registration) = "FREEZE_REGISTERED"
  /\ frozenBundle' = [bundle |-> b, registration |-> registration]
  /\ UNCHANGED <<replayed, record, serviceSideVars>>

ReplayBundle(b, context) ==
  /\ frozenBundle # NoPacket
  /\ EvaluateReplayReadiness(b, frozenBundle.registration, context) = "REPLAY_READY"
  /\ replayed' = b
  /\ UNCHANGED <<frozenBundle, record, serviceSideVars>>

BindReadiness(r) ==
  /\ replayed # NoPacket /\ record = NoPacket
  /\ r.state = Machines.bundle_readiness.initial /\ EvaluateReadinessRecord(r) = "READINESS_BOUND"
  /\ record' = r.state
  /\ UNCHANGED <<frozenBundle, replayed, serviceSideVars>>

(* The record moves, and is kept if it is valid where it arrives. *)
MoveRecord(r) ==
  /\ record # NoPacket /\ TransitionStatus("bundle_readiness", record, r.state) = "pass"
  /\ EvaluateReadinessRecord(r) = "READINESS_BOUND"
  /\ record' = r.state
  /\ UNCHANGED <<frozenBundle, replayed, serviceSideVars>>

FirstState == [paper |-> "PAPER_PENDING", shadow_live |-> "SHADOW_PENDING", live |-> "LIVE_CANARY"]

(* A preflight that passes starts an instance in the lane of its packet, with
   the next promotion; one instance is in service at a time.  A packet can only
   cite the pass evidence of a lane that was run to its end. *)
Promote(q, first) ==
  LET started == [supported |-> TRUE, complete |-> TRUE, sequence |-> 0, lane |-> q.packet.lane,
                  state |-> FirstState[q.packet.lane], sessions |-> first, withdrawal |-> FALSE, stop |-> FALSE]
  IN  /\ promotion.number < MaxPromotions
      /\ instance # NoPacket => instance.state \in Stopped
      /\ q.packet.paperEvidence => "paper" \in finished
      /\ q.packet.shadowEvidence => "shadow_live" \in finished
      /\ EvaluatePromotionPreflight(q) = "SIGNED_AND_READY"
      /\ EvaluateDeploymentInstance(started) = "INSTANCE_VALID"
      /\ promotion' = [number |-> promotion.number + 1, since |-> instant]
      /\ instance' = started /\ entry' = NoPacket
      /\ UNCHANGED <<bundleSideVars, finished, sessionPackets, instant>>

(* The instance moves, with the sessions and the events it retains; closing a
   lane that ran leaves its pass evidence. *)
MoveInstance(to, sessions, withdrawal, stop) ==
  LET moved == [instance EXCEPT !.state = to, !.sessions = sessions, !.withdrawal = withdrawal, !.stop = stop]
  IN  /\ instance # NoPacket
      /\ TransitionStatus("deployment_instance", instance.state, to) = "pass"
      /\ EvaluateDeploymentInstance(moved) = "INSTANCE_VALID"
      /\ instance' = moved
      /\ finished' = IF instance.state \in RuntimeActive /\ to = "CLOSED" THEN finished \cup {instance.lane}
                     ELSE finished
      /\ UNCHANGED <<bundleSideVars, promotion, sessionPackets, instant, entry>>

(* A packet for the session of this instant, kept beside packets held if it is valid. *)
IssueSessionPacket(shape) ==
  LET p == [shape EXCEPT !.promotion = promotion.number, !.deployment = promotion.number,
                         !.session = instant, !.from = instant, !.to = instant + @]
  IN  /\ promotion.number > 0 /\ EvaluateSessionPacket(p) = "SESSION_PACKET_VALID"
      /\ \E kept \in SUBSET sessionPackets :
           /\ Cardinality(kept \cup {p}) <= MaxHeldPackets
           /\ sessionPackets' = kept \cup {p}
      /\ UNCHANGED <<bundleSideVars, instance, promotion, finished, instant, entry>>

TickSession ==
  /\ instant < MaxPacketTime
  /\ instant' = instant + 1
  /\ entry' = NoPacket
  /\ UNCHANGED <<bundleSideVars, instance, promotion, finished, sessionPackets>>

(* An entry asks with any packet still held, naming what is active now. *)
RequestEntry(p, session, aware, stale, failed) ==
  LET q == [supported |-> TRUE, complete |-> TRUE, aware |-> aware, deployment |-> promotion.number,
            promotion |-> promotion.number, session |-> session, at |-> instant, stale |-> stale, failed |-> failed]
  IN  /\ entry' = IF EvaluateSessionTradeability(p, q) = "GREEN_FOR_NEW_ENTRIES" THEN p ELSE NoPacket
      /\ UNCHANGED <<bundleSideVars, instance, promotion, finished, sessionPackets, instant>>

BundleNext ==
  \/ \E b \in Bundles, g \in Registrations : FreezeBundle(b, g)
  \/ \E b \in Bundles, c \in ReplayContexts : ReplayBundle(b, c)
  \/ \E r \in BundleReadinessRecord : BindReadiness(r) \/ MoveRecord(r)

ServiceNext ==
  \/ \E q \in Preflights, first \in SUBSET {1} : Promote(q, first)
  \/ \E to \in DOMAIN DeploymentTransitions, sessions \in SUBSET {1}, withdrawal, stop \in BOOLEAN :
       MoveInstance(to, sessions, withdrawal, stop)
  \/ \E shape \in PacketShapes : IssueSessionPacket(shape)
  \/ TickSession
  \/ \E p \in sessionPackets, session \in 0..instant, aware, stale, failed \in BOOLEAN :
       RequestEntry(p, session, aware, stale, failed)

PacketsSpec == PacketsInit /\ [][BundleNext \/ ServiceNext]_packetVars

----------------------------------------------------------------------------
PacketsTypeOK ==
  /\ replayed # NoPacket => replayed \in CandidateBundle
  /\ record \in DOMAIN ReadinessTransitions \cup {NoPacket}
  /\ instance \in DeploymentInstance \cup {NoPacket}
  /\ sessionPackets \subseteq SessionReadinessPacket
  /\ promotion.since <= instant /\ finished \subseteq PromotionLanes

(* What is replayed at any later time is what was registered when the bundle
   was frozen, whatever bundle is presented for loading. *)
ReplayedIsWhatWasFrozen ==
  replayed # NoPacket => replayed.frozen = frozenBundle.bundle.frozen

(* An instance never serves a lane before the lanes below it were run to the
   end, and one that is not withdrawn or closed carries no terminal event. *)
LanesAreEarned ==
  instance # NoPacket =>
    /\ instance.lane # "paper" => "paper" \in finished
    /\ instance.lane = "live" => "shadow_live" \in finished
    /\ instance.state \notin Stopped => ~instance.withdrawal /\ ~instance.stop

(* An entry is granted on a packet issued since the active promotion began,
   inside its window, with nothing blocked: a packet kept from an earlier
   promotion or an earlier instant grants nothing. *)
EntriesAreCurrent ==
  entry # NoPacket =>
    /\ entry.session >= promotion.since /\ entry.promotion = promotion.number
    /\ instant \in entry.from..(entry.to - 1)
    /\ entry.status = "green" /\ entry.clear /\ ~entry.blockedChecks
=============================================================================
