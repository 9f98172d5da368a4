--------------------------- MODULE PromotionProofs ---------------------------
(***************************************************************************)
(* The way from a candidate bundle to an entry order, for any bundles,     *)
(* packets and promotions: what is replayed is what was frozen, no lane is *)
(* served before those below it were run, an entry rests on a packet of    *)
(* the active promotion, the ladder of a readiness record is climbed again *)
(* after every setback, and versions drift only where it was declared.     *)
(***************************************************************************)
EXTENDS DeploymentPackets, DependencyPropagation, Foundations

----------------------------------------------------------------------------
(* What a passing answer says of what was asked: a chain that goes through has
   all its gates open. *)
LEMMA FreezeCompares ==
  ASSUME NEW b, NEW registration, EvaluateFreezeRegistration(b, registration) = "FREEZE_REGISTERED"
  PROVE  FreezeMismatches(b, registration) = {}
<1>1. PICK gates : gates = FreezeGates(b, registration)  OBVIOUS
<1>2. PICK answer : answer = "FREEZE_REGISTERED"  OBVIOUS
<1>3. EvaluateCandidateBundle(b) # answer
  <2>1. PICK inner : inner = BundleGates(b)  OBVIOUS
  <2>2. DOMAIN inner \in SUBSET Nat /\ \A i \in DOMAIN inner : inner[i].answer # answer
    BY <2>1, <1>2 DEF BundleGates, Gate
  <2>3. PICK found : found = FirstClosed(inner, "FROZEN")  OBVIOUS
  <2>4. found = "FROZEN" \/ \E i \in DOMAIN inner : found = inner[i].answer
    BY <2>2, <2>3, ChainAnswers
  <2> QED  BY <1>2, <2>1, <2>2, <2>3, <2>4 DEF EvaluateCandidateBundle
<1>4. DOMAIN gates = 1..3 /\ DOMAIN gates \in SUBSET Nat /\ \A i \in DOMAIN gates : gates[i].answer # answer
  BY <1>1, <1>2, <1>3 DEF FreezeGates, Gate
<1>5. answer = FirstClosed(gates, answer)  BY <1>1, <1>2 DEF EvaluateFreezeRegistration
<1>6. \A i \in DOMAIN gates : ~ gates[i].closed  BY <1>4, <1>5, ChainOpen
<1>7. ~ gates[3].closed  BY <1>4, <1>6
<1> QED  BY <1>1, <1>7 DEF FreezeGates, Gate

(* A replay is ready only if nothing differs from the registration
   (evaluate_replay_readiness). *)
LEMMA ReplayCompares ==
  ASSUME NEW b, NEW registration, NEW context,
         EvaluateReplayReadiness(b, registration, context) = "REPLAY_READY"
  PROVE  FreezeMismatches(b, registration) = {}
<1>1. EvaluateCandidateBundleLoad(b, registration) = "LOAD_MATCHES_FREEZE_LOG"
  <2>1. PICK gates : gates = ReplayGates(b, registration, context)  OBVIOUS
  <2>2. PICK answer : answer = "REPLAY_READY"  OBVIOUS
  <2>3. DOMAIN gates = 1..3 /\ DOMAIN gates \in SUBSET Nat /\ \A i \in DOMAIN gates : gates[i].answer # answer
    BY <2>1, <2>2 DEF ReplayGates, Gate
  <2>4. answer = FirstClosed(gates, answer)  BY <2>1, <2>2 DEF EvaluateReplayReadiness
  <2>5. \A i \in DOMAIN gates : ~ gates[i].closed  BY <2>3, <2>4, ChainOpen
  <2>6. ~ gates[1].closed  BY <2>3, <2>5
  <2> QED  BY <2>1, <2>6 DEF ReplayGates, Gate
<1>2. EvaluateFreezeRegistration(b, registration) = "FREEZE_REGISTERED"
  <2>1. PICK freeze : freeze = EvaluateFreezeRegistration(b, registration)  OBVIOUS
  <2>2. PICK gates : gates = LoadGates(freeze)  OBVIOUS
  <2>3. PICK answer : answer = "LOAD_MATCHES_FREEZE_LOG"  OBVIOUS
  <2>4. DOMAIN gates = 1..2 /\ DOMAIN gates \in SUBSET Nat /\ \A i \in DOMAIN gates : gates[i].answer # answer
    BY <2>2, <2>3 DEF LoadGates, Gate
  <2>5. answer = FirstClosed(gates, answer)  BY <1>1, <2>1, <2>2, <2>3 DEF EvaluateCandidateBundleLoad
  <2>6. \A i \in DOMAIN gates : ~ gates[i].closed  BY <2>4, <2>5, ChainOpen
  <2>7. ~ gates[2].closed  BY <2>4, <2>6
  <2> QED  BY <2>1, <2>2, <2>7 DEF LoadGates, Gate
<1> QED  BY <1>2, FreezeCompares

(* A registration without mismatch froze what the bundle holds. *)
LEMMA NoMismatch ==
  ASSUME NEW b \in CandidateBundle, NEW registration \in CandidateBundleFreezeRegistration,
         FreezeMismatches(b, registration) = {}
  PROVE  registration.frozen = b.frozen
<1>1. b.frozen \in [FrozenFields -> Payloads] /\ registration.frozen \in [FrozenFields -> Payloads]
  BY DEF CandidateBundle, CandidateBundleFreezeRegistration
<1>2. \A f \in FrozenFields : registration.frozen[f] = b.frozen[f]  BY DEF FreezeMismatches
<1> QED  BY <1>1, <1>2

(* A signed preflight carries the evidence of the lanes below. *)
LEMMA PreflightAsksEvidence ==
  ASSUME NEW q, EvaluatePromotionPreflight(q) = "SIGNED_AND_READY"
  PROVE  /\ q.packet.lane = "shadow_live" => q.packet.paperEvidence
         /\ q.packet.lane = "live" => q.packet.paperEvidence /\ q.packet.shadowEvidence
<1>1. EvaluatePromotionPacket(q.packet) = "SIGNED_AND_BOUND"
  <2>1. PICK gates : gates = PreflightGates(q)  OBVIOUS
  <2>2. PICK answer : answer = "SIGNED_AND_READY"  OBVIOUS
  <2>3. DOMAIN gates = 1..9 /\ DOMAIN gates \in SUBSET Nat /\ \A i \in DOMAIN gates : gates[i].answer # answer
    BY <2>1, <2>2 DEF PreflightGates, Gate
  <2>4. answer = FirstClosed(gates, answer)  BY <2>1, <2>2 DEF EvaluatePromotionPreflight
  <2>5. \A i \in DOMAIN gates : ~ gates[i].closed  BY <2>3, <2>4, ChainOpen
  <2>6. ~ gates[1].closed  BY <2>3, <2>5
  <2> QED  BY <2>1, <2>6 DEF PreflightGates, Gate
<1>2. PICK p : p = q.packet  OBVIOUS
<1>3. PICK gates : gates = PromotionGates(p)  OBVIOUS
<1>4. PICK answer : answer = "SIGNED_AND_BOUND"  OBVIOUS
<1>5. DOMAIN gates = 1..5 /\ DOMAIN gates \in SUBSET Nat /\ \A i \in DOMAIN gates : gates[i].answer # answer
  BY <1>3, <1>4 DEF PromotionGates, Gate
<1>6. answer = FirstClosed(gates, answer)  BY <1>1, <1>2, <1>3, <1>4 DEF EvaluatePromotionPacket
<1>7. \A i \in DOMAIN gates : ~ gates[i].closed  BY <1>5, <1>6, ChainOpen
<1>8. ~ gates[4].closed /\ ~ gates[5].closed  BY <1>5, <1>7
<1>9. ~ (p.lane = "shadow_live" /\ ~p.paperEvidence)  BY <1>3, <1>8 DEF PromotionGates, Gate
<1>10. ~ (p.lane = "live" /\ ~(p.paperEvidence /\ p.shadowEvidence))  BY <1>3, <1>8 DEF PromotionGates, Gate
<1> QED  BY <1>2, <1>9, <1>10

(* A valid instance that still runs has neither a withdrawal nor a stop on it. *)
LEMMA ValidInstance ==
  ASSUME NEW i, EvaluateDeploymentInstance(i) = "INSTANCE_VALID"
  PROVE  i.state \notin Stopped => ~i.withdrawal /\ ~i.stop
<1>1. PICK gates : gates = InstanceGates(i)  OBVIOUS
<1>2. PICK answer : answer = "INSTANCE_VALID"  OBVIOUS
<1>3. DOMAIN gates = 1..9 /\ DOMAIN gates \in SUBSET Nat /\ \A n \in DOMAIN gates : gates[n].answer # answer
  BY <1>1, <1>2 DEF InstanceGates, Gate
<1>4. answer = FirstClosed(gates, answer)  BY <1>1, <1>2 DEF EvaluateDeploymentInstance
<1>5. \A n \in DOMAIN gates : ~ gates[n].closed  BY <1>3, <1>4, ChainOpen
<1>6. ~ gates[6].closed /\ ~ gates[7].closed  BY <1>3, <1>5
<1>7. ~ (i.state \notin Stopped /\ i.withdrawal)  BY <1>1, <1>6 DEF InstanceGates, Gate
<1>8. ~ (i.state \notin Stopped /\ i.stop)  BY <1>1, <1>6 DEF InstanceGates, Gate
<1> QED  BY <1>7, <1>8

(* A green packet is of the promotion in force, valid at the instant and clear. *)
LEMMA TradeableIsBound ==
  ASSUME NEW p, NEW q, EvaluateSessionTradeability(p, q) = "GREEN_FOR_NEW_ENTRIES"
  PROVE  /\ q.promotion = p.promotion /\ p.from <= q.at /\ q.at < p.to
         /\ p.status = "green" /\ p.clear /\ ~p.blockedChecks
<1>1. /\ EvaluateSessionPacket(p) = "SESSION_PACKET_VALID" /\ p.status = "green"
      /\ q.promotion = p.promotion /\ p.from <= q.at /\ q.at < p.to
  <2>1. PICK gates : gates = TradeabilityGates(p, q)  OBVIOUS
  <2>2. PICK answer : answer = "GREEN_FOR_NEW_ENTRIES"  OBVIOUS
  <2>3. DOMAIN gates = 1..9 /\ DOMAIN gates \in SUBSET Nat /\ \A i \in DOMAIN gates : gates[i].answer # answer
    BY <2>1, <2>2 DEF TradeabilityGates, Gate
  <2>4. answer = FirstClosed(gates, answer)  BY <2>1, <2>2 DEF EvaluateSessionTradeability
  <2>5. \A i \in DOMAIN gates : ~ gates[i].closed  BY <2>3, <2>4, ChainOpen
  <2>6. ~ gates[1].closed /\ ~ gates[5].closed /\ ~ gates[6].closed /\ ~ gates[7].closed  BY <2>3, <2>5
  <2>7. EvaluateSessionPacket(p) = "SESSION_PACKET_VALID"  BY <2>1, <2>6 DEF TradeabilityGates, Gate
  <2>8. <<q.deployment, q.promotion, q.session>> = <<p.deployment, p.promotion, p.session>>
    BY <2>1, <2>6 DEF TradeabilityGates, Gate
  <2>9. p.from <= q.at /\ q.at < p.to  BY <2>1, <2>6 DEF TradeabilityGates, Gate
  <2>10. p.status = "green"  BY <2>1, <2>6 DEF TradeabilityGates, Gate
  <2> QED  BY <2>7, <2>8, <2>9, <2>10
<1>2. PICK gates : gates = SessionPacketGates(p)  OBVIOUS
<1>3. PICK answer : answer = "SESSION_PACKET_VALID"  OBVIOUS
<1>4. DOMAIN gates = 1..6 /\ DOMAIN gates \in SUBSET Nat /\ \A i \in DOMAIN gates : gates[i].answer # answer
  BY <1>2, <1>3 DEF SessionPacketGates, Gate
<1>5. answer = FirstClosed(gates, answer)  BY <1>1, <1>2, <1>3 DEF EvaluateSessionPacket
<1>6. \A i \in DOMAIN gates : ~ gates[i].closed  BY <1>4, <1>5, ChainOpen
<1>7. ~ gates[5].closed /\ ~ gates[6].closed  BY <1>4, <1>6
<1>8. ~ (p.status = "green" /\ ~p.clear)  BY <1>2, <1>7 DEF SessionPacketGates, Gate
<1>9. ~ (p.status = "green" /\ p.blockedChecks)  BY <1>2, <1>7 DEF SessionPacketGates, Gate
<1> QED  BY <1>1, <1>8, <1>9

----------------------------------------------------------------------------
(* What is frozen agrees with its registration; what is replayed agreed with
   that registration, of which there is only ever one. *)
FrozenInv ==
  /\ frozenBundle # NoPacket =>
       /\ frozenBundle.bundle.frozen = frozenBundle.registration.frozen
       /\ frozenBundle.registration \in CandidateBundleFreezeRegistration
  /\ replayed # NoPacket =>
       /\ frozenBundle # NoPacket /\ replayed \in CandidateBundle
       /\ replayed.frozen = frozenBundle.bundle.frozen
  /\ record \in DOMAIN ReadinessTransitions \cup {NoPacket}

(* The instance runs in a lane earned by the lanes below; a session packet was
   issued at an instant of the promotion it names, none of a later one. *)
ServiceInv ==
  /\ instance \in DeploymentInstance \cup {NoPacket} /\ finished \subseteq PromotionLanes
  /\ promotion \in [number : Nat, since : Nat] /\ instant \in Nat /\ promotion.since <= instant
  /\ sessionPackets \subseteq SessionReadinessPacket
  /\ \A p \in sessionPackets :
       p.promotion <= promotion.number /\ (p.promotion = promotion.number => p.session >= promotion.since)
  /\ LanesAreEarned /\ EntriesAreCurrent

PacketsInv == FrozenInv /\ ServiceInv

(* Building, freezing and replaying bundles keep each replay equal to what was
   frozen. *)
LEMMA FrozenStep ==
  ASSUME FrozenInv, BundleNext
  PROVE  FrozenInv'
<1>1. ASSUME NEW b \in Bundles, NEW g \in Registrations, FreezeBundle(b, g) PROVE FrozenInv'
  <2>1. b \in CandidateBundle /\ g \in CandidateBundleFreezeRegistration  BY PacketInputsAssumption
  <2>2. b.frozen = g.frozen
    <3>1. EvaluateFreezeRegistration(b, g) = "FREEZE_REGISTERED"  BY <1>1 DEF FreezeBundle
    <3> QED  BY <2>1, <3>1, FreezeCompares, NoMismatch
  <2>3. /\ frozenBundle' = [bundle |-> b, registration |-> g] /\ replayed = NoPacket
        /\ UNCHANGED <<replayed, record>>
    BY <1>1 DEF FreezeBundle, FrozenInv
  <2> QED  BY <2>1, <2>2, <2>3 DEF FrozenInv
<1>2. ASSUME NEW b \in Bundles, NEW c \in ReplayContexts, ReplayBundle(b, c) PROVE FrozenInv'
  <2>1. b \in CandidateBundle  BY PacketInputsAssumption
  <2>2. PICK g : g = frozenBundle.registration  OBVIOUS
  <2>3. frozenBundle # NoPacket /\ EvaluateReplayReadiness(b, g, c) = "REPLAY_READY"
    BY <1>2, <2>2 DEF ReplayBundle
  <2>4. g \in CandidateBundleFreezeRegistration /\ frozenBundle.bundle.frozen = g.frozen
    BY <2>2, <2>3 DEF FrozenInv
  <2>5. b.frozen = g.frozen  BY <2>1, <2>3, <2>4, ReplayCompares, NoMismatch
  <2>6. replayed' = b /\ UNCHANGED <<frozenBundle, record>>  BY <1>2 DEF ReplayBundle
  <2> QED  BY <2>1, <2>3, <2>4, <2>5, <2>6 DEF FrozenInv
<1>3. ASSUME NEW r \in BundleReadinessRecord, BindReadiness(r) \/ MoveRecord(r) PROVE FrozenInv'
  <2>1. r.state \in DOMAIN ReadinessTransitions  BY DEF BundleReadinessRecord
  <2>2. record' = r.state /\ UNCHANGED <<frozenBundle, replayed>>  BY <1>3 DEF BindReadiness, MoveRecord
  <2> QED  BY <2>1, <2>2 DEF FrozenInv
<1> QED  BY <1>1, <1>2, <1>3 DEF BundleNext

(* A promotion goes through on the evidence of finished deployments. *)
LEMMA PromoteKeepsInv ==
  ASSUME ServiceInv, NEW q \in Preflights, NEW first \in SUBSET {1}, Promote(q, first)
  PROVE  ServiceInv'
<1>1. PICK started : started =
        [supported |-> TRUE, complete |-> TRUE, sequence |-> 0, lane |-> q.packet.lane,
         state |-> FirstState[q.packet.lane], sessions |-> first, withdrawal |-> FALSE, stop |-> FALSE]
  OBVIOUS
<1>2. /\ q.packet.paperEvidence => "paper" \in finished
      /\ q.packet.shadowEvidence => "shadow_live" \in finished
      /\ EvaluatePromotionPreflight(q) = "SIGNED_AND_READY"
      /\ promotion' = [number |-> promotion.number + 1, since |-> instant]
      /\ instance' = started /\ entry' = NoPacket
      /\ UNCHANGED <<finished, sessionPackets, instant>>
  BY <1>1 DEF Promote
<1>3. PICK lane : lane = q.packet.lane  OBVIOUS
<1>4. lane \in PromotionLanes
  <2>1. q.packet \in PromotionPacket  BY PacketInputsAssumption DEF PromotionPreflightRequest
  <2> QED  BY <1>3, <2>1 DEF PromotionPacket
<1>5. FirstState[lane] \in DOMAIN DeploymentTransitions
  BY <1>4 DEF PromotionLanes, FirstState, DeploymentTransitions
<1>6. started \in DeploymentInstance
  BY <1>1, <1>3, <1>4, <1>5 DEF DeploymentInstance
<1>7. /\ lane = "shadow_live" => "paper" \in finished
      /\ lane = "live" => "paper" \in finished /\ "shadow_live" \in finished
  BY <1>2, <1>3, PreflightAsksEvidence
<1>8. LanesAreEarned'
  BY <1>1, <1>2, <1>3, <1>4, <1>7 DEF LanesAreEarned, PromotionLanes
<1>9. EntriesAreCurrent'  BY <1>2 DEF EntriesAreCurrent
<1>10. /\ promotion' \in [number : Nat, since : Nat] /\ promotion'.number = promotion.number + 1
       /\ promotion'.since = instant /\ promotion.number \in Nat
  BY <1>2 DEF ServiceInv
<1>11. ASSUME NEW p \in sessionPackets
       PROVE  p.promotion <= promotion'.number /\ p.promotion # promotion'.number
  <2>1. p.promotion <= promotion.number  BY DEF ServiceInv
  <2>2. p.promotion \in Nat  BY DEF ServiceInv, SessionReadinessPacket
  <2> QED  BY <1>10, <2>1, <2>2
<1>12. instant \in Nat  BY DEF ServiceInv
<1> QED  BY <1>2, <1>6, <1>8, <1>9, <1>10, <1>11, <1>12 DEF ServiceInv

(* A deployment that moves leaves its evidence behind it. *)
LEMMA MoveKeepsInv ==
  ASSUME ServiceInv, NEW to \in DOMAIN DeploymentTransitions, NEW sessions \in SUBSET {1},
         NEW withdrawal \in BOOLEAN, NEW stop \in BOOLEAN, MoveInstance(to, sessions, withdrawal, stop)
  PROVE  ServiceInv'
<1>1. PICK moved : moved = [instance EXCEPT !.state = to, !.sessions = sessions,
                                            !.withdrawal = withdrawal, !.stop = stop]
  OBVIOUS
<1>2. /\ instance # NoPacket /\ EvaluateDeploymentInstance(moved) = "INSTANCE_VALID"
      /\ instance' = moved /\ UNCHANGED <<promotion, sessionPackets, instant, entry>>
      /\ finished' = IF instance.state \in RuntimeActive /\ to = "CLOSED" THEN finished \cup {instance.lane}
                     ELSE finished
  BY <1>1 DEF MoveInstance
<1>3. instance \in DeploymentInstance  BY <1>2 DEF ServiceInv
<1>4. moved \in DeploymentInstance /\ moved.lane = instance.lane /\ instance.lane \in PromotionLanes
  <2>1. PICK i : i = instance  OBVIOUS
  <2>2. /\ i = [supported |-> i.supported, complete |-> i.complete, sequence |-> i.sequence, lane |-> i.lane,
               state |-> i.state, sessions |-> i.sessions, withdrawal |-> i.withdrawal, stop |-> i.stop]
        /\ i.supported \in BOOLEAN /\ i.complete \in BOOLEAN /\ i.sequence \in Int /\ i.lane \in PromotionLanes
    BY <1>3, <2>1 DEF DeploymentInstance
  <2>3. moved = [supported |-> i.supported, complete |-> i.complete, sequence |-> i.sequence, lane |-> i.lane,
                 state |-> to, sessions |-> sessions, withdrawal |-> withdrawal, stop |-> stop]
    BY <1>1, <2>1, <2>2
  <2>4. sessions \in SUBSET Nat  OBVIOUS
  <2>5. moved \in DeploymentInstance  BY <2>2, <2>3, <2>4 DEF DeploymentInstance
  <2>6. moved.lane = i.lane  BY <2>3
  <2> QED  BY <2>1, <2>2, <2>5, <2>6
<1>5. finished \subseteq finished' /\ finished' \subseteq PromotionLanes
  BY <1>2, <1>4 DEF ServiceInv
<1>6. LanesAreEarned'
  BY <1>2, <1>4, <1>5, ValidInstance DEF LanesAreEarned, ServiceInv
<1>7. EntriesAreCurrent'  BY <1>2 DEF EntriesAreCurrent, ServiceInv
<1> QED  BY <1>2, <1>4, <1>5, <1>6, <1>7 DEF ServiceInv

(* A packet is issued for the promotion in force. *)
LEMMA IssueKeepsInv ==
  ASSUME ServiceInv, NEW shape \in PacketShapes, IssueSessionPacket(shape)
  PROVE  ServiceInv'
<1>1. PICK p : p = [shape EXCEPT !.promotion = promotion.number, !.deployment = promotion.number,
                                 !.session = instant, !.from = instant, !.to = instant + @]
  OBVIOUS
<1>2. PICK kept \in SUBSET sessionPackets : sessionPackets' = kept \cup {p}
  BY <1>1 DEF IssueSessionPacket
<1>3. UNCHANGED <<instance, promotion, finished, instant, entry>>  BY DEF IssueSessionPacket
<1>4. shape \in SessionReadinessPacket  BY PacketInputsAssumption
<1>5. instant \in Nat /\ promotion.number \in Nat /\ promotion.since <= instant /\ promotion.since \in Nat
  BY DEF ServiceInv
<1>6. shape.to \in Nat  BY <1>4 DEF SessionReadinessPacket
<1>7. instant + shape.to \in Nat  BY <1>5, <1>6
<1>8. p \in SessionReadinessPacket /\ p.promotion = promotion.number /\ p.session = instant
  BY <1>1, <1>4, <1>5, <1>7 DEF SessionReadinessPacket
<1>9. /\ sessionPackets' \subseteq SessionReadinessPacket
      /\ \A r \in sessionPackets' :
           r.promotion <= promotion.number /\ (r.promotion = promotion.number => r.session >= promotion.since)
  <2>1. p.promotion <= promotion.number /\ p.session >= promotion.since  BY <1>5, <1>8
  <2> QED  BY <1>2, <1>8, <2>1 DEF ServiceInv
<1>10. LanesAreEarned' /\ EntriesAreCurrent'
  BY <1>3 DEF ServiceInv, LanesAreEarned, EntriesAreCurrent
<1> QED  BY <1>3, <1>9, <1>10 DEF ServiceInv

(* Time passes without changing what was earned. *)
LEMMA TickKeepsInv ==
  ASSUME ServiceInv, TickSession
  PROVE  ServiceInv'
<1>1. /\ instant' = instant + 1 /\ entry' = NoPacket
      /\ UNCHANGED <<instance, promotion, finished, sessionPackets>>
  BY DEF TickSession
<1>2. instant' \in Nat /\ promotion.since <= instant'
  BY <1>1 DEF ServiceInv
<1>3. LanesAreEarned' /\ EntriesAreCurrent'
  BY <1>1 DEF ServiceInv, LanesAreEarned, EntriesAreCurrent
<1> QED  BY <1>1, <1>2, <1>3 DEF ServiceInv

(* An entry is granted on a packet of the promotion in force. *)
LEMMA EntryKeepsInv ==
  ASSUME ServiceInv, NEW p \in sessionPackets, NEW session \in 0..instant, NEW aware \in BOOLEAN,
         NEW stale \in BOOLEAN, NEW failed \in BOOLEAN, RequestEntry(p, session, aware, stale, failed)
  PROVE  ServiceInv'
<1>1. PICK q : q = [supported |-> TRUE, complete |-> TRUE, aware |-> aware, deployment |-> promotion.number,
                    promotion |-> promotion.number, session |-> session, at |-> instant,
                    stale |-> stale, failed |-> failed]
  OBVIOUS
<1>2. /\ entry' = IF EvaluateSessionTradeability(p, q) = "GREEN_FOR_NEW_ENTRIES" THEN p ELSE NoPacket
      /\ UNCHANGED <<instance, promotion, finished, sessionPackets, instant>>
  BY <1>1 DEF RequestEntry
<1>3. ASSUME entry' # NoPacket
      PROVE  /\ p.promotion = promotion.number /\ p.from <= instant /\ instant < p.to
             /\ p.status = "green" /\ p.clear /\ ~p.blockedChecks /\ entry' = p
  <2>1. EvaluateSessionTradeability(p, q) = "GREEN_FOR_NEW_ENTRIES" /\ entry' = p  BY <1>2, <1>3
  <2>2. q.promotion = promotion.number /\ q.at = instant  BY <1>1
  <2> QED  BY <2>1, <2>2, TradeableIsBound
<1>4. p.from \in Nat /\ p.to \in Nat /\ instant \in Nat
  BY DEF ServiceInv, SessionReadinessPacket
<1>5. p.from <= instant /\ instant < p.to => instant \in p.from..(p.to - 1)
  BY <1>4
<1>6. p.promotion = promotion.number => p.session >= promotion.since  BY DEF ServiceInv
<1>7. EntriesAreCurrent'
  BY <1>2, <1>3, <1>5, <1>6 DEF EntriesAreCurrent
<1>8. LanesAreEarned'  BY <1>2 DEF ServiceInv, LanesAreEarned
<1> QED  BY <1>2, <1>7, <1>8 DEF ServiceInv

(* Every step of a deployment keeps its evidence in order. *)
LEMMA ServiceStep ==
  ASSUME ServiceInv, ServiceNext
  PROVE  ServiceInv'
BY PromoteKeepsInv, MoveKeepsInv, IssueKeepsInv, TickKeepsInv, EntryKeepsInv DEF ServiceNext

(* Neither side touches the variables of the other. *)
LEMMA BundleLeavesService == ASSUME ServiceInv, BundleNext PROVE ServiceInv'
<1>1. UNCHANGED serviceSideVars
  BY DEF BundleNext, FreezeBundle, ReplayBundle, BindReadiness, MoveRecord
<1> QED  BY <1>1 DEF serviceSideVars, ServiceInv, LanesAreEarned, EntriesAreCurrent

(* A deployment leaves the frozen bundle alone. *)
LEMMA ServiceLeavesBundle == ASSUME FrozenInv, ServiceNext PROVE FrozenInv'
<1>1. UNCHANGED bundleSideVars
  BY DEF ServiceNext, Promote, MoveInstance, IssueSessionPacket, TickSession, RequestEntry
<1> QED  BY <1>1 DEF bundleSideVars, FrozenInv

(* Before the first bundle everything is in order. *)
LEMMA PacketsStart == PacketsInit => PacketsInv
<1> SUFFICES ASSUME PacketsInit PROVE PacketsInv  OBVIOUS
<1>1. FrozenInv  BY DEF PacketsInit, FrozenInv
<1>2. promotion \in [number : Nat, since : Nat] /\ instant \in Nat /\ promotion.since <= instant
  BY DEF PacketsInit
<1>3. ServiceInv  BY <1>2 DEF PacketsInit, ServiceInv, LanesAreEarned, EntriesAreCurrent
<1> QED  BY <1>1, <1>3 DEF PacketsInv

(* Every step of the packets keeps them in order. *)
LEMMA PacketsStep == PacketsInv /\ [BundleNext \/ ServiceNext]_packetVars => PacketsInv'
<1> SUFFICES ASSUME PacketsInv, [BundleNext \/ ServiceNext]_packetVars PROVE PacketsInv'  OBVIOUS
<1>1. CASE BundleNext  BY <1>1, FrozenStep, BundleLeavesService DEF PacketsInv
<1>2. CASE ServiceNext  BY <1>2, ServiceStep, ServiceLeavesBundle DEF PacketsInv
<1>3. CASE UNCHANGED packetVars
  BY <1>3 DEF packetVars, bundleSideVars, serviceSideVars, PacketsInv, FrozenInv, ServiceInv,
              LanesAreEarned, EntriesAreCurrent
<1> QED  BY <1>1, <1>2, <1>3

(* The packets are well formed. *)
THEOREM PacketsAreTyped == PacketsSpec => []PacketsTypeOK
<1>1. PacketsInv => PacketsTypeOK  BY DEF PacketsInv, FrozenInv, ServiceInv, PacketsTypeOK
<1> QED  BY <1>1, PacketsStart, PacketsStep, PTL DEF PacketsSpec

(* Whatever bundle is presented for loading, what is found ready for replay
   carries the fields that were registered. *)
THEOREM PacketsReplayFrozen == PacketsSpec => []ReplayedIsWhatWasFrozen
<1>1. PacketsInv => ReplayedIsWhatWasFrozen
  BY DEF PacketsInv, FrozenInv, ReplayedIsWhatWasFrozen
<1> QED  BY <1>1, PacketsStart, PacketsStep, PTL DEF PacketsSpec

(* However often instances are promoted, moved and closed, the lanes below the
   one in service were run to the end. *)
THEOREM PacketsEarnLanes == PacketsSpec => []LanesAreEarned
<1>1. PacketsInv => LanesAreEarned  BY DEF PacketsInv, ServiceInv
<1> QED  BY <1>1, PacketsStart, PacketsStep, PTL DEF PacketsSpec

(* No packet kept from an earlier promotion or instant grants an entry. *)
THEOREM PacketsGrantCurrent == PacketsSpec => []EntriesAreCurrent
<1>1. PacketsInv => EntriesAreCurrent  BY DEF PacketsInv, ServiceInv
<1> QED  BY <1>1, PacketsStart, PacketsStep, PTL DEF PacketsSpec

----------------------------------------------------------------------------
(* A transition that passes is one of the machine's table. *)
LEMMA PassedTransition ==
  ASSUME NEW m, NEW from, NEW to, EvaluateTransition(m, from, to) = "TRANSITION_ALLOWED"
  PROVE  m \in DOMAIN Machines /\ to \in StatesOf(m) /\ to \in NextStates(m, from)
<1>1. PICK gates : gates = TransitionGates(m, from, to)  OBVIOUS
<1>2. PICK answer : answer = "TRANSITION_ALLOWED"  OBVIOUS
<1>3. DOMAIN gates = 1..4 /\ DOMAIN gates \in SUBSET Nat /\ \A i \in DOMAIN gates : gates[i].answer # answer
  BY <1>1, <1>2 DEF TransitionGates, Gate
<1>4. answer = FirstClosed(gates, answer)  BY <1>1, <1>2 DEF EvaluateTransition
<1>5. \A i \in DOMAIN gates : ~ gates[i].closed  BY <1>3, <1>4, ChainOpen
<1>6. ~ gates[1].closed /\ ~ gates[2].closed /\ ~ gates[4].closed  BY <1>3, <1>5
<1>7. m \in DOMAIN Machines  BY <1>1, <1>6 DEF TransitionGates, Gate
<1>8. {from, to} \subseteq StatesOf(m)  BY <1>1, <1>6 DEF TransitionGates, Gate
<1>9. to \in NextStates(m, from)  BY <1>1, <1>6 DEF TransitionGates, Gate
<1> QED  BY <1>7, <1>8, <1>9

(* A lifecycle report passes only on an edge of the machine whose guards hold. *)
LEMMA PassedLifecycle ==
  ASSUME NEW m, NEW from, NEW to, EvaluateLifecycleTransition(m, from, to).status = "pass"
  PROVE  EvaluateTransition(m, from, to) = "TRANSITION_ALLOWED"
BY DEF EvaluateLifecycleTransition

(* The rungs a readiness record in a state was on since it was created or last set
   back. *)
RungsUpTo(n) == {ReplayLadder[k] : k \in 1..n}
Rungs ==
  [s \in DOMAIN ReadinessTransitions |->
     UNION {RungsUpTo(n) : n \in {m \in DOMAIN ReplayLadder : ReplayLadder[m] = s}}]

(* The rungs written out, state by state. *)
LEMMA RungsWrittenOut ==
  /\ DOMAIN ReplayLadder = 1..7
  /\ \A n \in 1..7 : ReplayLadder[n] \in DOMAIN ReadinessTransitions /\ Rungs[ReplayLadder[n]] = RungsUpTo(n)
  /\ \A s \in DOMAIN ReadinessTransitions : (\A n \in 1..7 : ReplayLadder[n] # s) => Rungs[s] = {}
<1>1. DOMAIN ReplayLadder = 1..7  BY DEF ReplayLadder
<1>2. \A n \in 1..7 : ReplayLadder[n] \in DOMAIN ReadinessTransitions  BY DEF ReplayLadder, ReadinessTransitions
<1>3. \A n, m \in 1..7 : ReplayLadder[n] = ReplayLadder[m] => n = m  BY DEF ReplayLadder
<1>4. ASSUME NEW n \in 1..7 PROVE Rungs[ReplayLadder[n]] = RungsUpTo(n)
  <2>1. {m \in DOMAIN ReplayLadder : ReplayLadder[m] = ReplayLadder[n]} = {n}  BY <1>1, <1>3
  <2> QED  BY <1>2, <2>1 DEF Rungs
<1>5. ASSUME NEW s \in DOMAIN ReadinessTransitions, \A n \in 1..7 : ReplayLadder[n] # s PROVE Rungs[s] = {}
  <2>1. {m \in DOMAIN ReplayLadder : ReplayLadder[m] = s} = {}  BY <1>1, <1>5
  <2> QED  BY <2>1 DEF Rungs
<1> QED  BY <1>1, <1>2, <1>4, <1>5

(* The edges that lead onto the ladder: to its foot from anywhere, and to any other
   rung from the one below. *)
LEMMA LadderHasNoShortcut ==
  ASSUME NEW from \in DOMAIN ReadinessTransitions, NEW n \in 2..7, ReplayLadder[n] \in ReadinessTransitions[from]
  PROVE  from = ReplayLadder[n - 1]
<1>1. /\ ReplayLadder[1] = "REPLAY_PENDING" /\ ReplayLadder[2] = "REPLAY_PASSED"
      /\ ReplayLadder[3] = "PAPER_ELIGIBLE" /\ ReplayLadder[4] = "PAPER_PASSED"
      /\ ReplayLadder[5] = "SHADOW_ELIGIBLE" /\ ReplayLadder[6] = "SHADOW_PASSED"
      /\ ReplayLadder[7] = "LIVE_ELIGIBLE"
  BY DEF ReplayLadder
<1>2. PICK to : to = ReplayLadder[n]  OBVIOUS
<1>3. to \in ReadinessTransitions[from]  BY <1>2
<1>4. /\ to = "REPLAY_PASSED" => from = "REPLAY_PENDING"
      /\ to = "PAPER_ELIGIBLE" => from = "REPLAY_PASSED"
      /\ to = "PAPER_PASSED" => from = "PAPER_ELIGIBLE"
      /\ to = "SHADOW_ELIGIBLE" => from = "PAPER_PASSED"
      /\ to = "SHADOW_PASSED" => from = "SHADOW_ELIGIBLE"
      /\ to = "LIVE_ELIGIBLE" => from = "SHADOW_PASSED"
  BY <1>3 DEF ReadinessTransitions, Setbacks
<1>5. n \in {2, 3, 4, 5, 6, 7}  OBVIOUS
<1> QED  BY <1>1, <1>2, <1>4, <1>5

(* The ladder: a step to a state adds no rung but that state. *)
LEMMA RungByRung ==
  ASSUME NEW from, NEW to, to \in NextStates("bundle_readiness", from)
  PROVE  /\ from \in DOMAIN ReadinessTransitions /\ to \in DOMAIN ReadinessTransitions
         /\ Rungs[to] \subseteq Rungs[from] \cup {to}
         /\ to \in Setbacks => Rungs[to] = {}
<1>1. /\ StatesOf("bundle_readiness") = DOMAIN ReadinessTransitions
      /\ Machines["bundle_readiness"].next = ReadinessTransitions
  BY DEF StatesOf, Machines
<1>2. from \in DOMAIN ReadinessTransitions /\ to \in ReadinessTransitions[from]
  BY <1>1 DEF NextStates
<1>3. to \in DOMAIN ReadinessTransitions  BY <1>2 DEF ReadinessTransitions, Setbacks
<1>4. Rungs[to] \subseteq Rungs[from] \cup {to}
  <2>1. CASE \A n \in 1..7 : ReplayLadder[n] # to
    <3>1. Rungs[to] = {}  BY <1>3, <2>1, RungsWrittenOut
    <3> QED  BY <3>1
  <2>2. ASSUME NEW n \in 1..7, ReplayLadder[n] = to PROVE Rungs[to] \subseteq Rungs[from] \cup {to}
    <3>1. Rungs[to] = RungsUpTo(n)  BY <2>2, RungsWrittenOut
    <3>2. CASE n = 1
      <4>1. RungsUpTo(n) \subseteq {to}  BY <2>2, <3>2 DEF RungsUpTo
      <4> QED  BY <3>1, <4>1
    <3>3. CASE n # 1
      <4>1. n \in 2..7 /\ n - 1 \in 1..7  BY <3>3
      <4>2. from = ReplayLadder[n - 1]  BY <1>2, <2>2, <4>1, LadderHasNoShortcut
      <4>3. Rungs[from] = RungsUpTo(n - 1)  BY <4>1, <4>2, RungsWrittenOut
      <4>4. RungsUpTo(n) \subseteq RungsUpTo(n - 1) \cup {to}  BY <2>2, <4>1 DEF RungsUpTo
      <4> QED  BY <3>1, <4>3, <4>4
    <3> QED  BY <3>2, <3>3
  <2> QED  BY <2>1, <2>2
<1>5. to \in Setbacks => Rungs[to] = {}
  <2>1. to \in Setbacks => \A n \in 1..7 : ReplayLadder[n] # to  BY DEF Setbacks, ReplayLadder
  <2> QED  BY <1>3, <2>1, RungsWrittenOut
<1> QED  BY <1>2, <1>3, <1>4, <1>5

SubjectInv ==
  subject # NoSubject =>
    /\ DOMAIN subject = {"machine", "state", "passed"}
    /\ subject.machine = "bundle_readiness" =>
         subject.state \in DOMAIN ReadinessTransitions /\ Rungs[subject.state] \subseteq subject.passed

(* A subject that moves has climbed every rung below since it was last set
   back. *)
LEMMA MoveSubjectKeepsInv ==
  ASSUME SubjectInv, NEW to, MoveSubject(to)
  PROVE  SubjectInv'
<1>1. PICK old : old = subject  OBVIOUS
<1>2. PICK passed : passed = IF to \in Setbacks THEN {to} ELSE old.passed \cup {to}  OBVIOUS
<1>3. /\ old # NoSubject /\ EvaluateLifecycleTransition(old.machine, old.state, to).status = "pass"
      /\ subject' = [old EXCEPT !.state = to, !.passed = passed]
  BY <1>1, <1>2 DEF MoveSubject
<1>4. DOMAIN old = {"machine", "state", "passed"}  BY <1>1, <1>3 DEF SubjectInv
<1>5. /\ subject'.machine = old.machine /\ subject'.state = to /\ subject'.passed = passed
      /\ DOMAIN subject' = {"machine", "state", "passed"}
  BY <1>3, <1>4
<1>6. ASSUME old.machine = "bundle_readiness"
      PROVE  to \in DOMAIN ReadinessTransitions /\ Rungs[to] \subseteq passed
  <2>1. to \in NextStates("bundle_readiness", old.state)
    BY <1>3, <1>6, PassedLifecycle, PassedTransition
  <2>2. /\ to \in DOMAIN ReadinessTransitions /\ Rungs[to] \subseteq Rungs[old.state] \cup {to}
        /\ to \in Setbacks => Rungs[to] = {}
    BY <2>1, RungByRung
  <2>3. Rungs[old.state] \subseteq old.passed  BY <1>1, <1>3, <1>6 DEF SubjectInv
  <2> QED  BY <1>2, <2>2, <2>3
<1> QED  BY <1>5, <1>6 DEF SubjectInv

(* A readiness record was on every rung from replay up to where it stands since its
   last setback, however often it was set back before. *)
THEOREM SubjectClimbsAgain == SubjectSpec => []LadderIsClimbedAgain
<1>1. SubjectInit => SubjectInv  BY DEF SubjectInit, SubjectInv
<1>2. SubjectInv /\ [SubjectNext]_subject => SubjectInv'
  <2> SUFFICES ASSUME SubjectInv, [SubjectNext]_subject PROVE SubjectInv'  OBVIOUS
  <2>1. ASSUME NEW m \in DOMAIN Machines, CreateSubject(m) PROVE SubjectInv'
    <3>1. PICK first : first = Machines[m].initial  OBVIOUS
    <3>2. subject' = [machine |-> m, state |-> first, passed |-> {first}]  BY <2>1, <3>1 DEF CreateSubject
    <3>3. m = "bundle_readiness" => first \in DOMAIN ReadinessTransitions /\ Rungs[first] = {}
      <4>1. m = "bundle_readiness" => first = "FROZEN"  BY <3>1 DEF Machines
      <4>2. "FROZEN" \in DOMAIN ReadinessTransitions  BY DEF ReadinessTransitions
      <4>3. \A n \in 1..7 : ReplayLadder[n] # "FROZEN"  BY DEF ReplayLadder
      <4> QED  BY <4>1, <4>2, <4>3, RungsWrittenOut
    <3> QED  BY <3>2, <3>3 DEF SubjectInv
  <2>2. CASE UNCHANGED subject  BY <2>2 DEF SubjectInv
  <2> QED  BY <2>1, <2>2, MoveSubjectKeepsInv DEF SubjectNext
<1>3. SubjectInv => LadderIsClimbedAgain
  <2> SUFFICES ASSUME SubjectInv, subject # NoSubject, subject.machine = "bundle_readiness",
                      NEW n \in DOMAIN ReplayLadder, subject.state = ReplayLadder[n]
               PROVE  RungsUpTo(n) \subseteq subject.passed
    BY DEF LadderIsClimbedAgain, RungsUpTo
  <2>1. Rungs[subject.state] \subseteq subject.passed  BY DEF SubjectInv
  <2>2. n \in 1..7 /\ Rungs[subject.state] = RungsUpTo(n)  BY RungsWrittenOut
  <2> QED  BY <2>1, <2>2
<1> QED  BY <1>1, <1>2, <1>3, PTL DEF SubjectSpec

----------------------------------------------------------------------------
(* Drift that is certified was declared, and came with a new matrix version. *)
LEMMA CertifiedDrift ==
  ASSUME NEW m, NEW baseline, NEW candidate, NEW declared, NEW active,
         EvaluateCompatibility(m, baseline, candidate, declared, active)
           \in {"DRIFT_REQUIRES_RECERTIFICATION", "MATRIX_CHANGED"}
  PROVE  Changed(baseline, candidate) \subseteq declared /\ Matrix \in Changed(baseline, candidate)
<1>1. PICK gates : gates = CompatibilityGates(m, baseline, candidate, declared, active)  OBVIOUS
<1>2. PICK changed : changed = Changed(baseline, candidate)  OBVIOUS
<1>3. PICK answer : answer = FirstClosed(gates, "CONFIRMED")  OBVIOUS
<1>4. answer \in {"DRIFT_REQUIRES_RECERTIFICATION", "MATRIX_CHANGED"}
  BY <1>1, <1>3 DEF EvaluateCompatibility
<1>5. DOMAIN gates = 1..8 /\ DOMAIN gates \in SUBSET Nat
  BY <1>1 DEF CompatibilityGates
<1>6. /\ gates[1].answer = "UNKNOWN_MACHINE" /\ gates[2].answer = "UNKNOWN_DOMAIN"
      /\ gates[3].answer = "FIELDS_MISSING" /\ gates[4].answer = "MATRIX_NOT_BUMPED"
      /\ gates[5].answer = "UNDECLARED_DRIFT" /\ gates[6].answer = "ACTIVE_SESSION_CHANGE"
  BY <1>1 DEF CompatibilityGates, Gate
<1>7. /\ gates[4].closed <=> changed # {} /\ Matrix \notin changed
      /\ gates[5].closed <=> ~(changed \subseteq declared)
      /\ gates[7].closed => changed # {}
      /\ gates[8].closed => changed # {}
  BY <1>1, <1>2 DEF CompatibilityGates, Gate
<1>8. PICK i \in DOMAIN gates :
        /\ gates[i].closed /\ answer = gates[i].answer
        /\ \A j \in DOMAIN gates : j < i => ~ gates[j].closed
  BY <1>3, <1>4, <1>5, ChainAnswers
<1>9. i \in {7, 8}  BY <1>4, <1>5, <1>6, <1>8
<1>10. changed # {} /\ ~ gates[4].closed /\ ~ gates[5].closed  BY <1>5, <1>7, <1>8, <1>9
<1> QED  BY <1>2, <1>7, <1>10

DriftInv ==
  DOMAIN vector = {"first", "certified"} /\ Changed(vector.first, vector.certified) \subseteq declaredEver

(* A check that passes changes only domains declared by then. *)
LEMMA CheckDrifts ==
  ASSUME DriftInv, NEW m, NEW candidate, NEW declared, NEW active,
         CheckCandidate(m, candidate, declared, active)
  PROVE  /\ DriftInv' /\ Changed(vector'.first, vector'.certified) \subseteq declaredEver'
         /\ vector'.certified[Matrix] # vector.certified[Matrix]
<1>1. PICK old : old = vector  OBVIOUS
<1>2. /\ DOMAIN old = {"first", "certified"} /\ vector' = [old EXCEPT !.certified = candidate]
      /\ declaredEver' = declaredEver \cup declared
      /\ EvaluateCompatibility(m, old.certified, candidate, declared, active)
           \in {"DRIFT_REQUIRES_RECERTIFICATION", "MATRIX_CHANGED"}
  BY <1>1 DEF CheckCandidate, DriftInv
<1>3. vector'.first = old.first /\ vector'.certified = candidate /\ DOMAIN vector' = {"first", "certified"}
  BY <1>2
<1>4. Changed(old.certified, candidate) \subseteq declared /\ Matrix \in Changed(old.certified, candidate)
  BY <1>2, CertifiedDrift
<1>5. Changed(old.first, candidate) \subseteq Changed(old.first, old.certified) \cup Changed(old.certified, candidate)
  BY DEF Changed
<1>6. Changed(old.first, old.certified) \subseteq declaredEver  BY <1>1 DEF DriftInv
<1>7. Changed(vector'.first, vector'.certified) \subseteq declaredEver'
  BY <1>2, <1>3, <1>4, <1>5, <1>6
<1>8. vector'.certified[Matrix] # vector.certified[Matrix]
  BY <1>1, <1>3, <1>4 DEF Changed
<1> QED  BY <1>3, <1>7, <1>8 DEF DriftInv

(* However many migrations a subject goes through, it differs from the vector
   first approved only where somebody declared it. *)
THEOREM CompatibilityDeclares == CompatibilitySpec => DriftIsDeclared
<1>1. CompatibilityInit => DriftInv
  BY DEF CompatibilityInit, DriftInv, Changed
<1>2. DriftInv /\ [CompatibilityNext]_compatibilityVars
        => /\ DriftInv'
           /\ [/\ Changed(vector'.first, vector'.certified) \subseteq declaredEver'
               /\ vector'.certified[Matrix] # vector.certified[Matrix]]_compatibilityVars
  <2> SUFFICES ASSUME DriftInv, [CompatibilityNext]_compatibilityVars
               PROVE  /\ DriftInv'
                      /\ [/\ Changed(vector'.first, vector'.certified) \subseteq declaredEver'
                          /\ vector'.certified[Matrix] # vector.certified[Matrix]]_compatibilityVars
    OBVIOUS
  <2>1. CASE CompatibilityNext  BY <2>1, CheckDrifts DEF CompatibilityNext
  <2>2. CASE UNCHANGED compatibilityVars  BY <2>2 DEF compatibilityVars, DriftInv
  <2> QED  BY <2>1, <2>2
<1> QED  BY <1>1, <1>2, PTL DEF CompatibilitySpec, DriftIsDeclared

----------------------------------------------------------------------------
(* A correction that is classified asks of the record what its impact admits. *)
LEMMA ClassifiedAction ==
  ASSUME NEW correction, Classified(correction)
  PROVE  correction.update = "none_named" \/ correction.update \in AllowedActions[correction.impact]
<1>1. PICK e : e = CorrectionEvent(correction)  OBVIOUS
<1>2. PICK gates : gates = CorrectionGates(e)  OBVIOUS
<1>3. PICK answer : answer = "POLICY_CLASSIFIED"  OBVIOUS
<1>4. DOMAIN gates = 1..7 /\ DOMAIN gates \in SUBSET Nat /\ \A i \in DOMAIN gates : gates[i].answer # answer
  BY <1>2, <1>3 DEF CorrectionGates, Gate
<1>5. answer = FirstClosed(gates, answer)  BY <1>1, <1>2, <1>3 DEF Classified, EvaluateCorrection
<1>6. \A i \in DOMAIN gates : ~ gates[i].closed  BY <1>4, <1>5, ChainOpen
<1>7. ~ gates[6].closed  BY <1>4, <1>6
<1>8. {e.updates[d] : d \in DOMAIN e.updates} \subseteq AllowedActions[e.impact]
  BY <1>2, <1>7 DEF CorrectionGates, Gate
<1>9. PICK action : action = IF correction.update = "none_named"
                             THEN CHOOSE a \in AllowedActions[correction.impact] : TRUE
                             ELSE correction.update
  OBVIOUS
<1>10. e.impact = correction.impact /\ e.updates = [d \in {"record"} |-> action]
  BY <1>1, <1>9 DEF CorrectionEvent
<1>11. action \in AllowedActions[correction.impact]  BY <1>8, <1>10
<1> QED  BY <1>9, <1>11

(* What becomes of a record: a state the chain names, or its own. *)
LEMMA ResultingCases ==
  ASSUME NEW correction, NEW state, NEW current, NEW named, NEW impact, NEW resulting,
         named = IF correction = NoCorrection THEN "none_named" ELSE correction.update,
         impact = IF correction = NoCorrection THEN "none" ELSE correction.impact,
         resulting = ResultingState(correction, state, current)
  PROVE  \/ /\ resulting = current
            /\ named \notin {"recertify", "quarantine", "supersede"}
            /\ impact \notin {"recert_required", "suspect"} /\ state \notin Degraded
         \/ /\ resulting \in Setbacks
            /\ \/ named \in {"recertify", "quarantine", "supersede"}
               \/ impact \in {"recert_required", "suspect"} \/ state \in Degraded
<1>1. PICK gates : gates = ImpactGates(named, impact, state)  OBVIOUS
<1>2. resulting = FirstClosed(gates, current)  BY <1>1 DEF ResultingState
<1>3. DOMAIN gates = 1..7 /\ DOMAIN gates \in SUBSET Nat /\ \A i \in DOMAIN gates : gates[i].answer \in Setbacks
  BY <1>1 DEF ImpactGates, Gate, Setbacks
<1>4. /\ gates[1].closed <=> named = "recertify"
      /\ gates[2].closed <=> named = "quarantine"
      /\ gates[3].closed <=> named = "supersede"
      /\ gates[4].closed <=> impact = "recert_required"
      /\ gates[5].closed <=> impact = "suspect"
      /\ gates[6].closed <=> state = "QUARANTINED"
      /\ gates[7].closed <=> state = "REVOKED"
  BY <1>1 DEF ImpactGates, Gate
<1>5. (\E i \in DOMAIN gates : gates[i].closed) <=>
        \/ named \in {"recertify", "quarantine", "supersede"}
        \/ impact \in {"recert_required", "suspect"} \/ state \in Degraded
  <2>1. DOMAIN gates = {1, 2, 3, 4, 5, 6, 7}  BY <1>3
  <2> QED  BY <1>4, <2>1 DEF Degraded
<1>6. \/ resulting = current /\ \A i \in DOMAIN gates : ~ gates[i].closed
      \/ \E i \in DOMAIN gates : gates[i].closed /\ resulting = gates[i].answer
  BY <1>2, <1>3, ChainAnswers
<1> QED  BY <1>3, <1>5, <1>6

(* A propagation report answers a fault, and raises no alarm without one. *)
LEMMA ReportAnswersFaults ==
  ASSUME NEW r, NEW correction, NEW waived \in BOOLEAN, Propagate(r, correction, waived),
         propagation' # NoReport
  PROVE  FaultsArePropagated'
<1>1. PICK state : state = releaseState[r]  OBVIOUS
<1>2. PICK resulting : resulting = ResultingState(correction, state, readiness)  OBVIOUS
<1>3. PICK action : action = LiveAction(resulting, readiness, deployment, waived)  OBVIOUS
<1>4. propagation' = [release |-> r, state |-> state, correction |-> correction, before |-> readiness,
                      resulting |-> resulting, deployment |-> deployment, waived |-> waived, action |-> action]
  BY <1>1, <1>2, <1>3 DEF Propagate
<1>5. PICK named : named = IF correction = NoCorrection THEN "none_named" ELSE correction.update  OBVIOUS
<1>6. PICK impact : impact = IF correction = NoCorrection THEN "none" ELSE correction.impact  OBVIOUS
<1>7. \/ /\ resulting = readiness
         /\ named \notin {"recertify", "quarantine", "supersede"}
         /\ impact \notin {"recert_required", "suspect"} /\ state \notin Degraded
      \/ /\ resulting \in Setbacks
         /\ \/ named \in {"recertify", "quarantine", "supersede"}
            \/ impact \in {"recert_required", "suspect"} \/ state \in Degraded
  BY <1>2, <1>5, <1>6, ResultingCases
<1>8. DegradationIsAnswered'
  <2>1. ASSUME \/ correction # NoCorrection /\ Classified(correction) /\ correction.impact \in {"recert_required", "suspect"}
               \/ correction = NoCorrection /\ state \in Degraded,
               readiness \notin Setbacks
        PROVE  /\ resulting \in Setbacks
               /\ deployment \in LiveStates =>
                    action = IF waived THEN "continue_with_reviewed_waiver" ELSE "withdraw_required"
    <3>1. resulting \in Setbacks  BY <1>6, <1>7, <2>1
    <3>2. resulting # readiness  BY <2>1, <3>1
    <3> QED  BY <1>3, <3>1, <3>2 DEF LiveAction
  <2> QED  BY <1>4, <2>1 DEF DegradationIsAnswered, Classified, CorrectionEvent
<1>9. NoAlarmWithoutCause'
  <2>1. ASSUME action # "none", state \notin Degraded
        PROVE  /\ correction # NoCorrection
               /\ ~(Classified(correction) /\ correction.impact \in {"none", "diagnostic_only"})
    <3>1. resulting # readiness  BY <1>3, <2>1 DEF LiveAction
    <3>2. named \in {"recertify", "quarantine", "supersede"} \/ impact \in {"recert_required", "suspect"}
      BY <1>7, <2>1, <3>1
    <3>3. correction # NoCorrection  BY <1>5, <1>6, <3>2
    <3>4. ASSUME Classified(correction), correction.impact \in {"none", "diagnostic_only"} PROVE FALSE
      <4>1. correction.update = "none_named" \/ correction.update \in AllowedActions[correction.impact]
        BY <3>4, ClassifiedAction
      <4>2. AllowedActions[correction.impact] = {"retain", "annotate"}  BY <3>4 DEF AllowedActions
      <4> QED  BY <1>5, <1>6, <3>2, <3>3, <3>4, <4>1, <4>2
    <3> QED  BY <3>3, <3>4
  <2> QED  BY <1>4, <2>1 DEF NoAlarmWithoutCause, Classified, CorrectionEvent
<1> QED  BY <1>8, <1>9 DEF FaultsArePropagated

(* Every fault of a dependency that matters is answered at once, and nothing
   else is: for any releases and corrections. *)
THEOREM PropagationAnswersFaults == PropagationSpec => []FaultsArePropagated
<1>1. propagation = NoReport => FaultsArePropagated
  BY DEF FaultsArePropagated, DegradationIsAnswered, NoAlarmWithoutCause
<1>2. PropagationInit => FaultsArePropagated  BY <1>1 DEF PropagationInit
<1>3. FaultsArePropagated /\ [PropagationNext]_propagationVars => FaultsArePropagated'
  <2> SUFFICES ASSUME FaultsArePropagated, [PropagationNext]_propagationVars PROVE FaultsArePropagated'
    OBVIOUS
  <2>1. propagation' = NoReport => FaultsArePropagated'
    BY DEF FaultsArePropagated, DegradationIsAnswered, NoAlarmWithoutCause
  <2>2. ASSUME NEW r \in Releases, NEW c \in Corrections \cup {NoCorrection}, NEW waived \in BOOLEAN,
               Propagate(r, c, waived)
        PROVE  FaultsArePropagated'
    BY <2>1, <2>2, ReportAnswersFaults
  <2>3. CASE UNCHANGED propagationVars
    BY <2>3 DEF propagationVars, FaultsArePropagated, DegradationIsAnswered, NoAlarmWithoutCause, Classified, CorrectionEvent
  <2> QED
    BY <2>1, <2>2, <2>3 DEF PropagationNext, MoveRelease, MoveReadiness, MoveDeployment, ReviewWithdrawal
<1> QED  BY <1>2, <1>3, PTL DEF PropagationSpec

(* What the finding about live waivers leaves: a live deployment continues through a
   degraded dependency without a waiver only where its record was set back already
   and the fault set it back no further. *)
LiveContinuesOverSetbacksOnly ==
  (propagation # NoReport /\ propagation.state \in Degraded /\ propagation.deployment \in LiveStates)
    => \/ propagation.waived
       \/ propagation.action = "withdraw_required"
       \/ propagation.before \in Setbacks /\ propagation.resulting = propagation.before

(* The report readiness_revocation.py gives of a degraded release. *)
LEMMA ReportWithdrawsOrStands ==
  ASSUME NEW r, NEW correction, NEW waived \in BOOLEAN, Propagate(r, correction, waived),
         propagation' # NoReport
  PROVE  LiveContinuesOverSetbacksOnly'
<1>1. PICK state : state = releaseState[r]  OBVIOUS
<1>2. PICK resulting : resulting = ResultingState(correction, state, readiness)  OBVIOUS
<1>3. PICK action : action = LiveAction(resulting, readiness, deployment, waived)  OBVIOUS
<1>4. propagation' = [release |-> r, state |-> state, correction |-> correction, before |-> readiness,
                      resulting |-> resulting, deployment |-> deployment, waived |-> waived, action |-> action]
  BY <1>1, <1>2, <1>3 DEF Propagate
<1>5. state \in Degraded => resulting \in Setbacks
  <2>1. PICK named : named = IF correction = NoCorrection THEN "none_named" ELSE correction.update  OBVIOUS
  <2>2. PICK impact : impact = IF correction = NoCorrection THEN "none" ELSE correction.impact  OBVIOUS
  <2> QED  BY <1>2, <2>1, <2>2, ResultingCases
<1>6. ASSUME state \in Degraded, deployment \in LiveStates, ~waived
      PROVE  action = "withdraw_required" \/ (readiness \in Setbacks /\ resulting = readiness)
  BY <1>3, <1>5, <1>6 DEF LiveAction
<1> QED  BY <1>4, <1>6 DEF LiveContinuesOverSetbacksOnly

(* However releases, records and deployments move, no live deployment on a healthy
   record continues unwaived through a degraded dependency. *)
THEOREM PropagationSparesSetbacksOnly == PropagationSpec => []LiveContinuesOverSetbacksOnly
<1>1. propagation = NoReport => LiveContinuesOverSetbacksOnly
  BY DEF LiveContinuesOverSetbacksOnly
<1>2. PropagationInit => LiveContinuesOverSetbacksOnly  BY <1>1 DEF PropagationInit
<1>3. LiveContinuesOverSetbacksOnly /\ [PropagationNext]_propagationVars => LiveContinuesOverSetbacksOnly'
  <2> SUFFICES ASSUME LiveContinuesOverSetbacksOnly, [PropagationNext]_propagationVars
               PROVE  LiveContinuesOverSetbacksOnly'
    OBVIOUS
  <2>1. propagation' = NoReport => LiveContinuesOverSetbacksOnly'
    BY DEF LiveContinuesOverSetbacksOnly
  <2>2. ASSUME NEW r \in Releases, NEW c \in Corrections \cup {NoCorrection}, NEW waived \in BOOLEAN,
               Propagate(r, c, waived)
        PROVE  LiveContinuesOverSetbacksOnly'
    BY <2>1, <2>2, ReportWithdrawsOrStands
  <2>3. CASE UNCHANGED propagationVars
    BY <2>3 DEF propagationVars, LiveContinuesOverSetbacksOnly
  <2> QED
    BY <2>1, <2>2, <2>3 DEF PropagationNext, MoveRelease, MoveReadiness, MoveDeployment, ReviewWithdrawal
<1> QED  BY <1>2, <1>3, PTL DEF PropagationSpec
=============================================================================
