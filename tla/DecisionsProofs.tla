---------------------------- MODULE DecisionsProofs ----------------------------
(***************************************************************************)
(* What holds of the components of MCDecisions, for any constants.  Each   *)
(* is proved of its own specification, and holds in every behaviour of the *)
(* composition because each of those is one of every component             *)
(* (DecisionsRunEach).  In order: what supervision, guardian and recovery  *)
(* keep; the records that only grow; the types; the evaluators, of which   *)
(* none answers worse news more mildly; and the compiled schedule.         *)
(***************************************************************************)
EXTENDS MCDecisions, PromotionProofs, ResearchStateProofs, FiniteSetTheorems

(* A behaviour of the components side by side is one of each of them. *)
THEOREM DecisionsRunEach ==
  DecisionsSpec => /\ ReadinessSpec /\ RoutingSpec /\ RiskSpec /\ IntradaySpec /\ RecoverySpec
                   /\ SupervisionSpec /\ GuardianSpec /\ SubjectSpec /\ CompatibilitySpec
                   /\ PropagationSpec /\ ResearchSpec /\ PacketsSpec /\ ScheduleSpec
                   /\ LiveBarsSpec /\ EarlySpec /\ FeatureSpec /\ SubmissionSpec
<1>1. DecisionsInit => /\ ReadinessInit /\ RoutingInit /\ RiskInit /\ IntradayInit /\ RecoveryInit
                       /\ SupervisionInit /\ GuardianInit /\ SubjectInit /\ CompatibilityInit
                       /\ PropagationInit /\ ResearchInit /\ PacketsInit /\ ScheduleInit
                       /\ LiveBarsInit /\ EarlyInit /\ FeatureInit /\ SubmissionInit
  BY DEF DecisionsInit
<1>2. [DecisionsNext]_<<running, operationalVars, policyVars>> =>
        /\ [ReadinessNext]_readinessVars /\ [RoutingNext]_routingVars /\ [RiskNext]_request
        /\ [IntradayNext]_latestIntraday /\ [RecoveryNext]_recoveryVars /\ [SupervisionNext]_supervisionVars
        /\ [GuardianNext]_guardianVars /\ [ScheduleNext]_installed /\ [LiveBarsNext]_liveBar
  BY DEF DecisionsNext, OperationalNext, PolicyNext, operationalVars
<1>3. [DecisionsNext]_<<running, operationalVars, policyVars>> =>
        /\ [SubjectNext]_subject /\ [CompatibilityNext]_compatibilityVars /\ [PropagationNext]_propagationVars
        /\ [ResearchNext]_researchVars /\ [BundleNext \/ ServiceNext]_packetVars
        /\ [EarlyNext]_earlyReport /\ [FeatureNext]_surfaceReport /\ [SubmissionNext]_submission
  BY DEF DecisionsNext, OperationalNext, PolicyNext, policyVars
<1> QED
  BY <1>1, <1>2, <1>3, PTL DEF DecisionsSpec, ReadinessSpec, RoutingSpec, RiskSpec, IntradaySpec, RecoverySpec,
     SupervisionSpec, GuardianSpec, SubjectSpec, CompatibilitySpec, PropagationSpec, ResearchSpec, PacketsSpec,
     ScheduleSpec, LiveBarsSpec, EarlySpec, FeatureSpec, SubmissionSpec

----------------------------------------------------------------------------
(* RestartsAreBounded is not inductive alone: what is compared with the limit
   is the count the reports carry forward, which CountsTellRestarts ties to
   the restarts asked for. *)
CountsInv ==
  /\ attempts \in [Targets -> Nat] /\ restarts \in [Targets -> Nat]
  /\ CountsTellRestarts /\ RestartsAreBounded

(* What one observation of a target may result in: healthy clears the count, a
   restart adds one to it and stays within the limit, and a quarantine either
   leaves it alone (no gate) or finds the limit used up. *)
LEMMA VerdictCases ==
  ASSUME NEW target \in Targets, NEW liveness, NEW gate, attempts[target] \in Nat
  PROVE  LET verdict == EvaluateObservation(target, liveness, gate)
         IN  \/ liveness \in Healthy /\ verdict.attempts = 0 /\ verdict.action = "observe"
             \/ /\ liveness \notin Healthy /\ verdict.action = "restart"
                /\ verdict.attempts = attempts[target] + 1 /\ attempts[target] + 1 <= 2
             \/ /\ liveness \notin Healthy /\ verdict.action = "quarantine"
                /\ \/ verdict.attempts = attempts[target]
                   \/ verdict.attempts = attempts[target] + 1 /\ attempts[target] + 1 > 2
<1>1. CASE liveness = "aging"
  BY <1>1 DEF EvaluateObservation, Verdict, Healthy
<1>2. CASE liveness = "healthy"
  BY <1>2 DEF EvaluateObservation, Verdict, Healthy
<1>3. CASE liveness \notin Healthy /\ target = "opsd" /\ ~gate
  BY <1>3 DEF EvaluateObservation, Verdict, Healthy
<1>4. CASE liveness \notin Healthy /\ ~(target = "opsd" /\ ~gate)
  <2>1. EvaluateObservation(target, liveness, gate)
          = IF attempts[target] + 1 > MaxRestartAttemptsBeforeQuarantine
            THEN Verdict("block", "quarantine", attempts[target] + 1)
            ELSE Verdict("restrict", "restart", attempts[target] + 1)
    BY <1>4 DEF EvaluateObservation, Healthy
  <2> QED
    BY <1>4, <2>1 DEF Verdict, MaxRestartAttemptsBeforeQuarantine
<1> QED
  BY <1>1, <1>2, <1>3, <1>4 DEF Healthy

(* What a bundle says of a target is a sequence that ends. *)
LEMMA SightingsEnd ==
  ASSUME NEW seen \in Sightings
  PROVE  seen \in Seq(Liveness) /\ Len(seen) \in DOMAIN seen /\ Final(seen) \in Liveness
<1>1. PICK n \in 1..MaxSightings : seen \in [1..n -> Liveness]  BY DEF Sightings
<1>2. n \in Nat /\ n > 0  BY SupervisionAssumption
<1>3. Len(seen) = n /\ DOMAIN seen = 1..n /\ seen \in Seq(Liveness)  BY <1>1, <1>2
<1>4. n \in 1..n  BY <1>2
<1> QED  BY <1>1, <1>3, <1>4 DEF Final

(* Only an unhealthy observation asks for a restart. *)
LEMMA HealthyIsObserved ==
  ASSUME NEW target, NEW liveness, NEW gate, EvaluateObservation(target, liveness, gate).action = "restart"
  PROVE  liveness \notin Healthy
<1>1. ASSUME liveness \in Healthy PROVE FALSE
  <2>1. CASE liveness = "aging"  BY <2>1 DEF EvaluateObservation, Verdict, Healthy
  <2>2. CASE liveness = "healthy"  BY <2>2 DEF EvaluateObservation, Verdict, Healthy
  <2> QED  BY <1>1, <2>1, <2>2 DEF Healthy
<1> QED  BY <1>1

(* Two unhealthy observations of a target in one bundle are answered alike. *)
LEMMA UnhealthyAlike ==
  ASSUME NEW target, NEW gate, NEW first, NEW second, first \notin Healthy, second \notin Healthy
  PROVE  EvaluateObservation(target, first, gate) = EvaluateObservation(target, second, gate)
<1> DEFINE escalated == IF attempts[target] + 1 > MaxRestartAttemptsBeforeQuarantine
                        THEN Verdict("block", "quarantine", attempts[target] + 1)
                        ELSE Verdict("restrict", "restart", attempts[target] + 1)
           refused == Verdict("block", "quarantine", attempts[target])
<1>1. ASSUME NEW liveness, liveness \notin Healthy
      PROVE  EvaluateObservation(target, liveness, gate) = IF target = "opsd" /\ ~gate THEN refused ELSE escalated
  <2>1. liveness # "aging" /\ liveness # "healthy"  BY <1>1 DEF Healthy
  <2>2. CASE target = "opsd" /\ ~gate  BY <1>1, <2>1, <2>2 DEF EvaluateObservation
  <2>3. CASE ~(target = "opsd" /\ ~gate)  BY <1>1, <2>1, <2>3 DEF EvaluateObservation
  <2> QED  BY <2>2, <2>3
<1> QED  BY <1>1

(* Evaluating a bundle (evaluate_supervision_bundle) counts a restart exactly
   where it asks for one. *)
LEMMA BundleKeepsCounts ==
  ASSUME NEW observed \in SUBSET Targets, NEW gate \in BOOLEAN,
         NEW seen \in [observed -> Sightings],
         CountsInv, EvaluateBundle(observed, seen, gate)
  PROVE  CountsInv'
<1> DEFINE reports == [t \in observed |-> [n \in DOMAIN seen[t] |-> EvaluateObservation(t, seen[t][n], gate)]]
           verdict(t) == EvaluateObservation(t, Final(seen[t]), gate)
<1>0. \A t \in observed : /\ seen[t] \in Seq(Liveness) /\ Len(seen[t]) \in DOMAIN seen[t]
                          /\ Final(seen[t]) \in Liveness
  BY SightingsEnd
<1>5. ASSUME NEW t \in observed
      PROVE  /\ Final(reports[t]) = verdict(t)
             /\ Final(seen[t]) \notin Healthy =>
                  ((\E n \in DOMAIN seen[t] : reports[t][n].action = "restart") => verdict(t).action = "restart")
             /\ verdict(t).action = "restart" => \E n \in DOMAIN seen[t] : reports[t][n].action = "restart"
  <2> DEFINE last == Len(seen[t])
  <2>1. DOMAIN reports[t] = DOMAIN seen[t]
        /\ \A n \in DOMAIN seen[t] : reports[t][n] = EvaluateObservation(t, seen[t][n], gate)
    OBVIOUS
  <2>2. DOMAIN seen[t] = 1..last /\ last \in Nat  BY <1>0
  <2> HIDE DEF reports
  <2>3. Len(reports[t]) = last
    <3>1. PICK rs : rs = reports[t]  OBVIOUS
    <3>2. rs = [n \in 1..last |-> rs[n]]  BY <2>1, <2>2, <3>1 DEF reports
    <3>3. Len([n \in 1..last |-> rs[n]]) = last  BY <2>2
    <3> QED  BY <3>1, <3>2, <3>3
  <2>4. reports[t][last] = verdict(t)  BY <1>0, <2>1 DEF Final
  <2>5. ASSUME NEW n \in DOMAIN seen[t], reports[t][n].action = "restart", Final(seen[t]) \notin Healthy
        PROVE  verdict(t).action = "restart"
    <3>1. seen[t][n] \notin Healthy
      <4>1. seen[t][n] \in Liveness  BY <1>0
      <4> QED  BY <2>1, <2>5, <4>1, HealthyIsObserved
    <3>2. EvaluateObservation(t, seen[t][n], gate) = verdict(t)  BY <2>5, <3>1, UnhealthyAlike
    <3> QED  BY <2>1, <2>5, <3>2
  <2> QED  BY <1>0, <2>3, <2>4, <2>5 DEF Final
<1>6. /\ attempts' = [t \in Targets |-> IF t \in observed THEN Final(reports[t]).attempts ELSE attempts[t]]
      /\ restarts' = [t \in Targets |->
                        IF t \notin observed THEN restarts[t]
                        ELSE IF Final(seen[t]) \in Healthy THEN 0
                        ELSE IF \E n \in DOMAIN seen[t] : reports[t][n].action = "restart"
                             THEN restarts[t] + 1 ELSE restarts[t]]
  BY Zenon DEF EvaluateBundle
<1> HIDE DEF reports, verdict
<1>1. \A t \in observed : /\ attempts'[t] = verdict(t).attempts
                          /\ restarts'[t] = IF Final(seen[t]) \in Healthy THEN 0
                                            ELSE IF verdict(t).action = "restart"
                                            THEN restarts[t] + 1 ELSE restarts[t]
  <2> SUFFICES ASSUME NEW t \in observed
               PROVE  /\ attempts'[t] = verdict(t).attempts
                      /\ restarts'[t] = IF Final(seen[t]) \in Healthy THEN 0
                                        ELSE IF verdict(t).action = "restart"
                                        THEN restarts[t] + 1 ELSE restarts[t]
    OBVIOUS
  <2>1. t \in Targets  OBVIOUS
  <2>2. attempts'[t] = Final(reports[t]).attempts  BY <1>6, <2>1
  <2>3. restarts'[t] = IF Final(seen[t]) \in Healthy THEN 0
                       ELSE IF \E n \in DOMAIN seen[t] : reports[t][n].action = "restart"
                            THEN restarts[t] + 1 ELSE restarts[t]
    BY <1>6, <2>1
  <2> QED  BY <1>5, <2>2, <2>3
<1>2. \A t \in Targets \ observed : attempts'[t] = attempts[t] /\ restarts'[t] = restarts[t]
  BY <1>6
<1>3. ASSUME NEW t \in Targets
      PROVE  /\ attempts'[t] \in Nat /\ restarts'[t] \in Nat
             /\ restarts'[t] <= attempts'[t] /\ restarts'[t] <= 2
             /\ attempts'[t] <= MaxRestartAttemptsBeforeQuarantine => attempts'[t] = restarts'[t]
  <2>0. /\ attempts[t] \in Nat /\ restarts[t] \in Nat /\ restarts[t] <= attempts[t]
        /\ restarts[t] <= 2
        /\ attempts[t] <= 2 => attempts[t] = restarts[t]
    BY DEF CountsInv, CountsTellRestarts, RestartsAreBounded, MaxRestartAttemptsBeforeQuarantine
  <2>1. CASE t \notin observed
    BY <2>0, <2>1, <1>2 DEF MaxRestartAttemptsBeforeQuarantine
  <2>2. CASE t \in observed
    <3> HIDE DEF verdict
    <3>1. \/ Final(seen[t]) \in Healthy /\ verdict(t).attempts = 0
          \/ /\ Final(seen[t]) \notin Healthy /\ verdict(t).action = "restart"
             /\ verdict(t).attempts = attempts[t] + 1 /\ attempts[t] + 1 <= 2
          \/ /\ Final(seen[t]) \notin Healthy /\ verdict(t).action = "quarantine"
             /\ \/ verdict(t).attempts = attempts[t]
                \/ verdict(t).attempts = attempts[t] + 1 /\ attempts[t] + 1 > 2
      BY <1>0, <2>0, <2>2, VerdictCases DEF verdict
    <3> QED
      BY <2>0, <2>2, <3>1, <1>1 DEF MaxRestartAttemptsBeforeQuarantine
  <2> QED
    BY <2>1, <2>2
<1>4. /\ attempts' = [t \in Targets |-> attempts'[t]]
      /\ restarts' = [t \in Targets |-> restarts'[t]]
  BY <1>6
<1> QED
  BY <1>3, <1>4 DEF CountsInv, CountsTellRestarts, RestartsAreBounded,
                    MaxRestartAttemptsBeforeQuarantine

(* The counts and the bound together are inductive. *)
THEOREM SupervisionInvariant == SupervisionSpec => []CountsInv
<1>1. SupervisionInit => CountsInv
  BY DEF SupervisionInit, CountsInv, CountsTellRestarts, RestartsAreBounded,
         MaxRestartAttemptsBeforeQuarantine
<1>2. CountsInv /\ [SupervisionNext]_supervisionVars => CountsInv'
  <2> SUFFICES ASSUME CountsInv, [SupervisionNext]_supervisionVars PROVE CountsInv'
    OBVIOUS
  <2>1. CASE EvaluateEmptyBundle
    BY <2>1 DEF EvaluateEmptyBundle, CountsInv, CountsTellRestarts, RestartsAreBounded
  <2>2. ASSUME NEW observed \in (SUBSET Targets) \ {{}}, NEW gate \in BOOLEAN,
               NEW seen \in [observed -> Sightings],
               EvaluateBundle(observed, seen, gate)
        PROVE  CountsInv'
    BY <2>2, BundleKeepsCounts
  <2>3. CASE UNCHANGED supervisionVars
    BY <2>3 DEF supervisionVars, CountsInv, CountsTellRestarts, RestartsAreBounded
  <2> QED
    BY <2>1, <2>2, <2>3 DEF SupervisionNext
<1> QED
  BY <1>1, <1>2, PTL DEF SupervisionSpec

(* No target is restarted more than twice between two healthy observations,
   and the attempts a report carries forward tell the restarts asked for since
   the target was last healthy, however observations, refusals and escalations
   interleave. *)
THEOREM SupervisionCounts == SupervisionSpec => []RestartsAreCounted
<1>1. CountsInv => RestartsAreCounted
  BY DEF CountsInv, RestartsAreCounted
<1> QED
  BY <1>1, SupervisionInvariant, PTL

----------------------------------------------------------------------------
GuardianInv == GuardianTypeOK /\ EmergenciesAreIssuedOnce

(* The guardian starts with nothing executed and nothing issued. *)
LEMMA GuardianStarts == GuardianInit => GuardianInv
  BY DEF GuardianInit, GuardianInv, GuardianTypeOK, EmergenciesAreIssuedOnce, IssuedOncePerLife, SuppressedWasIssued

(* What an execution does, whatever the gates of the request say. *)
LEMMA ExecuteKeepsInvariant ==
  ASSUME NEW key \in ExecutionKeys, NEW facts, GuardianInv, Execute(key, facts)
  PROVE  GuardianInv'
<1> DEFINE disposition == FirstClosed(RefusalGates(facts),
                                      IF key \in executedKeys THEN "suppressed_duplicate" ELSE "executed")
<1>1. /\ executedKeys' = IF disposition = "executed" THEN executedKeys \cup {key} ELSE executedKeys
      /\ issued' = IF disposition = "executed" THEN [issued EXCEPT ![key] = @ + 1] ELSE issued
      /\ lastEvidence' = [key |-> key, disposition |-> disposition]
      /\ starts' = starts
  BY DEF Execute
<1>2. disposition \in {"rejected", IF key \in executedKeys THEN "suppressed_duplicate" ELSE "executed"}
  BY DEF FirstClosed, RefusalGates, Gate, Earliest
<1> HIDE DEF disposition
<1>3. CASE disposition = "executed"
  <2>1. key \notin executedKeys
    BY <1>2, <1>3
  <2>2. QED
    BY <1>1, <1>3, <2>1 DEF GuardianInv, GuardianTypeOK, EmergenciesAreIssuedOnce, IssuedOncePerLife, SuppressedWasIssued
<1>4. CASE disposition # "executed"
  <2>1. disposition = "suppressed_duplicate" => key \in executedKeys
    BY <1>2
  <2>2. QED
    BY <1>1, <1>4, <2>1 DEF GuardianInv, GuardianTypeOK, EmergenciesAreIssuedOnce, IssuedOncePerLife, SuppressedWasIssued
<1>5. QED
  BY <1>3, <1>4

(* A new process forgets the keys, and owes one execution more of each. *)
LEMMA StartKeepsInvariant == GuardianInv /\ StartAgain => GuardianInv'
  BY DEF StartAgain, GuardianInv, GuardianTypeOK, EmergenciesAreIssuedOnce, IssuedOncePerLife, SuppressedWasIssued

(* Over any number of deployments, incidents and restarts, an emergency is issued
   at most once per life of the guardian, and suppressed only after it was issued. *)
THEOREM GuardianIssuesOnce == GuardianSpec => [](GuardianTypeOK /\ EmergenciesAreIssuedOnce)
<1>1. GuardianInv /\ [GuardianNext]_guardianVars => GuardianInv'
  <2> SUFFICES ASSUME GuardianInv, [GuardianNext]_guardianVars PROVE GuardianInv'
    OBVIOUS
  <2>1. ASSUME NEW key \in ExecutionKeys, NEW facts \in SUBSET EmergencyFacts, Execute(key, facts)
        PROVE  GuardianInv'
    BY <2>1, ExecuteKeepsInvariant
  <2>2. CASE StartAgain
    BY <2>2, StartKeepsInvariant
  <2>3. CASE UNCHANGED guardianVars
    BY <2>3 DEF guardianVars, GuardianInv, GuardianTypeOK, EmergenciesAreIssuedOnce, IssuedOncePerLife, SuppressedWasIssued
  <2>4. QED
    BY <2>1, <2>2, <2>3 DEF GuardianNext
<1>2. GuardianInv => GuardianTypeOK /\ EmergenciesAreIssuedOnce
  BY DEF GuardianInv
<1>3. QED
  BY <1>1, <1>2, GuardianStarts, PTL DEF GuardianSpec

----------------------------------------------------------------------------
(* Which gate of the recovery fence answers. *)
LEMMA FenceAnswers ==
  ASSUME NEW r
  PROVE  \/ EvaluateRecovery(r) = Tradeable /\ \A i \in DOMAIN Gates(r) : ~ Gates(r)[i].closed
         \/ \E i \in DOMAIN Gates(r) :
              /\ Gates(r)[i].closed /\ EvaluateRecovery(r) = Gates(r)[i].answer
              /\ \A j \in DOMAIN Gates(r) : j < i => ~ Gates(r)[j].closed
<1>1. PICK gates : gates = Gates(r)  OBVIOUS
<1>2. DOMAIN gates \in SUBSET Nat  BY <1>1 DEF Gates
<1>3. PICK answer : answer = FirstClosed(gates, Tradeable)  OBVIOUS
<1>4. \/ answer = Tradeable /\ \A i \in DOMAIN gates : ~ gates[i].closed
      \/ \E i \in DOMAIN gates : /\ gates[i].closed /\ answer = gates[i].answer
                                 /\ \A j \in DOMAIN gates : j < i => ~ gates[j].closed
  BY <1>2, <1>3, ChainAnswers
<1>5. EvaluateRecovery(r) = answer  BY <1>1, <1>3 DEF EvaluateRecovery
<1> QED  BY <1>1, <1>4, <1>5

(* A fence that neither halts nor lets trade leaves the holder an exit. *)
LEMMA FenceLeavesAnExit ==
  ASSUME NEW r \in RecoveryRequest, r.holding, EvaluateRecovery(r).status \in {"recovering", "resume_exit_only"}
  PROVE  EvaluateRecovery(r).exit
<1>1. PICK gates : gates = Gates(r)  OBVIOUS
<1>2. DOMAIN gates = 1..12  BY <1>1 DEF Gates
<1>3. PICK holding : holding = r.holding  OBVIOUS
<1>4. /\ \A i \in {1, 2, 3, 4, 5, 10} : gates[i].answer.status \in {"invalid", "halted"}
      /\ \A i \in {6, 7, 9, 11} : gates[i].answer.exit = holding
      /\ \A i \in {8, 12} : gates[i].answer.exit = TRUE
  <2>1. \A i \in {1, 2, 3, 4, 5, 10} : gates[i].answer.status \in {"invalid", "halted"}
    BY <1>1 DEF Gates, Gate, Answer
  <2>2. PICK resumes : resumes = Answer("recovering", holding, FALSE)  OBVIOUS
  <2>3. PICK exits : exits = Answer("resume_exit_only", TRUE, FALSE)  OBVIOUS
  <2>4. /\ gates[6].answer = resumes /\ gates[7].answer = resumes
        /\ gates[9].answer = resumes /\ gates[11].answer = resumes
    BY <1>1, <1>3, <2>2 DEF Gates, Gate
  <2>5. gates[8].answer = exits /\ gates[12].answer = exits
    BY <1>1, <2>3 DEF Gates, Gate
  <2>6. resumes.exit = holding /\ exits.exit = TRUE
    BY <2>2, <2>3 DEF Answer
  <2> QED  BY <2>1, <2>4, <2>5, <2>6
<1>5. Tradeable.status = "resume_tradeable"  BY DEF Tradeable, Answer
<1>6. PICK i \in DOMAIN gates : EvaluateRecovery(r) = gates[i].answer
  BY <1>1, <1>5, FenceAnswers
<1>7. i \in {6, 7, 9, 11} \/ i \in {8, 12}
  <2>1. i \notin {1, 2, 3, 4, 5, 10}  BY <1>4, <1>6
  <2>2. i \in 1..12  BY <1>2
  <2> QED  BY <2>1, <2>2
<1> QED  BY <1>3, <1>4, <1>6, <1>7

(* Whatever else is wrong with it, a request of unknown state is halted. *)
LEMMA FenceHaltsTheUnknown ==
  ASSUME NEW r, "identified" \in r.evidence,
         \/ ~ {"unambiguous", "snapshot_barrier", "journal_barrier", "broker_synchronized"} \subseteq r.evidence
         \/ r.disposition = "blocked"
  PROVE  EvaluateRecovery(r).status = "halted"
<1>1. PICK gates : gates = Gates(r)  OBVIOUS
<1>2. DOMAIN gates = 1..12  BY <1>1 DEF Gates
<1>3. ~ gates[1].closed  BY <1>1 DEF Gates, Gate
<1>4. gates[2].closed \/ gates[3].closed \/ gates[4].closed \/ gates[5].closed
  BY <1>1 DEF Gates, Gate
<1>5. \A i \in {2, 3, 4, 5} : gates[i].answer.status = "halted"
  BY <1>1 DEF Gates, Gate, Answer
<1>6. PICK i \in DOMAIN gates :
        /\ gates[i].closed /\ EvaluateRecovery(r) = gates[i].answer
        /\ \A j \in DOMAIN gates : j < i => ~ gates[j].closed
  BY <1>1, <1>2, <1>4, FenceAnswers
<1>7. i \in {2, 3, 4, 5}
  <2>1. i \in 1..12 /\ i # 1  BY <1>2, <1>3, <1>6
  <2>2. ~ (i > 5)
    <3> SUFFICES ASSUME i > 5 PROVE FALSE  OBVIOUS
    <3>1. 2 < i /\ 3 < i /\ 4 < i /\ 5 < i  BY <2>1
    <3> QED  BY <1>2, <1>4, <1>6, <3>1
  <2> QED  BY <2>1, <2>2
<1> QED  BY <1>5, <1>6, <1>7

(* A request without identity is invalid, whatever else it says. *)
LEMMA FenceNamesTheInvalid ==
  ASSUME NEW r, "identified" \notin r.evidence
  PROVE  EvaluateRecovery(r).status = "invalid"
<1>1. PICK gates : gates = Gates(r)  OBVIOUS
<1>2. DOMAIN gates = 1..12  BY <1>1 DEF Gates
<1>3. gates[1].closed /\ gates[1].answer.status = "invalid"  BY <1>1 DEF Gates, Gate, Answer
<1>4. PICK i \in DOMAIN gates :
        /\ EvaluateRecovery(r) = gates[i].answer
        /\ \A j \in DOMAIN gates : j < i => ~ gates[j].closed
  BY <1>1, <1>2, <1>3, FenceAnswers
<1>5. i = 1
  <2>1. i \in 1..12 /\ ~ (1 < i)  BY <1>2, <1>3, <1>4
  <2> QED  BY <2>1
<1> QED  BY <1>3, <1>4, <1>5

(* A shutdown whose barriers were all verified is ready, or still has to flatten. *)
LEMMA VerifiedShutdownStands ==
  ASSUME NEW s, "identified" \in s.evidence, BarrierFacts \subseteq s.evidence
  PROVE  ShutdownStatus(s) \in {"restart_ready", "flatten_before_shutdown"}
<1>1. PICK barred : barred = Gate(~ BarrierFacts \subseteq s.evidence, "halt_required")  OBVIOUS
<1>2. PICK flatten : flatten =
        Gate(s.holding /\ {"holding_permitted", "flatten_completed"} \cap s.evidence = {}, "flatten_before_shutdown")
  OBVIOUS
<1>3. PICK gates : gates = <<Gate("identified" \notin s.evidence, "invalid"), barred, flatten>>  OBVIOUS
<1>4. PICK otherwise : otherwise = "restart_ready"  OBVIOUS
<1>5. PICK answer : answer = FirstClosed(gates, otherwise)  OBVIOUS
<1>6. DOMAIN gates = 1..3 /\ DOMAIN gates \in SUBSET Nat  BY <1>3
<1>7. \/ answer = otherwise
      \/ \E i \in DOMAIN gates : gates[i].closed /\ answer = gates[i].answer
  BY <1>5, <1>6, ChainAnswers
<1>8. ~ gates[1].closed /\ ~ gates[2].closed /\ gates[3].answer = "flatten_before_shutdown"
  BY <1>1, <1>2, <1>3 DEF Gate
<1>9. ShutdownStatus(s) = answer  BY <1>1, <1>2, <1>3, <1>4, <1>5 DEF ShutdownStatus
<1> QED  BY <1>4, <1>6, <1>7, <1>8, <1>9

(* A process that comes back told of both barriers comes back over a shutdown that
   verified them. *)
LEMMA ComesBackOverBarriers ==
  ASSUME NEW r, NEW s, RestartsOver(r, PlanGracefulShutdown(s)), EvaluateRecovery(r).status \notin {"halted", "invalid"}
  PROVE  ShutdownStatus(s) \in {"restart_ready", "flatten_before_shutdown"}
<1>1. PICK artifact : artifact = PlanGracefulShutdown(s)  OBVIOUS
<1>2. "identified" \in r.evidence  BY FenceNamesTheInvalid
<1>3. "snapshot_barrier" \in r.evidence /\ "journal_barrier" \in r.evidence  BY <1>2, FenceHaltsTheUnknown
<1>4. artifact.snapshot /\ artifact.journal  BY <1>1, <1>3 DEF RestartsOver
<1>5. PICK snapshot : snapshot = ("identified" \in s.evidence /\ {"snapshot_written", "snapshot_digest"} \subseteq s.evidence)
  OBVIOUS
<1>6. PICK journal : journal = ("identified" \in s.evidence /\ {"journal_persisted", "journal_flushed"} \subseteq s.evidence)
  OBVIOUS
<1>7. artifact = [status |-> ShutdownStatus(s), snapshot |-> snapshot, journal |-> journal]
  BY <1>1, <1>5, <1>6 DEF PlanGracefulShutdown
<1>8. artifact.snapshot = snapshot /\ artifact.journal = journal  BY <1>7
<1>9. "identified" \in s.evidence /\ BarrierFacts \subseteq s.evidence
  BY <1>4, <1>5, <1>6, <1>8 DEF BarrierFacts
<1> QED  BY <1>9, VerifiedShutdownStands

(* What the fence was asked is a request. *)
RequestsAreRequests ==
  recovery \in RecoveryRequest \cup {NoEvaluation} /\ shutdown \in ShutdownRequest \cup {NoEvaluation}

(* However often the fence of recovery.rs answers, it keeps an exit, halts on
   unknown state, and lets no process come back over a shutdown that was not durable. *)
THEOREM RecoveryIsSafe == RecoverySpec => [](RequestsAreRequests /\ RecoveryFailsSafe)
<1>1. RecoveryInit => RequestsAreRequests  BY DEF RecoveryInit, RequestsAreRequests
<1>2. RequestsAreRequests /\ [RecoveryNext]_recoveryVars => RequestsAreRequests'
  BY DEF RequestsAreRequests, RecoveryNext, Recover, Shutdown, recoveryVars
<1>3. RequestsAreRequests => RecoveryFailsSafe
  <2> SUFFICES ASSUME RequestsAreRequests PROVE RecoveryFailsSafe  OBVIOUS
  <2>1. HolderKeepsAnExit  BY FenceLeavesAnExit DEF HolderKeepsAnExit, RequestsAreRequests
  <2>2. UnknownStateHalts  BY FenceHaltsTheUnknown DEF UnknownStateHalts
  <2>3. RestartsOverDurableBarriers
    <3> SUFFICES ASSUME NEW s \in ShutdownRequest, RestartsOver(recovery, PlanGracefulShutdown(s)),
                        EvaluateRecovery(recovery).status \notin {"halted", "invalid"}
                 PROVE  PlanGracefulShutdown(s).status \in {"restart_ready", "flatten_before_shutdown"}
      BY DEF RestartsOverDurableBarriers, ShutdownArtifacts
    <3>1. ShutdownStatus(s) \in {"restart_ready", "flatten_before_shutdown"}  BY ComesBackOverBarriers
    <3> QED  BY <3>1 DEF PlanGracefulShutdown
  <2> QED  BY <2>1, <2>2, <2>3 DEF RecoveryFailsSafe
<1> QED  BY <1>1, <1>2, <1>3, PTL DEF RecoverySpec

(* What the finding about holding restarts leaves: a runtime that its supervisor
   restarted while it held exposure never trades again at once. *)
SupervisedRestartIsExitOnly ==
  recovery # NoEvaluation /\ recovery.holding /\ recovery.trigger = "supervised_restart"
  => EvaluateRecovery(recovery).status # "resume_tradeable"

(* The last gate of recovery.rs is closed to such a restart, and no gate answers
   that it may trade. *)
THEOREM RecoveryClosesTheLastGate == RecoverySpec => []SupervisedRestartIsExitOnly
<1>1. ASSUME NEW r, r.holding, r.trigger = "supervised_restart"
      PROVE  EvaluateRecovery(r).status # "resume_tradeable"
  <2>1. PICK gates : gates = Gates(r)  OBVIOUS
  <2>2. DOMAIN gates = 1..12  BY <2>1 DEF Gates
  <2>3. gates[12].closed  BY <1>1, <2>1 DEF Gates, Gate
  <2>4. \A i \in DOMAIN gates : gates[i].answer.status # "resume_tradeable"
    <3>1. \A i \in 1..6 : gates[i].answer.status # "resume_tradeable"  BY <2>1 DEF Gates, Gate, Answer
    <3>2. \A i \in 7..12 : gates[i].answer.status # "resume_tradeable"  BY <2>1 DEF Gates, Gate, Answer
    <3> QED  BY <2>2, <3>1, <3>2
  <2>5. PICK i \in DOMAIN gates : EvaluateRecovery(r) = gates[i].answer
    BY <2>1, <2>2, <2>3, FenceAnswers
  <2> QED  BY <2>4, <2>5
<1>2. SupervisedRestartIsExitOnly  BY <1>1 DEF SupervisedRestartIsExitOnly
<1> QED  BY <1>2, PTL

(* When the runtime is in doubt, what is done about it is on the safe side: for any
   deployments and incidents, any number of restarts and any evidence. *)
THEOREM DecisionsFailSafe == DecisionsSpec => []EmergenciesFailSafe
<1>1. RecoveryFailsSafe /\ EmergenciesAreIssuedOnce => EmergenciesFailSafe  BY DEF EmergenciesFailSafe
<1> QED  BY <1>1, DecisionsRunEach, RecoveryIsSafe, GuardianIssuesOnce, PTL

----------------------------------------------------------------------------
(* A repeated rehearsal in the shadow modes finds the sink's last gate closed. *)
LEMMA ShadowIsFirst ==
  ASSUME NEW mode, NEW action, NEW intent, NEW facts, EvaluateRouteMode(mode, action, intent, facts) = "shadow"
  PROVE  ~ DuplicateDetected(intent)
<1>1. PICK shadow : shadow = "shadow"  OBVIOUS
<1>2. PICK otherwise : otherwise = IF mode = "paper" THEN "blocked" ELSE "shadow"  OBVIOUS
<1>3. PICK outcome : outcome = ModeOutcome(mode, intent, facts)  OBVIOUS
<1>4. outcome = shadow
  <2>1. PICK gates : gates = CommonGates(action, facts)  OBVIOUS
  <2>2. DOMAIN gates \in SUBSET Nat /\ \A i \in DOMAIN gates : gates[i].answer # shadow
    BY <1>1, <2>1 DEF CommonGates, Gate
  <2>3. shadow = FirstClosed(gates, outcome)  BY <1>1, <1>3, <2>1 DEF EvaluateRouteMode
  <2> QED  BY <2>2, <2>3, ChainAnswers
<1>5. PICK gates : gates = ModeGates(mode, intent, facts)  OBVIOUS
<1>6. outcome = FirstClosed(gates, otherwise)  BY <1>2, <1>3, <1>5 DEF ModeOutcome
<1>7. DOMAIN gates \in SUBSET Nat /\ \A i \in DOMAIN gates : gates[i].answer # shadow
  BY <1>1, <1>5 DEF ModeGates, Gate
<1>8. otherwise = shadow /\ \A i \in DOMAIN gates : ~ gates[i].closed
  BY <1>4, <1>6, <1>7, ChainAnswers
<1>9. mode # "paper"  BY <1>1, <1>2, <1>8
<1>10. DOMAIN gates = 1..3 /\ gates[3].closed = DuplicateDetected(intent)
  BY <1>5, <1>9 DEF ModeGates, Gate
<1> QED  BY <1>8, <1>10

(* Receipts are counted, and an intent that has a shadow receipt had none before it. *)
LEMMA RouteRecords ==
  ASSUME RoutingTypeOK, NEW mode \in Modes, NEW action, NEW intent \in Intents, NEW facts,
         Route(mode, action, intent, facts)
  PROVE  RoutingTypeOK' /\ EvidenceReused
<1>1. PICK outcome : outcome = EvaluateRouteMode(mode, action, intent, facts)  OBVIOUS
<1>2. /\ paperReceipts[intent] < MaxRecords /\ fallbackReceipts[intent] < MaxRecords
      /\ shadowReceipts[intent] < MaxRecords
      /\ paperReceipts' = IF outcome = "paper" THEN [paperReceipts EXCEPT ![intent] = @ + 1] ELSE paperReceipts
      /\ fallbackReceipts' = IF outcome = "fallback" THEN [fallbackReceipts EXCEPT ![intent] = @ + 1] ELSE fallbackReceipts
      /\ shadowReceipts' = IF outcome = "shadow" THEN [shadowReceipts EXCEPT ![intent] = @ + 1] ELSE shadowReceipts
  BY <1>1 DEF Route, Retain
<1>3. outcome = "shadow" => ~ (shadowReceipts[intent] + fallbackReceipts[intent] > 0)
  BY <1>1, ShadowIsFirst DEF DuplicateDetected
<1>4. \A n \in 0..MaxRecords : n < MaxRecords => n + 1 \in 0..MaxRecords  BY RoutingAssumption
<1>5. RoutingTypeOK'  BY <1>2, <1>4 DEF RoutingTypeOK
<1>6. shadowReceipts[intent] \in Nat /\ fallbackReceipts[intent] \in Nat
  BY RoutingAssumption DEF RoutingTypeOK
<1>7. EvidenceReused
  <2> SUFFICES ASSUME NEW i \in Intents, shadowReceipts'[i] # shadowReceipts[i]
               PROVE  shadowReceipts[i] = 0 /\ fallbackReceipts[i] = 0
    BY DEF EvidenceReused
  <2>1. i = intent /\ outcome = "shadow"  BY <1>2 DEF RoutingTypeOK
  <2> QED  BY <1>3, <1>6, <2>1
<1> QED  BY <1>5, <1>7

(* What is retained of a packet: its status is the last of the history, which
   is one longer than it was. *)
LEMMA PublishGrows ==
  ASSUME ReadinessTypeOK, NEW r \in Request, PublishSessionReadinessPacket(r)
  PROVE  ReadinessTypeOK' /\ HistoryGrows
<1>1. PICK status : status = AssemblePacket(r)  OBVIOUS
<1>2. PICK before : before = PreviousHistory(r)  OBVIOUS
<1>3. /\ published < MaxPackets /\ latestPacket' = [request |-> r, status |-> status]
      /\ history' = Append(before, status) /\ published' = published + 1
  BY <1>1, <1>2 DEF PublishSessionReadinessPacket
<1>4. status \in PacketStatus  BY <1>1 DEF AssemblePacket, PacketStatus
<1>5. before \in Seq(PacketStatus)
  <2>1. r.previous \in Seq(PacketStatus)  BY PacketAssumption DEF Request
  <2> QED  BY <1>2, <2>1 DEF PreviousHistory, ReadinessTypeOK
<1>6. PICK N : N = Len(before) /\ N \in Nat  BY <1>5
<1>7. /\ history' \in Seq(PacketStatus) /\ Len(history') = N + 1 /\ history'[N + 1] = status
      /\ \A n \in 1..N : history'[n] = before[n]
  BY <1>3, <1>4, <1>5, <1>6
<1>8. Last(history') = status  BY <1>7 DEF Last
<1>9. history \in Seq(PacketStatus) /\ Len(history) \in Nat /\ (history # <<>> => before = history)
  BY <1>2 DEF ReadinessTypeOK, PreviousHistory
<1>10. Len(history) <= N  
  <2>1. history = <<>> => Len(history) = 0  OBVIOUS
  <2> QED  BY <1>6, <1>9, <2>1
<1>11. latestPacket' # Absent /\ latestPacket'.status = status
  BY <1>3, <1>4, PacketAssumption
<1>12. published \in 0..MaxPackets /\ Len(history) >= published  BY DEF ReadinessTypeOK
<1>13. published' \in 0..MaxPackets /\ published' # 0 /\ Len(history') >= published'
  BY <1>3, <1>6, <1>7, <1>9, <1>10, <1>12, ReadinessAssumption
<1>14. ReadinessTypeOK'
  BY <1>7, <1>8, <1>11, <1>13 DEF ReadinessTypeOK
<1>15. HistoryGrows
  <2>1. CASE history = <<>>
    <3>1. Len(history) = 0 /\ SubSeq(history, 1, 0) = <<>> /\ SubSeq(history', 1, 0) = <<>>  BY <1>7, <2>1
    <3> QED  BY <1>6, <1>7, <2>1, <3>1 DEF HistoryGrows, IsPrefix
  <2>2. CASE history # <<>>
    <3>1. before = history  BY <1>9, <2>2
    <3>2. SubSeq(history', 1, N) = SubSeq(history, 1, N)
      BY <1>6, <1>7, <1>9, <3>1
    <3> QED  BY <1>6, <1>7, <2>2, <3>1, <3>2 DEF HistoryGrows, IsPrefix
  <2> QED  BY <2>1, <2>2
<1> QED  BY <1>14, <1>15

(* The readiness history only grows (publish_session_readiness_packet appends). *)
LEMMA ReadinessRecords == ReadinessSpec => [](ReadinessTypeOK) /\ [][HistoryGrows]_readinessVars
<1>1. ReadinessInit => ReadinessTypeOK
  BY ReadinessAssumption DEF ReadinessInit, ReadinessTypeOK
<1>2. ReadinessTypeOK /\ [ReadinessNext]_readinessVars => ReadinessTypeOK' /\ [HistoryGrows]_readinessVars
  <2>1. ReadinessTypeOK /\ UNCHANGED readinessVars => ReadinessTypeOK'
    BY DEF readinessVars, ReadinessTypeOK
  <2> QED  BY <2>1, PublishGrows DEF ReadinessNext
<1> QED  BY <1>1, <1>2, PTL DEF ReadinessSpec

(* The shadow sink keeps one record per suppressed request, however often it is
   rehearsed (evaluate_route_mode). *)
LEMMA RoutingRecords == RoutingSpec => [](RoutingTypeOK) /\ [][EvidenceReused]_routingVars
<1>1. RoutingInit => RoutingTypeOK
  BY RoutingAssumption DEF RoutingInit, RoutingTypeOK, NoReceipts
<1>2. RoutingTypeOK /\ [RoutingNext]_routingVars => RoutingTypeOK' /\ [EvidenceReused]_routingVars
  <2>1. RoutingTypeOK /\ UNCHANGED routingVars => RoutingTypeOK'
    BY DEF routingVars, RoutingTypeOK
  <2> QED  BY <2>1, RouteRecords DEF RoutingNext
<1> QED  BY <1>1, <1>2, PTL DEF RoutingSpec

(* The history of packet outcomes is never rewritten, and a repeated rehearsal
   records nothing new, however packets and rehearsals interleave. *)
THEOREM DecisionsKeepRecords == DecisionsSpec => RecordsStand
<1>1. [HistoryGrows]_readinessVars /\ [EvidenceReused]_routingVars
        => [[HistoryGrows]_readinessVars /\ EvidenceReused]_<<readinessVars, routingVars>>
  BY DEF EvidenceReused, routingVars
<1> QED  BY <1>1, DecisionsRunEach, ReadinessRecords, RoutingRecords, PTL DEF RecordsStand

----------------------------------------------------------------------------
(* A limit that is scaled down stays between one and itself. *)
LEMMA ScaledLimitIsLower ==
  ASSUME NEW base \in Nat, base # 0, NEW bps \in Nat, bps <= 10000
  PROVE  ScaledLimit(base, bps) \in 1..base
<1>1. PICK product : product = base * bps  OBVIOUS
<1>2. product \in Nat /\ product <= base * 10000  BY <1>1
<1>3. PICK scaled : scaled = (product + 9999) \div 10000  OBVIOUS
<1>4. scaled \in Int /\ scaled <= base  BY <1>2, <1>3
<1>5. Max({1, scaled}) \in {1, scaled} /\ Max({1, scaled}) >= 1
  <2>1. \E m \in {1, scaled} : \A n \in {1, scaled} : m >= n  BY <1>4
  <2> QED  BY <2>1 DEF Max
<1> QED  BY <1>1, <1>3, <1>4, <1>5 DEF ScaledLimit

(* The decisions a control may come to. *)
Responses ==
  {Pass, Suppress, ExitOnly, Flatten, Halt, Decision("restrict", "passive_only"), Decision("restrict", "normal")}

(* Every control of risk.rs answers with one of the known responses, and at
   least one control answers. *)
LEMMA ControlsRespond ==
  ASSUME NEW r
  PROVE  Decisions(r) \subseteq Responses /\ Decisions(r) # {}
<1>1. EnvelopeControl(r) \in Responses
  <2>1. PICK gates : gates = EnvelopeGates(r)  OBVIOUS
  <2>2. DOMAIN gates \in SUBSET Nat /\ \A i \in DOMAIN gates : gates[i].answer \in Responses
    BY <2>1 DEF EnvelopeGates, Gate, IfHolding, Responses
  <2>3. PICK answer : answer = FirstClosed(gates, Pass)  OBVIOUS
  <2>4. answer = Pass \/ \E i \in DOMAIN gates : answer = gates[i].answer
    BY <2>2, <2>3, ChainAnswers
  <2> QED  BY <2>1, <2>2, <2>3, <2>4 DEF EnvelopeControl, Responses
<1>2. BehaviorControl(r) \in Responses /\ QualityControl(r) \in Responses /\ FitControl(r) \in Responses
  BY DEF BehaviorControl, QualityControl, FitControl, If, IfHolding, Responses
<1>3. ExposureControls(r) \subseteq Responses
  BY DEF ExposureControls, PositionControl, If, IfHolding, Responses
<1>4. LossControls(r) \subseteq Responses
  BY DEF LossControls, If, IfHolding, Responses
<1>5. CarryControls(r) \subseteq Responses
  BY DEF CarryControls, If, IfHolding, Responses
<1> QED  BY <1>1, <1>2, <1>3, <1>4, <1>5 DEF Decisions, Responses

(* Of any decisions there is one that is severest, and one whose mode is. *)
LEMMA SeverestDecision ==
  ASSUME NEW D \in SUBSET Responses, D # {}
  PROVE  /\ \E d \in D : \A e \in D : Severity[e.action] <= Severity[d.action]
         /\ \E d \in D : \A e \in D : ModeSeverity[e.mode] <= ModeSeverity[d.mode]
<1>1. \A d \in D : Severity[d.action] \in 0..4 /\ ModeSeverity[d.mode] \in 0..4
  BY DEF Responses, Pass, Suppress, ExitOnly, Flatten, Halt, Decision, Severity, ModeSeverity
<1>2. PICK N : N = 4  OBVIOUS
<1>3. \E d \in D : \A e \in D : Severity[e.action] <= Severity[d.action]
  <2> DEFINE T == {Severity[d.action] : d \in D}
  <2>1. T \in SUBSET (0..N) /\ T # {} /\ N \in Nat  BY <1>1, <1>2
  <2>2. PICK t \in T : \A u \in T : t >= u  BY <2>1, GreatestNatural
  <2>3. PICK d \in D : t = Severity[d.action]  BY <2>2
  <2>4. \A e \in D : Severity[e.action] <= Severity[d.action]  BY <1>1, <2>2, <2>3
  <2> QED  BY <2>4
<1>4. \E d \in D : \A e \in D : ModeSeverity[e.mode] <= ModeSeverity[d.mode]
  <2> DEFINE T == {ModeSeverity[d.mode] : d \in D}
  <2>1. T \in SUBSET (0..N) /\ T # {} /\ N \in Nat  BY <1>1, <1>2
  <2>2. PICK t \in T : \A u \in T : t >= u  BY <2>1, GreatestNatural
  <2>3. PICK d \in D : t = ModeSeverity[d.mode]  BY <2>2
  <2>4. \A e \in D : ModeSeverity[e.mode] <= ModeSeverity[d.mode]  BY <1>1, <2>2, <2>3
  <2> QED  BY <2>4
<1> QED  BY <1>3, <1>4

(* The dominant action is that of some decision, and none is severer. *)
LEMMA DominantIsSeverest ==
  ASSUME NEW r
  PROVE  \E d \in Decisions(r) : /\ DominantAction(Decisions(r)) = d.action
                                 /\ \A e \in Decisions(r) : Severity[e.action] <= Severity[d.action]
<1>1. PICK D : D = Decisions(r)  OBVIOUS
<1>2. \E d \in D : \A e \in D : Severity[e.action] <= Severity[d.action]
  BY <1>1, ControlsRespond, SeverestDecision
<1> QED  BY <1>1, <1>2 DEF DominantAction

(* The flags of a report agree with one another. *)
LEMMA ReportAgrees ==
  ASSUME NEW r, NEW report, report = EvaluateRuntimeRisk(r)
  PROVE  /\ report.action \in DOMAIN Severity /\ report.mode \in DOMAIN ModeSeverity
         /\ report.allowNewRisk => report.tradingEligible
         /\ report.requireFlatten => ~report.tradingEligible /\ ~report.allowNewRisk
         /\ report.mode \in {"exit_only", "forced_flatten"} => ~report.tradingEligible
<1>1. PICK D : D = Decisions(r)  OBVIOUS
<1>2. D \subseteq Responses /\ D # {}  BY <1>1, ControlsRespond
<1>3. PICK action : action = DominantAction(D)  OBVIOUS
<1>4. PICK mode : mode = DominantEntryMode(D, action)  OBVIOUS
<1>5. /\ report.action = action /\ report.mode = mode
      /\ report.tradingEligible <=> action \in {"allow", "restrict"}
      /\ report.allowNewRisk <=> mode \in {"normal", "passive_only"}
      /\ report.requireFlatten <=> action = "flatten"
  BY <1>1, <1>3, <1>4 DEF EvaluateRuntimeRisk
<1>6. PICK d \in D : action = d.action /\ \A e \in D : Severity[e.action] <= Severity[d.action]
  BY <1>1, <1>3, DominantIsSeverest
<1>7. action \in {"allow", "restrict", "exit_only", "flatten", "halt"}
  BY <1>2, <1>6 DEF Responses, Pass, Suppress, ExitOnly, Flatten, Halt, Decision
<1>8. action = "restrict" => mode \in {"normal", "passive_only", "no_new_entries"}
  <2> SUFFICES ASSUME action = "restrict" PROVE mode \in {"normal", "passive_only", "no_new_entries"}
    OBVIOUS
  <2>1. \E e \in D : mode = e.mode
    <3>1. \E m \in D : \A e \in D : ModeSeverity[e.mode] <= ModeSeverity[m.mode]
      BY <1>2, SeverestDecision
    <3> QED  BY <1>4, <3>1 DEF DominantEntryMode
  <2>2. \A e \in D : Severity[e.action] <= 1
    BY <1>6 DEF Severity
  <2>3. \A e \in D : e.mode \in {"normal", "passive_only", "no_new_entries"}
    BY <1>2, <2>2 DEF Responses, Pass, Suppress, ExitOnly, Flatten, Halt, Decision, Severity
  <2> QED  BY <2>1, <2>3
<1>9. /\ action = "allow" => mode = "normal"
      /\ action = "exit_only" => mode = "exit_only"
      /\ action = "flatten" => mode = "forced_flatten"
      /\ action = "halt" => mode = "no_new_entries"
  BY <1>4 DEF DominantEntryMode
<1> QED  BY <1>5, <1>7, <1>8, <1>9 DEF Severity, ModeSeverity

(* What a risk request carries. *)
LimitsArePositive ==
  request # NoRequest => /\ request.maxPosition \in Nat \ {0} /\ request.maxIntents \in Nat \ {0}
                         /\ request.sizeMultiplier \in Nat /\ request.sizeMultiplier <= 10000
                         /\ request.tradeMultiplier \in Nat /\ request.tradeMultiplier <= 10000

(* The retained risk report is one the evaluator can give. *)
LEMMA RiskIsTyped == RiskSpec => []RiskTypeOK
<1>1. RiskInit => LimitsArePositive  BY DEF RiskInit, LimitsArePositive
<1>2. LimitsArePositive /\ [RiskNext]_request => LimitsArePositive'
  <2> SUFFICES ASSUME LimitsArePositive, [RiskNext]_request PROVE LimitsArePositive'  OBVIOUS
  <2>1. CASE UNCHANGED request  BY <2>1 DEF LimitsArePositive
  <2>2. CASE RiskNext
    <3>1. PICK maxPosition, maxIntents \in Limits, sizeMultiplier, tradeMultiplier \in Multipliers :
            /\ request'.maxPosition = maxPosition /\ request'.maxIntents = maxIntents
            /\ request'.sizeMultiplier = sizeMultiplier /\ request'.tradeMultiplier = tradeMultiplier
      BY <2>2 DEF RiskNext, Evaluate
    <3>2. maxPosition \in Nat \ {0} /\ maxIntents \in Nat \ {0}  BY RiskAssumption
    <3>3. \A multiplier \in Multipliers : multiplier \in Nat /\ multiplier <= 10000  BY RiskAssumption
    <3> QED  BY <3>1, <3>2, <3>3 DEF LimitsArePositive
  <2> QED  BY <2>1, <2>2
<1>3. LimitsArePositive => RiskTypeOK
  <2> SUFFICES ASSUME LimitsArePositive, request # NoRequest PROVE RiskTypeOK  BY DEF RiskTypeOK
  <2>1. PositionLimit(request) \in 1..request.maxPosition /\ IntentLimit(request) \in 1..request.maxIntents
    <3>1. PICK p, i, m, n : /\ p = request.maxPosition /\ i = request.maxIntents
                            /\ m = request.sizeMultiplier /\ n = request.tradeMultiplier
      OBVIOUS
    <3>2. p \in Nat /\ p # 0 /\ i \in Nat /\ i # 0 /\ m \in Nat /\ m <= 10000 /\ n \in Nat /\ n <= 10000
      BY <3>1 DEF LimitsArePositive
    <3>3. ScaledLimit(p, m) \in 1..p /\ ScaledLimit(i, n) \in 1..i  BY <3>2, ScaledLimitIsLower
    <3> QED  BY <3>1, <3>3 DEF PositionLimit, IntentLimit
  <2>2. PICK report : report = EvaluateRuntimeRisk(request)  OBVIOUS
  <2>3. /\ report.action \in DOMAIN Severity /\ report.mode \in DOMAIN ModeSeverity
        /\ report.allowNewRisk => report.tradingEligible
        /\ report.requireFlatten => ~report.tradingEligible /\ ~report.allowNewRisk
        /\ report.mode \in {"exit_only", "forced_flatten"} => ~report.tradingEligible
    BY <2>2, ReportAgrees
  <2> QED  BY <2>1, <2>2, <2>3 DEF RiskTypeOK
<1> QED  BY <1>1, <1>2, <1>3, PTL DEF RiskSpec

(* What the finding about hard stops leaves: while exposure is open, a hard stop of
   the envelope fit yields to a halt alone, and only the margin or a severe loss of
   data quality halts a request that is well formed. *)
HardStopYieldsToHaltsOnly ==
  request # NoRequest /\ "fit_hard_stop" \in request.breaches /\ Holding(request)
    /\ "malformed" \notin request.breaches
  => \/ EvaluateRuntimeRisk(request).requireFlatten
     \/ /\ EvaluateRuntimeRisk(request).action = "halt"
        /\ {"margin", "quality_severe"} \cap request.breaches # {}

(* The two controls of risk.rs that halt. *)
LEMMA HaltsHaveACause ==
  ASSUME NEW r, "malformed" \notin r.breaches, NEW d \in Decisions(r), d.action = "halt"
  PROVE  {"margin", "quality_severe"} \cap r.breaches # {}
<1> DEFINE Milder(e) == e.action # "halt"
<1>1. /\ Milder(Pass) /\ Milder(Suppress) /\ Milder(ExitOnly) /\ Milder(Flatten)
      /\ Milder(Decision("restrict", "passive_only")) /\ Milder(Decision("restrict", "normal"))
  BY DEF Pass, Suppress, ExitOnly, Flatten, Decision
<1>2. Milder(EnvelopeControl(r))
  <2>1. PICK gates : gates = EnvelopeGates(r)  OBVIOUS
  <2>2. DOMAIN gates \in SUBSET Nat /\ \A i \in DOMAIN gates : Milder(gates[i].answer)
    <3>1. DOMAIN gates = 1..7  BY <2>1 DEF EnvelopeGates
    <3>2. \A i \in 1..7 : Milder(gates[i].answer)
      BY <1>1, <2>1 DEF EnvelopeGates, Gate, IfHolding
    <3> QED  BY <3>1, <3>2
  <2>3. PICK answer : answer = FirstClosed(gates, Pass)  OBVIOUS
  <2>4. answer = Pass \/ \E i \in DOMAIN gates : answer = gates[i].answer
    BY <2>2, <2>3, ChainAnswers
  <2> QED  BY <1>1, <2>1, <2>2, <2>3, <2>4 DEF EnvelopeControl
<1>3. Milder(BehaviorControl(r)) /\ Milder(FitControl(r))
  BY <1>1 DEF BehaviorControl, FitControl, If, IfHolding
<1>4. "quality_severe" \in r.breaches \/ Milder(QualityControl(r))
  BY <1>1 DEF QualityControl, If
<1>5. \A e \in ExposureControls(r) : Milder(e)
  BY <1>1 DEF ExposureControls, PositionControl, If, IfHolding
<1>6. \A e \in LossControls(r) : Milder(e)
  BY <1>1 DEF LossControls, If, IfHolding
<1>7. "margin" \in r.breaches \/ \A e \in CarryControls(r) : Milder(e)
  BY <1>1 DEF CarryControls, If, IfHolding
<1>8. \/ d \in ExposureControls(r) \/ d \in LossControls(r) \/ d \in CarryControls(r)
      \/ d \in {BehaviorControl(r), QualityControl(r), FitControl(r), EnvelopeControl(r)}
  BY DEF Decisions
<1> QED  BY <1>2, <1>3, <1>4, <1>5, <1>6, <1>7, <1>8

(* While exposure is open, a hard stop is answered by a flatten or outranked by a
   halt: the dominant action of risk.rs is as severe as the control's own. *)
THEOREM RiskHardStops == RiskSpec => []HardStopYieldsToHaltsOnly
<1>1. ASSUME NEW r, "fit_hard_stop" \in r.breaches, Holding(r), "malformed" \notin r.breaches
      PROVE  \/ EvaluateRuntimeRisk(r).requireFlatten
             \/ /\ EvaluateRuntimeRisk(r).action = "halt"
                /\ {"margin", "quality_severe"} \cap r.breaches # {}
  <2>1. PICK report : report = EvaluateRuntimeRisk(r)  OBVIOUS
  <2>2. PICK action : action = DominantAction(Decisions(r))  OBVIOUS
  <2>3. report.action = action /\ (report.requireFlatten <=> action = "flatten")
    BY <2>1, <2>2 DEF EvaluateRuntimeRisk
  <2>4. PICK d \in Decisions(r) : /\ action = d.action
                                  /\ \A e \in Decisions(r) : Severity[e.action] <= Severity[d.action]
    BY <2>2, DominantIsSeverest
  <2>5. Flatten \in Decisions(r)
    <3>1. FitControl(r) = Flatten  BY <1>1 DEF FitControl, IfHolding
    <3> QED  BY <1>1, <3>1 DEF Decisions
  <2>6. Severity[d.action] >= 3
    <3>1. Flatten.action = "flatten"  BY DEF Flatten, Decision
    <3>2. Severity["flatten"] <= Severity[d.action]  BY <2>4, <2>5, <3>1
    <3> QED  BY <3>2 DEF Severity
  <2>7. d.action \in {"allow", "restrict", "exit_only", "flatten", "halt"}
    <3>1. d \in Responses  BY ControlsRespond
    <3> QED  BY <3>1 DEF Responses, Pass, Suppress, ExitOnly, Flatten, Halt, Decision
  <2>8. d.action \in {"flatten", "halt"}  BY <2>6, <2>7 DEF Severity
  <2>9. d.action = "halt" => {"margin", "quality_severe"} \cap r.breaches # {}
    BY <1>1, HaltsHaveACause
  <2> QED  BY <2>1, <2>3, <2>4, <2>8, <2>9
<1>2. HardStopYieldsToHaltsOnly  BY <1>1 DEF HardStopYieldsToHaltsOnly
<1> QED  BY <1>2, PTL

(* The retained intraday report is one the comparison can give. *)
LEMMA IntradayIsTyped == IntradaySpec => []IntradayTypeOK
<1>1. IntradayInit => IntradayTypeOK  BY DEF IntradayInit, IntradayTypeOK
<1>2. IntradayTypeOK /\ [IntradayNext]_latestIntraday => IntradayTypeOK'
  <2> SUFFICES ASSUME IntradayTypeOK, [IntradayNext]_latestIntraday PROVE IntradayTypeOK'  OBVIOUS
  <2>1. ASSUME NEW local \in View, NEW broker \in View, NEW tolerance \in Tolerances,
               ReconcileIntraday(local, broker, tolerance)
        PROVE  IntradayTypeOK'
    <3>1. PICK discrepancies : discrepancies = IntradayDiscrepancies(local, broker, tolerance)  OBVIOUS
    <3>2. PICK action : action = RequiredAction(discrepancies)  OBVIOUS
    <3>3. discrepancies \subseteq Categories  BY <3>1 DEF IntradayDiscrepancies
    <3>4. action \in DOMAIN ActionRank  BY <3>2 DEF RequiredAction, ActionRank
    <3>5. /\ latestIntraday'.discrepancies = discrepancies /\ latestIntraday'.action = action
          /\ latestIntraday'.local = local /\ latestIntraday'.broker = broker
      BY <2>1, <3>1, <3>2 DEF ReconcileIntraday
    <3> QED  BY <3>3, <3>4, <3>5 DEF IntradayTypeOK
  <2>2. CASE UNCHANGED latestIntraday  BY <2>2 DEF IntradayTypeOK
  <2> QED  BY <2>1, <2>2 DEF IntradayNext
<1> QED  BY <1>1, <1>2, PTL DEF IntradaySpec

(* The retained recovery and shutdown reports are of known shape. *)
LEMMA RecoveryIsTyped == RecoverySpec => []RecoveryTypeOK
<1>1. ASSUME NEW r \in ShutdownRequest
      PROVE  PlanGracefulShutdown(r).status \in {"restart_ready", "flatten_before_shutdown", "halt_required", "invalid"}
  <2>1. PICK gates : gates =
          << Gate("identified" \notin r.evidence, "invalid"),
             Gate(~ BarrierFacts \subseteq r.evidence, "halt_required"),
             Gate(r.holding /\ {"holding_permitted", "flatten_completed"} \cap r.evidence = {},
                  "flatten_before_shutdown") >>
    OBVIOUS
  <2>2. DOMAIN gates \in SUBSET Nat
        /\ \A i \in DOMAIN gates : gates[i].answer \in {"flatten_before_shutdown", "halt_required", "invalid"}
    BY <2>1 DEF Gate
  <2>3. PICK ready : ready = "restart_ready"  OBVIOUS
  <2>4. PICK answer : answer = FirstClosed(gates, ready)  OBVIOUS
  <2>5. answer = ready \/ \E i \in DOMAIN gates : answer = gates[i].answer  BY <2>2, <2>4, ChainAnswers
  <2>6. PlanGracefulShutdown(r).status = answer
    BY <2>1, <2>3, <2>4 DEF PlanGracefulShutdown, ShutdownStatus
  <2> QED  BY <2>2, <2>3, <2>5, <2>6
<1>2. ASSUME NEW r \in RecoveryRequest, NEW answer, answer = EvaluateRecovery(r)
      PROVE  /\ answer.status \in {"resume_tradeable", "resume_exit_only", "recovering", "halted", "invalid"}
             /\ ~(answer.exit /\ answer.flatten)
  <2>1. PICK gates : gates = Gates(r)  OBVIOUS
  <2>2. DOMAIN gates = 1..12  BY <2>1 DEF Gates
  <2>3. PICK holding : holding = r.holding  OBVIOUS
  <2>4. PICK answers : answers =
          {Answer("invalid", FALSE, FALSE), Answer("halted", FALSE, FALSE), Answer("halted", FALSE, holding),
           Answer("recovering", holding, FALSE), Answer("resume_exit_only", TRUE, FALSE), Tradeable}
    OBVIOUS
  <2>5. /\ gates[1].answer \in answers /\ gates[2].answer \in answers /\ gates[3].answer \in answers
        /\ gates[4].answer \in answers /\ gates[5].answer \in answers /\ gates[6].answer \in answers
        /\ gates[7].answer \in answers /\ gates[8].answer \in answers /\ gates[9].answer \in answers
        /\ gates[10].answer \in answers /\ gates[11].answer \in answers /\ gates[12].answer \in answers
    BY <2>1, <2>3, <2>4 DEF Gates, Gate
  <2>6. \A i \in DOMAIN gates : gates[i].answer \in answers
    <3>1. DOMAIN gates = {1, 2, 3, 4, 5, 6, 7, 8, 9, 10, 11, 12}  BY <2>2
    <3> QED  BY <2>5, <3>1
  <2>7. Tradeable \in answers  BY <2>4
  <2>8. answer \in answers  BY <1>2, <2>1, <2>6, <2>7, FenceAnswers
  <2> QED  BY <2>4, <2>8 DEF Answer, Tradeable
<1>3. RequestsAreRequests => RecoveryTypeOK
  BY <1>1, <1>2 DEF RequestsAreRequests, RecoveryTypeOK
<1> QED  BY <1>3, RecoveryIsSafe, PTL

(* Each catalogued machine leads from its initial state to states it has, and
   nowhere from its terminal ones. *)
LEMMA MachinesAreWellFormed == \A m \in DOMAIN Machines : MachineIsWellFormed(m)
<1>1. MachineIsWellFormed("release_dataset")
  BY DEF MachineIsWellFormed, Machines, CompatibilityTerminals, DatasetTransitions
<1>2. MachineIsWellFormed("release_derived")
  BY DEF MachineIsWellFormed, Machines, CompatibilityTerminals, DerivedTransitions
<1>3. MachineIsWellFormed("bundle_readiness")
  BY DEF MachineIsWellFormed, Machines, CompatibilityTerminals, ReadinessTransitions, Setbacks
<1>4. MachineIsWellFormed("deployment_instance")
  BY DEF MachineIsWellFormed, Machines, CompatibilityTerminals, DeploymentTransitions
<1>5. MachineIsWellFormed("research_run")
  BY DEF MachineIsWellFormed, Machines, CompatibilityTerminals, RunTransitions, CompatibilityDomains
<1>6. MachineIsWellFormed("family_decision")
  BY DEF MachineIsWellFormed, Machines, CompatibilityTerminals, DecisionTransitions, CompatibilityDomains
<1> QED  BY <1>1, <1>2, <1>3, <1>4, <1>5, <1>6 DEF Machines

(* A report is as bad as the worst of what it reports on. *)
LEMMA WorstIsWorst ==
  ASSUME NEW states \in SUBSET (DOMAIN Rank), states # {}
  PROVE  WorstState(states) \in states /\ \A u \in states : Rank[u] <= Rank[WorstState(states)]
<1> DEFINE T == {Rank[u] : u \in states}
<1>1. \A u \in DOMAIN Rank : Rank[u] \in 0..3  BY DEF Rank
<1>2. PICK N : N = 3  OBVIOUS
<1>3. T \in SUBSET (0..N) /\ T # {} /\ N \in Nat  BY <1>1, <1>2
<1>4. PICK t \in T : \A u \in T : t >= u  BY <1>3, GreatestNatural
<1>5. PICK s \in states : t = Rank[s]  BY <1>4
<1>6. \A u \in states : Rank[u] <= Rank[s]  BY <1>1, <1>4, <1>5
<1> QED  BY <1>6 DEF WorstState

(* A bundle keeps attempts, restarts and escalations within their types. *)
LEMMA BundleIsTyped ==
  ASSUME SupervisionTypeOK, NEW observed \in SUBSET Targets, observed # {}, NEW gate \in BOOLEAN,
         NEW seen \in [observed -> Sightings], EvaluateBundle(observed, seen, gate)
  PROVE  SupervisionTypeOK'
<1> DEFINE reports == [t \in observed |-> [n \in DOMAIN seen[t] |-> EvaluateObservation(t, seen[t][n], gate)]]
           states == UNION {{reports[t][n].state : n \in DOMAIN seen[t]} : t \in observed}
<1>0. \A t \in observed : /\ seen[t] \in Seq(Liveness) /\ Len(seen[t]) \in DOMAIN seen[t]
  BY SightingsEnd
<1>1. /\ \A t \in observed : Final(reports[t]).attempts <= MaxAttempts
      /\ verdicts' = reports /\ overall' = WorstState(states)
      /\ attempts' = [t \in Targets |-> IF t \in observed THEN Final(reports[t]).attempts ELSE attempts[t]]
  BY Zenon DEF EvaluateBundle
<1>2. \A t \in observed : attempts[t] \in Nat
  BY SupervisionAssumption DEF SupervisionTypeOK
<1>3. ASSUME NEW t \in observed, NEW m \in DOMAIN seen[t]
      PROVE  /\ reports[t][m].state \in DOMAIN Rank /\ reports[t][m].attempts \in Nat
             /\ reports[t][m].action = "quarantine" => reports[t][m].state = "block"
  <2>1. PICK n : n = attempts[t]  OBVIOUS
  <2>2. n \in Nat  BY <1>2, <2>1
  <2>3. PICK verdict : verdict = EvaluateObservation(t, seen[t][m], gate)  OBVIOUS
  <2>4. verdict \in {Verdict("warn", "observe", 0), Verdict("green", "observe", 0), Verdict("block", "quarantine", n),
                     Verdict("block", "quarantine", n + 1), Verdict("restrict", "restart", n + 1)}
    BY <2>1, <2>3 DEF EvaluateObservation
  <2>5. /\ verdict.state \in DOMAIN Rank /\ verdict.attempts \in Nat
        /\ verdict.action = "quarantine" => verdict.state = "block"
    BY <2>2, <2>4 DEF Verdict, Rank
  <2> QED  BY <2>3, <2>5
<1>4. states \in SUBSET (DOMAIN Rank) /\ states # {}
  <2>1. PICK t \in observed : TRUE  OBVIOUS
  <2>2. reports[t][Len(seen[t])].state \in states  BY <1>0, <2>1
  <2>3. ASSUME NEW u \in states PROVE u \in DOMAIN Rank
    <3>1. PICK o \in observed : \E n \in DOMAIN seen[o] : u = reports[o][n].state  BY <2>3
    <3>2. PICK n \in DOMAIN seen[o] : u = reports[o][n].state  BY <3>1
    <3> QED  BY <1>3, <3>2
  <2> HIDE DEF states
  <2> QED  BY <2>2, <2>3
<1> HIDE DEF states
<1>5. overall' \in states /\ \A u \in states : Rank[u] <= Rank[overall']
  BY <1>1, <1>4, WorstIsWorst
<1>6. \A t \in observed : \A n \in DOMAIN seen[t] : reports[t][n].state \in states  BY DEF states
<1>11. \A t \in observed : Final(reports[t]) = reports[t][Len(seen[t])]
  <2> SUFFICES ASSUME NEW t \in observed PROVE Final(reports[t]) = reports[t][Len(seen[t])]  OBVIOUS
  <2>1. PICK last : last = Len(seen[t])  OBVIOUS
  <2>2. DOMAIN seen[t] = 1..last /\ last \in Nat  BY <1>0, <2>1
  <2>3. PICK rs : rs = reports[t]  OBVIOUS
  <2>4. rs = [n \in 1..last |-> rs[n]]  BY <2>2, <2>3
  <2>5. Len([n \in 1..last |-> rs[n]]) = last  BY <2>2
  <2>6. Len(rs) = last  BY <2>4, <2>5
  <2> QED  BY <2>1, <2>3, <2>6 DEF Final
<1>8. DOMAIN verdicts' = observed /\ \A t \in observed : DOMAIN verdicts'[t] = DOMAIN seen[t]
  BY <1>1 DEF reports
<1> HIDE DEF reports
<1>7. attempts' \in [Targets -> 0..MaxAttempts]
  BY <1>0, <1>1, <1>3, <1>11, SupervisionAssumption DEF SupervisionTypeOK
<1>9. overall' \in DOMAIN Rank  BY <1>4, <1>5
<1>10. ASSUME NEW t \in observed, NEW n \in DOMAIN seen[t]
       PROVE  /\ Rank[verdicts'[t][n].state] <= Rank[overall']
              /\ verdicts'[t][n].action = "quarantine" => overall' = "block"
  <2>1. Rank[reports[t][n].state] <= Rank[overall']  BY <1>5, <1>6
  <2>2. reports[t][n].state = "block" => overall' = "block"  BY <1>9, <2>1 DEF Rank
  <2> QED  BY <1>1, <1>3, <2>1, <2>2
<1> QED  BY <1>7, <1>8, <1>9, <1>10 DEF SupervisionTypeOK

(* The watchdog's fed-back observations stay typed. *)
LEMMA SupervisionIsTyped == SupervisionSpec => []SupervisionTypeOK
<1>1. SupervisionInit => SupervisionTypeOK
  BY SupervisionAssumption DEF SupervisionInit, SupervisionTypeOK, Rank
<1>2. SupervisionTypeOK /\ [SupervisionNext]_supervisionVars => SupervisionTypeOK'
  <2> SUFFICES ASSUME SupervisionTypeOK, [SupervisionNext]_supervisionVars PROVE SupervisionTypeOK'  OBVIOUS
  <2>1. CASE EvaluateEmptyBundle  BY <2>1 DEF EvaluateEmptyBundle, SupervisionTypeOK, Rank
  <2>2. CASE UNCHANGED supervisionVars  BY <2>2 DEF supervisionVars, SupervisionTypeOK
  <2>3. ASSUME NEW observed \in (SUBSET Targets) \ {{}}, NEW gate \in BOOLEAN,
               NEW seen \in [observed -> Sightings], EvaluateBundle(observed, seen, gate)
        PROVE  SupervisionTypeOK'
    <3>1. observed \in SUBSET Targets /\ observed # {}  OBVIOUS
    <3> QED  BY <2>3, <3>1, BundleIsTyped
  <2> QED  BY <2>1, <2>2, <2>3 DEF SupervisionNext
<1> QED  BY <1>1, <1>2, PTL DEF SupervisionSpec

(* What any of the components retains is well formed, in every behaviour of all
   of them: packets and receipts, limits and the flags of a risk report, statuses
   of a fence, verdicts, research records, the promotion's records and the tables
   of the lifecycle machines. *)
THEOREM DecisionsAreTyped == DecisionsSpec => []DecisionsTypeOK
<1>1. ResearchInv => ResearchTypeOK  BY DEF ResearchInv
<1>2. /\ ReadinessTypeOK /\ RoutingTypeOK /\ RiskTypeOK /\ IntradayTypeOK /\ RecoveryTypeOK /\ SupervisionTypeOK
      /\ ResearchTypeOK /\ PacketsTypeOK
      => DecisionsTypeOK
  BY MachinesAreWellFormed DEF DecisionsTypeOK
<1> QED
  BY <1>1, <1>2, DecisionsRunEach, ReadinessRecords, RoutingRecords, RiskIsTyped, IntradayIsTyped, RecoveryIsTyped,
     SupervisionIsTyped, ResearchInvariant, PacketsAreTyped, PTL

----------------------------------------------------------------------------
(* Two risk requests that differ in their breaches alone. *)
MoreBreached(r, s) ==
  /\ s.breaches \subseteq r.breaches
  /\ s.current = r.current /\ s.projected = r.projected /\ s.pending = r.pending
  /\ s.maxPosition = r.maxPosition /\ s.maxIntents = r.maxIntents
  /\ s.sizeMultiplier = r.sizeMultiplier /\ s.tradeMultiplier = r.tradeMultiplier
  /\ s.increasesRisk = r.increasesRisk

Milder(d, e) == Severity[d.action] <= Severity[e.action]

(* The chain of envelope actions is ordered by severity. *)
LEMMA EnvelopeNeverRelaxes ==
  ASSUME NEW r, NEW s, MoreBreached(r, s)
  PROVE  Milder(EnvelopeControl(s), EnvelopeControl(r))
<1>0. PICK holding : holding = Holding(r)  OBVIOUS
<1>0a. holding = Holding(s)  BY <1>0 DEF MoreBreached, Holding
<1>1. PICK g : g = EnvelopeGates(r)  OBVIOUS
<1>2. PICK h : h = EnvelopeGates(s)  OBVIOUS
<1>3. DOMAIN g = 1..7 /\ DOMAIN h = 1..7  BY <1>1, <1>2 DEF EnvelopeGates
<1>4. \A i \in DOMAIN g : h[i].closed => g[i].closed
  <2>1. s.breaches \subseteq r.breaches  BY DEF MoreBreached
  <2>2. /\ g[1].closed = ("forced_flatten" \in r.breaches) /\ g[2].closed = ("exit_only" \in r.breaches)
        /\ g[3].closed = ("no_new_overnight_carry" \in r.breaches /\ "overnight_requested" \in r.breaches)
        /\ g[4].closed = ("entry_suppression" \in r.breaches)
        /\ g[5].closed = ("passive_entry_suppression" \in r.breaches)
        /\ g[6].closed = ("posture_mismatch" \in r.breaches)
        /\ g[7].closed = ("size_reduction" \in r.breaches \/ "lower_max_trades" \in r.breaches)
    BY <1>1 DEF EnvelopeGates, Gate
  <2>3. /\ h[1].closed = ("forced_flatten" \in s.breaches) /\ h[2].closed = ("exit_only" \in s.breaches)
        /\ h[3].closed = ("no_new_overnight_carry" \in s.breaches /\ "overnight_requested" \in s.breaches)
        /\ h[4].closed = ("entry_suppression" \in s.breaches)
        /\ h[5].closed = ("passive_entry_suppression" \in s.breaches)
        /\ h[6].closed = ("posture_mismatch" \in s.breaches)
        /\ h[7].closed = ("size_reduction" \in s.breaches \/ "lower_max_trades" \in s.breaches)
    BY <1>2 DEF EnvelopeGates, Gate
  <2>4. /\ h[1].closed => g[1].closed
        /\ h[2].closed => g[2].closed
        /\ h[3].closed => g[3].closed
        /\ h[4].closed => g[4].closed
        /\ h[5].closed => g[5].closed
        /\ h[6].closed => g[6].closed
        /\ h[7].closed => g[7].closed
    BY <2>1, <2>2, <2>3, Zenon
  <2> QED  BY <1>3, <2>4
<1>5. PICK severities : severities = <<3, 2, IF holding THEN 2 ELSE 1, 1, 1, 1, 1>>  OBVIOUS
<1>6. \A i \in 1..7 : Severity[g[i].answer.action] = severities[i] /\ Severity[h[i].answer.action] = severities[i]
  <2>1. \A i \in 1..7 : g[i].answer = h[i].answer
    <3>1. PICK exit : exit = IfHolding(r, ExitOnly) /\ exit = IfHolding(s, ExitOnly)
      BY <1>0, <1>0a DEF IfHolding
    <3>2. PICK answers : answers = <<Flatten, ExitOnly, exit, Suppress, Decision("restrict", "passive_only"),
                                     Suppress, Decision("restrict", "normal")>>
      OBVIOUS
    <3>3. \A i \in 1..7 : g[i].answer = answers[i]  BY <1>1, <3>1, <3>2 DEF EnvelopeGates, Gate
    <3>4. \A i \in 1..7 : h[i].answer = answers[i]  BY <1>2, <3>1, <3>2 DEF EnvelopeGates, Gate
    <3> QED  BY <3>3, <3>4
  <2>2. CASE holding
    <3>1. \A i \in 1..7 : Severity[g[i].answer.action] = severities[i]
      BY <1>0, <1>1, <1>5, <2>2 DEF EnvelopeGates, Gate, IfHolding, Flatten, ExitOnly, Suppress, Decision, Severity
    <3> QED  BY <2>1, <3>1
  <2>3. CASE ~holding
    <3>1. \A i \in 1..7 : Severity[g[i].answer.action] = severities[i]
      BY <1>0, <1>1, <1>5, <2>3 DEF EnvelopeGates, Gate, IfHolding, Flatten, ExitOnly, Suppress, Decision, Severity
    <3> QED  BY <2>1, <3>1
  <2> QED  BY <2>2, <2>3
<1>7. \A i, j \in 1..7 : i <= j => severities[j] <= severities[i]  BY <1>5
<1>8. \A i \in 1..7 : severities[i] \in Nat  BY <1>5
<1>9. Severity[Pass.action] = 0  BY DEF Severity, Pass, Decision
<1>10. PICK a : a = FirstClosed(g, Pass)  OBVIOUS
<1>11. PICK b : b = FirstClosed(h, Pass)  OBVIOUS
<1>12. \/ b = Pass
       \/ \E i, j \in DOMAIN g : i <= j /\ a = g[i].answer /\ b = h[j].answer
  <2>1. PICK pass : pass = Pass  OBVIOUS
  <2>2. DOMAIN g \in SUBSET Nat /\ DOMAIN h = DOMAIN g  BY <1>3
  <2>3. a = FirstClosed(g, pass) /\ b = FirstClosed(h, pass)  BY <1>10, <1>11, <2>1
  <2> QED  BY <1>4, <2>1, <2>2, <2>3, ChainCloses
<1>13. a = Pass \/ \E i \in DOMAIN g : a = g[i].answer  BY <1>3, <1>10, ChainAnswers
<1>14. Severity[a.action] >= 0  BY <1>3, <1>6, <1>8, <1>9, <1>13
<1>15. Severity[b.action] <= Severity[a.action]  BY <1>3, <1>6, <1>7, <1>9, <1>12, <1>14
<1> QED  BY <1>1, <1>2, <1>10, <1>11, <1>15 DEF EnvelopeControl, Milder

(* No control answers a request with fewer breaches more strictly. *)
LEMMA ControlsNeverRelax ==
  ASSUME NEW r, NEW s, MoreBreached(r, s), NEW d \in Decisions(s)
  PROVE  \E e \in Decisions(r) : Milder(d, e)
<1>0. /\ Holding(s) <=> Holding(r)
      /\ FirstTradePending(s) <=> FirstTradePending(r)
      /\ PositionControl(s) = PositionControl(r)
      /\ IntentLimit(s) = IntentLimit(r)
  BY DEF MoreBreached, Holding, FirstTradePending, PositionControl, PositionLimit, IntentLimit
<1>1. d \in Responses  BY ControlsRespond
<1>2. CASE "malformed" \in r.breaches
  <2>1. Halt \in Decisions(r)  BY <1>2 DEF Decisions
  <2>2. Milder(d, Halt)
    BY <1>1 DEF Milder, Responses, Pass, Suppress, ExitOnly, Flatten, Halt, Decision, Severity
  <2> QED  BY <2>1, <2>2
<1>3. CASE "malformed" \notin r.breaches
  <2>1. "malformed" \notin s.breaches  BY <1>3 DEF MoreBreached
  <2>2. ASSUME d \in ExposureControls(s) PROVE \E e \in ExposureControls(r) : Milder(d, e)
    <3>1. CASE d = PositionControl(s)
      <4>1. d \in Responses /\ d \in ExposureControls(r)  BY <1>0, <1>1, <3>1 DEF ExposureControls
      <4> QED  BY <4>1 DEF Milder, Responses, Pass, Suppress, ExitOnly, Flatten, Halt, Decision, Severity
    <3>2. CASE d # PositionControl(s)
      <4>1. \/ d = If("session_closed" \in s.breaches, IfHolding(s, ExitOnly))
            \/ d = If(s.pending > IntentLimit(s), Suppress)
            \/ d = If("data_degraded" \in s.breaches /\ s.increasesRisk, Suppress)
        BY <2>2, <3>2 DEF ExposureControls
      <4>2. CASE d = If("session_closed" \in s.breaches, IfHolding(s, ExitOnly))
        <5>1. Milder(d, If("session_closed" \in r.breaches, IfHolding(r, ExitOnly)))
          BY <1>0, <4>2 DEF Milder, If, IfHolding, Pass, Suppress, ExitOnly, Decision, Severity, MoreBreached
        <5> QED  BY <5>1 DEF ExposureControls
      <4>3. CASE d = If(s.pending > IntentLimit(s), Suppress)
        <5>1. d = If(r.pending > IntentLimit(r), Suppress)  BY <1>0, <4>3 DEF MoreBreached
        <5>2. d \in ExposureControls(r)  BY <5>1 DEF ExposureControls
        <5> QED  BY <1>1, <5>2 DEF Milder, Responses, Pass, Suppress, ExitOnly, Flatten, Halt, Decision, Severity
      <4>4. CASE d = If("data_degraded" \in s.breaches /\ s.increasesRisk, Suppress)
        <5>1. Milder(d, If("data_degraded" \in r.breaches /\ r.increasesRisk, Suppress))
          BY <4>4 DEF Milder, If, Pass, Suppress, Decision, Severity, MoreBreached
        <5> QED  BY <5>1 DEF ExposureControls
      <4> QED  BY <4>1, <4>2, <4>3, <4>4
    <3> QED  BY <3>1, <3>2
  <2>3. ASSUME d \in LossControls(s) PROVE \E e \in LossControls(r) : Milder(d, e)
    <3>1. CASE d = If("daily_loss" \in s.breaches, ExitOnly)
      <4>1. Milder(d, If("daily_loss" \in r.breaches, ExitOnly))
        BY <3>1 DEF Milder, If, Pass, ExitOnly, Decision, Severity, MoreBreached
      <4> QED  BY <4>1 DEF LossControls
    <3>2. CASE d = If("drawdown" \in s.breaches, Flatten)
      <4>1. Milder(d, If("drawdown" \in r.breaches, Flatten))
        BY <3>2 DEF Milder, If, Pass, Flatten, Decision, Severity, MoreBreached
      <4> QED  BY <4>1 DEF LossControls
    <3>3. CASE d = If("delivery_window" \in s.breaches /\ Abs(s.projected) > 0, IfHolding(s, Flatten))
      <4>1. Milder(d, If("delivery_window" \in r.breaches /\ Abs(r.projected) > 0, IfHolding(r, Flatten)))
        BY <1>0, <3>3 DEF Milder, If, IfHolding, Pass, Suppress, Flatten, Decision, Severity, MoreBreached
      <4> QED  BY <4>1 DEF LossControls
    <3> QED  BY <2>3, <3>1, <3>2, <3>3 DEF LossControls
  <2>4. ASSUME d \in CarryControls(s) PROVE \E e \in CarryControls(r) : Milder(d, e)
    <3>1. CASE d = If("warmup_unmet" \in s.breaches /\ FirstTradePending(s), Suppress)
      <4>1. Milder(d, If("warmup_unmet" \in r.breaches /\ FirstTradePending(r), Suppress))
        BY <1>0, <3>1 DEF Milder, If, Pass, Suppress, Decision, Severity, MoreBreached
      <4> QED  BY <4>1 DEF CarryControls
    <3>2. CASE d = If("margin" \in s.breaches, Halt)
      <4>1. Milder(d, If("margin" \in r.breaches, Halt))
        BY <3>2 DEF Milder, If, Pass, Halt, Decision, Severity, MoreBreached
      <4> QED  BY <4>1 DEF CarryControls
    <3>3. CASE d = If("overnight_requested" \in s.breaches /\ "overnight_unapproved" \in s.breaches, IfHolding(s, ExitOnly))
      <4>1. Milder(d, If("overnight_requested" \in r.breaches /\ "overnight_unapproved" \in r.breaches, IfHolding(r, ExitOnly)))
        BY <1>0, <3>3 DEF Milder, If, IfHolding, Pass, Suppress, ExitOnly, Decision, Severity, MoreBreached
      <4> QED  BY <4>1 DEF CarryControls
    <3> QED  BY <2>4, <3>1, <3>2, <3>3 DEF CarryControls
  <2>5. Milder(BehaviorControl(s), BehaviorControl(r))
    BY <1>0 DEF BehaviorControl, Milder, If, IfHolding, Pass, Suppress, ExitOnly, Decision, Severity, MoreBreached
  <2>6. Milder(QualityControl(s), QualityControl(r))
    BY <1>0 DEF QualityControl, Milder, If, Pass, Suppress, Halt, Decision, Severity, MoreBreached
  <2>7. Milder(FitControl(s), FitControl(r))
    BY <1>0 DEF FitControl, Milder, If, IfHolding, Pass, Suppress, ExitOnly, Flatten, Decision, Severity, MoreBreached
  <2>8. Milder(EnvelopeControl(s), EnvelopeControl(r))  BY EnvelopeNeverRelaxes
  <2>9. Decisions(r) = ExposureControls(r) \cup LossControls(r) \cup CarryControls(r)
                         \cup {BehaviorControl(r), QualityControl(r), FitControl(r), EnvelopeControl(r)}
    BY <1>3 DEF Decisions
  <2>10. d \in ExposureControls(s) \cup LossControls(s) \cup CarryControls(s)
                 \cup {BehaviorControl(s), QualityControl(s), FitControl(s), EnvelopeControl(s)}
    BY <2>1 DEF Decisions
  <2> QED  BY <2>2, <2>3, <2>4, <2>5, <2>6, <2>7, <2>8, <2>9, <2>10
<1> QED  BY <1>2, <1>3

(* A request is one the runtime made. *)
RiskRequests ==
  [breaches : BreachSets, current : Positions, projected : Positions, pending : Pending,
   maxPosition : Limits, maxIntents : Limits,
   sizeMultiplier : Multipliers, tradeMultiplier : Multipliers, increasesRisk : BOOLEAN]

(* One more breached control never relaxes the decision on a request. *)
LEMMA BreachesStand == RiskSpec => []BreachesNeverRelax
<1> DEFINE Requested == request # NoRequest => request \in RiskRequests
<1>1. RiskInit => Requested  BY DEF RiskInit
<1>2. Requested /\ [RiskNext]_request => Requested'
  BY DEF RiskNext, Evaluate, RiskRequests
<1>3. Requested => BreachesNeverRelax
  <2> SUFFICES ASSUME request # NoRequest, request \in RiskRequests, NEW breach \in request.breaches
               PROVE  Severity[EvaluateRuntimeRisk([request EXCEPT !.breaches = @ \ {breach}]).action]
                        <= Severity[EvaluateRuntimeRisk(request).action]
    BY DEF BreachesNeverRelax
  <2>1. PICK s : s = [request EXCEPT !.breaches = @ \ {breach}]  OBVIOUS
  <2>2. MoreBreached(request, s)  BY <2>1 DEF MoreBreached, RiskRequests
  <2>3. PICK d \in Decisions(s) : DominantAction(Decisions(s)) = d.action  BY DominantIsSeverest
  <2>4. PICK e \in Decisions(request) : Milder(d, e)  BY <2>2, ControlsNeverRelax
  <2>5. PICK f \in Decisions(request) :
          /\ DominantAction(Decisions(request)) = f.action
          /\ \A x \in Decisions(request) : Severity[x.action] <= Severity[f.action]
    BY DominantIsSeverest
  <2>6. d \in Responses /\ e \in Responses /\ f \in Responses  BY ControlsRespond
  <2>7. /\ Severity[d.action] \in Nat /\ Severity[e.action] \in Nat /\ Severity[f.action] \in Nat
    BY <2>6 DEF Responses, Pass, Suppress, ExitOnly, Flatten, Halt, Decision, Severity
  <2>8. Severity[d.action] <= Severity[f.action]  BY <2>4, <2>5, <2>7 DEF Milder
  <2>9. EvaluateRuntimeRisk(s).action = d.action /\ EvaluateRuntimeRisk(request).action = f.action
    BY <2>3, <2>5 DEF EvaluateRuntimeRisk
  <2> QED  BY <2>1, <2>8, <2>9
<1> HIDE DEF Requested
<1> QED  BY <1>1, <1>2, <1>3, PTL DEF RiskSpec

----------------------------------------------------------------------------
(* The rank of the required action, by what differs. *)
LEMMA RequiredActionRises ==
  ASSUME NEW D, NEW fewer \in SUBSET D
  PROVE  ActionRank[RequiredAction(fewer)] <= ActionRank[RequiredAction(D)]
<1> DEFINE RankOf(E) == IF E = {} THEN 0 ELSE IF "permissions" \in E THEN 3 ELSE IF "position" \in E THEN 2 ELSE 1
<1>1. ASSUME NEW E PROVE ActionRank[RequiredAction(E)] = RankOf(E)
  <2>1. CASE E = {}  BY <2>1 DEF RequiredAction, ActionRank
  <2>2. CASE E # {} /\ "permissions" \in E  BY <2>2 DEF RequiredAction, ActionRank
  <2>3. CASE E # {} /\ "permissions" \notin E /\ "position" \in E  BY <2>3 DEF RequiredAction, ActionRank
  <2>4. CASE E # {} /\ "permissions" \notin E /\ "position" \notin E  BY <2>4 DEF RequiredAction, ActionRank
  <2> QED  BY <2>1, <2>2, <2>3, <2>4
<1>2. RankOf(fewer) <= RankOf(D)  OBVIOUS
<1> HIDE DEF RankOf
<1> QED  BY <1>1, <1>2

(* One more difference between the books never relaxes the required action. *)
LEMMA DifferencesStand == IntradaySpec => []DifferencesNeverRelax
<1> DEFINE Answered == latestIntraday # NoArtifact => latestIntraday.action = RequiredAction(latestIntraday.discrepancies)
<1>1. IntradayInit => Answered  BY DEF IntradayInit
<1>2. Answered /\ [IntradayNext]_latestIntraday => Answered'
  BY DEF IntradayNext, ReconcileIntraday
<1>3. Answered => DifferencesNeverRelax
  BY RequiredActionRises DEF DifferencesNeverRelax
<1> HIDE DEF Answered
<1> QED  BY <1>1, <1>2, <1>3, PTL DEF IntradaySpec

----------------------------------------------------------------------------
(* A report put worse leaves the others alone and hides nothing. *)
LEMMA PacketsNeverSoften ==
  ASSUME NEW r \in Request, NEW p \in Reporting(r), NEW status \in Worse(r.outputs[p].status)
  PROVE  Strictness[AssemblePacket([r EXCEPT !.outputs[p].status = status])] >= Strictness[AssemblePacket(r)]
<1>1. PICK s : s = [r EXCEPT !.outputs[p].status = status]  OBVIOUS
<1>2. /\ p \in Providers /\ r.outputs[p] \in Output /\ status \in ProviderStatus
      /\ r.outputs \in [Providers -> Output \cup {Absent}]
  BY DEF Reporting, Request, Worse, ProviderStatus
<1>3. /\ s.identified = r.identified /\ s.required = r.required
      /\ s.outputs = [r.outputs EXCEPT ![p] = [r.outputs[p] EXCEPT !.status = status]]
  BY <1>1 DEF Request
<1>4. PICK worse \in Output : worse = s.outputs[p] /\ worse.status = status
                              /\ worse.requiredForGreen = r.outputs[p].requiredForGreen
  BY <1>2, <1>3 DEF Output
<1>5. \A q \in Providers \ {p} : s.outputs[q] = r.outputs[q]  BY <1>2, <1>3
<1>6. worse # Absent  BY PacketAssumption
<1>7. Reporting(s) = Reporting(r)  BY <1>2, <1>4, <1>5, <1>6 DEF Reporting
<1>8. MissingKinds(s) = MissingKinds(r)  BY <1>3, <1>7 DEF MissingKinds
<1>9. GatingReports(s) \subseteq GatingReports(r) \cup {status}
  BY <1>2, <1>4, <1>5, <1>7 DEF GatingReports, Reporting
<1>10. ASSUME NEW old \in GatingReports(r), old \notin GatingReports(s)
       PROVE  old = r.outputs[p].status /\ status \in GatingReports(s)
  <2>1. PICK q \in Reporting(r) : r.outputs[q].requiredForGreen /\ old = r.outputs[q].status
    BY DEF GatingReports
  <2>2. q = p
    <3>1. ASSUME q # p PROVE FALSE
      <4>1. s.outputs[q] = r.outputs[q]  BY <1>5, <2>1, <3>1 DEF Reporting
      <4>2. old \in GatingReports(s)  BY <1>7, <2>1, <4>1 DEF GatingReports
      <4> QED  BY <4>2, <1>10
    <3> QED  BY <3>1
  <2>3. status \in GatingReports(s)  BY <1>4, <1>7, <2>1, <2>2 DEF GatingReports
  <2> QED  BY <2>1, <2>2, <2>3
<1>11. {"blocked", "stale"} \cap GatingReports(r) # {} => {"blocked", "stale"} \cap GatingReports(s) # {}
  <2>1. r.outputs[p].status \notin {"blocked", "stale"}  BY DEF Worse
  <2> QED  BY <1>10, <2>1
<1>12. "review_required" \in GatingReports(r)
         => "review_required" \in GatingReports(s) \/ {"blocked", "stale"} \cap GatingReports(s) # {}
  <2>1. r.outputs[p].status = "review_required" => status \in {"blocked", "stale"}  BY DEF Worse
  <2> QED  BY <1>10, <2>1
<1>13. AssemblePacket(s) = "invalid" <=> AssemblePacket(r) = "invalid"
  BY <1>3, <1>7, <1>8 DEF AssemblePacket
<1> QED
  BY <1>1, <1>3, <1>7, <1>8, <1>11, <1>12 DEF AssemblePacket, Strictness

(* A worse provider report never helps a session open. *)
LEMMA ReportsStand == ReadinessSpec => []WorseReportsNeverHelp
<1> DEFINE Published ==
      latestPacket # Absent => /\ latestPacket.request \in Request
                               /\ latestPacket.status = AssemblePacket(latestPacket.request)
<1>1. ReadinessInit => Published  BY DEF ReadinessInit
<1>2. Published /\ [ReadinessNext]_readinessVars => Published'
  <2> SUFFICES ASSUME Published, [ReadinessNext]_readinessVars PROVE Published'  OBVIOUS
  <2>1. CASE UNCHANGED readinessVars  BY <2>1 DEF readinessVars
  <2>2. ASSUME NEW r \in Request, PublishSessionReadinessPacket(r) PROVE Published'
    <3>1. latestPacket' = [request |-> r, status |-> AssemblePacket(r)]  BY <2>2 DEF PublishSessionReadinessPacket
    <3> QED  BY <3>1 
  <2> QED  BY <2>1, <2>2 DEF ReadinessNext
<1>3. Published => WorseReportsNeverHelp
  BY PacketsNeverSoften DEF WorseReportsNeverHelp
<1> HIDE DEF Published
<1> QED  BY <1>1, <1>2, <1>3, PTL DEF ReadinessSpec

----------------------------------------------------------------------------
(* The checks of a table are five. *)
LEMMA FiveAreFinite ==
  ASSUME NEW c1, NEW c2, NEW c3, NEW c4, NEW c5
  PROVE  IsFiniteSet({c1, c2, c3, c4, c5})
<1>1. IsFiniteSet({c1})  BY FS_Singleton
<1>2. IsFiniteSet({c1} \cup {c2})  BY <1>1, FS_AddElement
<1>3. IsFiniteSet(({c1} \cup {c2}) \cup {c3})  BY <1>2, FS_AddElement
<1>4. IsFiniteSet((({c1} \cup {c2}) \cup {c3}) \cup {c4})  BY <1>3, FS_AddElement
<1>5. IsFiniteSet(((({c1} \cup {c2}) \cup {c3}) \cup {c4}) \cup {c5})  BY <1>4, FS_AddElement
<1>6. {c1, c2, c3, c4, c5} = ((({c1} \cup {c2}) \cup {c3}) \cup {c4}) \cup {c5}  OBVIOUS
<1> QED  BY <1>5, <1>6, Zenon

(* The checks of a table that fail on a reading are finitely many, and no more
   of them fail on a better one. *)
LEMMA BetterReadingsFailLess ==
  ASSUME NEW table, IsFiniteSet(DOMAIN table), NEW worse, NEW better, worse \subseteq better, NEW measured
  PROVE  LET more == FailedChecks(table, worse) \cap measured
             less == FailedChecks(table, better) \cap measured
         IN  less \subseteq more /\ Cardinality(less) \in Nat /\ Cardinality(more) \in Nat
             /\ Cardinality(less) <= Cardinality(more)
<1>1. PICK more : more = FailedChecks(table, worse) \cap measured  OBVIOUS
<1>2. PICK less : less = FailedChecks(table, better) \cap measured  OBVIOUS
<1>3. more \subseteq DOMAIN table /\ less \subseteq more  BY <1>1, <1>2 DEF FailedChecks
<1>4. IsFiniteSet(more) /\ IsFiniteSet(less)  BY <1>3, FS_Subset
<1>5. Cardinality(less) \in Nat /\ Cardinality(more) \in Nat /\ Cardinality(less) <= Cardinality(more)
  BY <1>3, <1>4, FS_Subset, FS_CardinalityType
<1> QED  BY <1>1, <1>2, <1>3, <1>5

(* A lane of which more holds is never answered more harshly. *)
LEMMA LaneNeverSoftens ==
  ASSUME NEW worse, NEW better, worse \subseteq better
  PROVE  Harshness[EvaluateViabilityGate(better)] <= Harshness[EvaluateViabilityGate(worse)]
<1>1. PICK more : more = FailedChecks(LaneChecks, worse)  OBVIOUS
<1>2. PICK less : less = FailedChecks(LaneChecks, better)  OBVIOUS
<1>3. less \subseteq more /\ Cardinality(less) \in Nat /\ Cardinality(more) \in Nat /\ Cardinality(less) <= Cardinality(more)
  <2>1. IsFiniteSet(DOMAIN LaneChecks)
    <3>1. DOMAIN LaneChecks = {"LC01", "LC02", "LC03", "LC04", "LC05"}  BY DEF LaneChecks
    <3>2. IsFiniteSet({"LC01", "LC02", "LC03", "LC04", "LC05"})  BY FiveAreFinite, Zenon
    <3> QED  BY <3>1, <3>2, Zenon
  <2>2. PICK any : any = DOMAIN LaneChecks  OBVIOUS
  <2>3. more = FailedChecks(LaneChecks, worse) \cap any /\ less = FailedChecks(LaneChecks, better) \cap any
    BY <1>1, <1>2, <2>2 DEF FailedChecks
  <2> QED  BY <2>1, <2>3, BetterReadingsFailLess
<1>4. PICK g : g = <<Gate(more \cap {"LC01", "LC04"} # {} /\ Cardinality(more) >= 3, "terminate"),
                     Gate(more \cap {"LC01", "LC04", "LC05"} # {}, "pivot")>>
  OBVIOUS
<1>5. PICK h : h = <<Gate(less \cap {"LC01", "LC04"} # {} /\ Cardinality(less) >= 3, "terminate"),
                     Gate(less \cap {"LC01", "LC04", "LC05"} # {}, "pivot")>>
  OBVIOUS
<1>6. PICK through : through = "narrow"  OBVIOUS
<1>7. PICK a : a = FirstClosed(g, through)  OBVIOUS
<1>8. PICK b : b = FirstClosed(h, through)  OBVIOUS
<1>9. /\ EvaluateViabilityGate(worse) = IF more = {} THEN "continue" ELSE a
      /\ EvaluateViabilityGate(better) = IF less = {} THEN "continue" ELSE b
  BY <1>1, <1>2, <1>4, <1>5, <1>6, <1>7, <1>8 DEF EvaluateViabilityGate, LaneFailureOutcome
<1>10. DOMAIN g = 1..2 /\ DOMAIN h = 1..2  BY <1>4, <1>5
<1>11. /\ g[1].answer = "terminate" /\ g[2].answer = "pivot" /\ h[1].answer = "terminate" /\ h[2].answer = "pivot"
       /\ h[1].closed => g[1].closed
       /\ h[2].closed => g[2].closed
  <2>1. /\ g[1].closed = (more \cap {"LC01", "LC04"} # {} /\ Cardinality(more) >= 3)
        /\ g[2].closed = (more \cap {"LC01", "LC04", "LC05"} # {})
        /\ g[1].answer = "terminate" /\ g[2].answer = "pivot"
    BY <1>4 DEF Gate
  <2>2. /\ h[1].closed = (less \cap {"LC01", "LC04"} # {} /\ Cardinality(less) >= 3)
        /\ h[2].closed = (less \cap {"LC01", "LC04", "LC05"} # {})
        /\ h[1].answer = "terminate" /\ h[2].answer = "pivot"
    BY <1>5 DEF Gate
  <2>3. Cardinality(less) >= 3 => Cardinality(more) >= 3  BY <1>3
  <2>4. /\ less \cap {"LC01", "LC04"} # {} => more \cap {"LC01", "LC04"} # {}
        /\ less \cap {"LC01", "LC04", "LC05"} # {} => more \cap {"LC01", "LC04", "LC05"} # {}
    BY <1>3
  <2>5. (h[1].closed => g[1].closed) /\ (h[2].closed => g[2].closed)  BY <2>1, <2>2, <2>3, <2>4, Zenon
  <2> QED  BY <2>1, <2>2, <2>5
<1>12. \/ b = through
       \/ \E i, j \in DOMAIN g : i <= j /\ a = g[i].answer /\ b = h[j].answer
  <2>1. DOMAIN g \in SUBSET Nat /\ DOMAIN h = DOMAIN g  BY <1>10
  <2>2. \A i \in DOMAIN g : h[i].closed => g[i].closed  BY <1>10, <1>11
  <2> QED  BY <1>7, <1>8, <2>1, <2>2, ChainCloses
<1>13. a = through \/ \E i \in DOMAIN g : a = g[i].answer
  <2>1. DOMAIN g \in SUBSET Nat  BY <1>10
  <2> QED  BY <1>7, <2>1, ChainAnswers
<1>14. a \in {"narrow", "pivot", "terminate"}  BY <1>6, <1>10, <1>11, <1>13
<1>15. \/ b = "narrow"
       \/ b = "pivot" /\ a \in {"pivot", "terminate"}
       \/ b = "terminate" /\ a = "terminate"
  BY <1>6, <1>10, <1>11, <1>12
<1> QED  BY <1>3, <1>9, <1>14, <1>15 DEF Harshness

(* Three gates, of which the first closes on the same condition: what is answered
   when fewer of the others close is no further down. *)
LEMMA ScreenOutcomeRises ==
  ASSUME NEW g, NEW h, DOMAIN g = 1..3, DOMAIN h = 1..3,
         g[1].answer = "narrow", g[2].answer = "terminate", g[3].answer = "pivot",
         h[1].answer = "narrow", h[2].answer = "terminate", h[3].answer = "pivot",
         NEW unproven, g[1].closed = unproven, h[1].closed = unproven,
         h[2].closed => g[2].closed, h[3].closed => g[3].closed,
         NEW through, through = "narrow",
         NEW a, NEW b, a = FirstClosed(g, through), b = FirstClosed(h, through)
  PROVE  /\ a \in {"narrow", "pivot", "terminate"}
         /\ \/ b = "narrow"
            \/ b = "pivot" /\ a \in {"pivot", "terminate"}
            \/ b = "terminate" /\ a = "terminate"
<1>15. DOMAIN g \in SUBSET Nat /\ DOMAIN h = DOMAIN g /\ \A i \in DOMAIN g : h[i].closed => g[i].closed
  <2>1. DOMAIN g \in SUBSET Nat /\ DOMAIN h = DOMAIN g  OBVIOUS
  <2>2. \A i \in DOMAIN g : h[i].closed => g[i].closed  OBVIOUS
  <2> QED  BY <2>1, <2>2
<1>16. \/ b = through
       \/ \E i, j \in DOMAIN g : i <= j /\ g[i].closed /\ a = g[i].answer /\ b = h[j].answer
  <2>1. DOMAIN g \in SUBSET Nat  BY <1>15
  <2>2. DOMAIN h = DOMAIN g  BY <1>15
  <2>3. \A i \in DOMAIN g : h[i].closed => g[i].closed  BY <1>15
  <2>4. \/ b = through /\ \A i \in DOMAIN h : ~ h[i].closed
        \/ \E i, j \in DOMAIN g : /\ i <= j /\ g[i].closed /\ h[j].closed
                                  /\ a = g[i].answer /\ b = h[j].answer
    <3>1. a = FirstClosed(g, through) /\ b = FirstClosed(h, through)  OBVIOUS
    <3> QED  BY ONLY <2>1, <2>2, <2>3, <3>1, ChainCloses
  <2> QED  BY <2>4, Zenon
<1>17. a = through \/ \E i \in DOMAIN g : a = g[i].answer  BY <1>15, ChainAnswers
<1>18. unproven => b = "narrow"
  <2>1. SUFFICES ASSUME unproven PROVE b = "narrow"  OBVIOUS
  <2>2. \/ b = through /\ \A i \in DOMAIN h : ~ h[i].closed
        \/ \E i \in DOMAIN h : b = h[i].answer /\ \A j \in DOMAIN h : j < i => ~ h[j].closed
    BY <1>15, ChainAnswers
  <2>3. h[1].closed /\ 1 \in DOMAIN h  BY <2>1
  <2> QED  BY <2>2, <2>3
<1>19. a \in {"narrow", "pivot", "terminate"}  BY <1>17
<1>20. \/ b = "narrow"
       \/ b = "pivot" /\ a \in {"pivot", "terminate"}
       \/ b = "terminate" /\ a = "terminate"
  <2>1. CASE b = through  BY <2>1
  <2>2. ASSUME NEW i \in DOMAIN g, NEW j \in DOMAIN g, i <= j, g[i].closed, a = g[i].answer, b = h[j].answer
        PROVE  \/ b = "narrow"
               \/ b = "pivot" /\ a \in {"pivot", "terminate"}
               \/ b = "terminate" /\ a = "terminate"
    <3>1. i \in 1..3 /\ j \in 1..3  BY <2>2
    <3>2. CASE i = 1  BY <1>18, <2>2, <3>2
    <3>3. CASE i = 2  BY <2>2, <3>1, <3>3
    <3>4. CASE i = 3  BY <2>2, <3>1, <3>4
    <3> QED  BY <3>1, <3>2, <3>3, <3>4
  <2> QED  BY <1>16, <2>1, <2>2, Zenon
<1> QED  BY <1>19, <1>20

(* Neither is a screen, whose evidence is the same. *)
LEMMA ScreenNeverSoftens ==
  ASSUME NEW worse, NEW better, worse.reading \subseteq better.reading,
         better.native = worse.native, better.observed = worse.observed,
         better.execution = worse.execution, better.measured = worse.measured
  PROVE  Harshness[EvaluateScreen(better).outcome] <= Harshness[EvaluateScreen(worse).outcome]
<1>1. PICK more : more = FailedChecks(ScreenChecks, worse.reading) \cap worse.measured  OBVIOUS
<1>2. PICK less : less = FailedChecks(ScreenChecks, better.reading) \cap better.measured  OBVIOUS
<1>3. less \subseteq more /\ Cardinality(less) \in Nat /\ Cardinality(more) \in Nat /\ Cardinality(less) <= Cardinality(more)
  <2>1. IsFiniteSet(DOMAIN ScreenChecks)
    <3>1. DOMAIN ScreenChecks = {"VS01", "VS02", "VS03", "VS04", "VS05"}
      BY DEF ScreenChecks, LiquidityChecks, FeasibilityChecks
    <3>2. IsFiniteSet({"VS01", "VS02", "VS03", "VS04", "VS05"})  BY FiveAreFinite, Zenon
    <3> QED  BY <3>1, <3>2, Zenon
  <2>2. PICK reading : reading = worse.reading  OBVIOUS
  <2>3. PICK raised : raised = better.reading  OBVIOUS
  <2>4. PICK measured : measured = worse.measured  OBVIOUS
  <2>5. reading \subseteq raised  BY <2>2, <2>3
  <2>6. more = FailedChecks(ScreenChecks, reading) \cap measured /\ less = FailedChecks(ScreenChecks, raised) \cap measured
    BY <1>1, <1>2, <2>2, <2>3, <2>4
  <2> QED  BY <2>1, <2>5, <2>6, BetterReadingsFailLess
<1>4. PICK unproven : unproven = (~worse.native \/ ~worse.observed)  OBVIOUS
<1>5. PICK g : g = <<Gate(unproven, "narrow"), Gate(Cardinality(more) >= 3, "terminate"),
                     Gate(more \cap {"VS01", "VS04", "VS05"} # {}, "pivot")>>
  OBVIOUS
<1>6. PICK h : h = <<Gate(unproven, "narrow"), Gate(Cardinality(less) >= 3, "terminate"),
                     Gate(less \cap {"VS01", "VS04", "VS05"} # {}, "pivot")>>
  OBVIOUS
<1>7. PICK through : through = "narrow"  OBVIOUS
<1>8. PICK a : a = FirstClosed(g, through)  OBVIOUS
<1>9. PICK b : b = FirstClosed(h, through)  OBVIOUS
<1>10. PICK asked : asked = (worse.execution = "1OZ" => worse.native /\ worse.observed)  OBVIOUS
<1>11. EvaluateScreen(worse).outcome = IF more = {} /\ asked THEN "continue" ELSE a
  BY <1>1, <1>4, <1>5, <1>7, <1>8, <1>10 DEF EvaluateScreen, ScreenFailureOutcome
<1>12. EvaluateScreen(better).outcome = IF less = {} /\ asked THEN "continue" ELSE b
  <2>1. ScreenFailureOutcome(better, less) = b
    BY <1>4, <1>6, <1>7, <1>9 DEF ScreenFailureOutcome
  <2> QED  BY <1>2, <1>10, <2>1 DEF EvaluateScreen
<1>13. DOMAIN g = 1..3 /\ DOMAIN h = 1..3  BY <1>5, <1>6
<1>14. /\ g[1].closed = unproven /\ h[1].closed = unproven
       /\ g[1].answer = "narrow" /\ g[2].answer = "terminate" /\ g[3].answer = "pivot"
       /\ h[1].answer = "narrow" /\ h[2].answer = "terminate" /\ h[3].answer = "pivot"
       /\ h[2].closed => g[2].closed
       /\ h[3].closed => g[3].closed
  <2>1. /\ g[1].closed = unproven /\ g[2].closed = (Cardinality(more) >= 3)
        /\ g[3].closed = (more \cap {"VS01", "VS04", "VS05"} # {})
        /\ g[1].answer = "narrow" /\ g[2].answer = "terminate" /\ g[3].answer = "pivot"
    BY <1>5 DEF Gate
  <2>2. /\ h[1].closed = unproven /\ h[2].closed = (Cardinality(less) >= 3)
        /\ h[3].closed = (less \cap {"VS01", "VS04", "VS05"} # {})
        /\ h[1].answer = "narrow" /\ h[2].answer = "terminate" /\ h[3].answer = "pivot"
    BY <1>6 DEF Gate
  <2>3. Cardinality(less) >= 3 => Cardinality(more) >= 3  BY <1>3
  <2>4. less \cap {"VS01", "VS04", "VS05"} # {} => more \cap {"VS01", "VS04", "VS05"} # {}  BY <1>3
  <2>5. (h[2].closed => g[2].closed) /\ (h[3].closed => g[3].closed)  BY <2>1, <2>2, <2>3, <2>4, Zenon
  <2> QED  BY <2>1, <2>2, <2>5
<1>15. /\ a \in {"narrow", "pivot", "terminate"}
       /\ \/ b = "narrow"
          \/ b = "pivot" /\ a \in {"pivot", "terminate"}
          \/ b = "terminate" /\ a = "terminate"
  BY <1>7, <1>8, <1>9, <1>13, <1>14, ScreenOutcomeRises
<1> QED  BY <1>3, <1>11, <1>12, <1>15 DEF Harshness

(* What was answered on a reading is what the gate says of it. *)
EarlyAnswered ==
  earlyReport # NotScreened =>
    /\ earlyReport.kind = "lane" => earlyReport.outcome = EvaluateViabilityGate(earlyReport.reading)
    /\ earlyReport.kind = "screen" => /\ earlyReport.reading \in EarlyRequests
                                     /\ earlyReport.outcome = EvaluateScreen(earlyReport.reading).outcome

(* Nothing is screened at the start, and every answer is that of its gate. *)
LEMMA EarlyAnsweredInit == EarlyInit => EarlyAnswered
BY DEF EarlyInit, EarlyAnswered

(* Every screening keeps its answer with its reading. *)
LEMMA EarlyAnsweredStep == EarlyAnswered /\ [EarlyNext]_earlyReport => EarlyAnswered'
<1> SUFFICES ASSUME EarlyAnswered, [EarlyNext]_earlyReport PROVE EarlyAnswered'  OBVIOUS
<1>1. ASSUME NEW reading, RunEarlyGate(reading) PROVE EarlyAnswered'
  BY <1>1 DEF RunEarlyGate, EarlyAnswered
<1>2. ASSUME NEW q \in EarlyRequests, RunScreen(q) PROVE EarlyAnswered'
  BY <1>2 DEF RunScreen, EarlyAnswered
<1>3. ASSUME NEW q, RunFastScreening(q) PROVE EarlyAnswered'
  BY <1>3 DEF RunFastScreening, EarlyAnswered
<1>4. ASSUME NEW m, NEW reading, RunCalibration(m, reading) PROVE EarlyAnswered'
  BY <1>4 DEF RunCalibration, EarlyAnswered
<1>5. CASE UNCHANGED earlyReport  BY <1>5 DEF EarlyAnswered
<1> QED  BY <1>1, <1>2, <1>3, <1>4, <1>5 DEF EarlyNext

(* What the gates answer never softens with a worse reading. *)
LEMMA AnsweredNeverSoftens == EarlyAnswered => WorseReadingsNeverSoften
<1> SUFFICES ASSUME EarlyAnswered, earlyReport # NotScreened PROVE WorseReadingsNeverSoften
  BY DEF WorseReadingsNeverSoften
<1>1. ASSUME earlyReport.kind = "lane", NEW better \in LaneReadings, earlyReport.reading \subseteq better
      PROVE  Harshness[EvaluateViabilityGate(better)] <= Harshness[earlyReport.outcome]
  BY <1>1, LaneNeverSoftens DEF EarlyAnswered
<1>2. ASSUME earlyReport.kind = "screen", NEW better \in EarlyRequests,
             earlyReport.reading.reading \subseteq better.reading,
             better = [earlyReport.reading EXCEPT !.reading = better.reading]
      PROVE  Harshness[EvaluateScreen(better).outcome] <= Harshness[earlyReport.outcome]
  <2>1. PICK worse : worse = earlyReport.reading  OBVIOUS
  <2>2. worse \in ScreenRequest  BY <1>2, <2>1, EarlyScreensAssumption DEF EarlyAnswered
  <2>3. /\ better.native = worse.native /\ better.observed = worse.observed
        /\ better.execution = worse.execution /\ better.measured = worse.measured
    BY <1>2, <2>1, <2>2 DEF ScreenRequest
  <2>4. Harshness[EvaluateScreen(better).outcome] <= Harshness[EvaluateScreen(worse).outcome]
    BY <1>2, <2>1, <2>3, ScreenNeverSoftens
  <2> QED  BY <1>2, <2>1, <2>4 DEF EarlyAnswered
<1> QED  BY <1>1, <1>2 DEF WorseReadingsNeverSoften

----------------------------------------------------------------------------
(* How harsh the answers of the submissions are. *)
LEMMA HarshnessRanks ==
  ASSUME NEW answer
  PROVE  /\ HarshnessOf(answer) \in 0..3
         /\ answer \in {"certifiable", "PUBLISHABLE", "USABLE", "BINDING_ALLOWED"} => HarshnessOf(answer) = 0
         /\ answer \notin {"certifiable", "PUBLISHABLE", "USABLE", "BINDING_ALLOWED", "conditional", "blocked"}
              => HarshnessOf(answer) = 3
<1>1. CASE answer \in {"certifiable", "PUBLISHABLE", "USABLE", "BINDING_ALLOWED"}
  <2>1. answer # "conditional" /\ answer # "blocked"  BY <1>1
  <2> QED  BY <1>1, <2>1 DEF HarshnessOf
<1>2. CASE answer = "conditional"  BY <1>2 DEF HarshnessOf
<1>3. CASE answer = "blocked"  BY <1>3 DEF HarshnessOf
<1>4. CASE answer \notin {"certifiable", "PUBLISHABLE", "USABLE", "BINDING_ALLOWED", "conditional", "blocked"}
  BY <1>4 DEF HarshnessOf
<1> QED  BY <1>1, <1>2, <1>3, <1>4

(* A publication is published when its version is supported and its fields are
   all there and well formed, and refused with a reason otherwise. *)
Publishable(p) ==
  /\ p.kind \in DOMAIN ReleaseFields /\ p.version = "supported"
  /\ ReleaseFields[p.kind] \subseteq p.filled
  /\ FieldsWellFormed(p)

(* A publication is refused but when it is publishable. *)
LEMMA PublicationAnswers ==
  ASSUME NEW p
  PROVE  HarshnessOf(EvaluatePublication(p)) = IF Publishable(p) THEN 0 ELSE 3
<1>1. PICK g : g = <<Gate(p.kind \notin DOMAIN ReleaseFields, "UNKNOWN_KIND"), Gate(p.version = "none", "VERSION_MISSING"),
                     Gate(p.version # "supported", "VERSION_UNSUPPORTED")>>
  OBVIOUS
<1>2. PICK supported : supported = "VERSION_SUPPORTED"  OBVIOUS
<1>3. PICK compatible : compatible = EvaluateReleaseCompatibility(p)  OBVIOUS
<1>4. compatible = FirstClosed(g, supported)  BY <1>1, <1>2, <1>3 DEF EvaluateReleaseCompatibility
<1>5. DOMAIN g = 1..3 /\ DOMAIN g \in SUBSET Nat
  <2>1. DOMAIN g = 1..3  BY <1>1
  <2> QED  BY <2>1
<1>6. /\ g[1].closed = (p.kind \notin DOMAIN ReleaseFields) /\ g[2].closed = (p.version = "none")
      /\ g[3].closed = (p.version # "supported")
      /\ g[1].answer = "UNKNOWN_KIND" /\ g[2].answer = "VERSION_MISSING" /\ g[3].answer = "VERSION_UNSUPPORTED"
  BY <1>1 DEF Gate
<1>7. PICK versions : versions = {"UNKNOWN_KIND", "VERSION_MISSING", "VERSION_UNSUPPORTED"}  OBVIOUS
<1>8. \A i \in DOMAIN g : g[i].answer \in versions  BY <1>5, <1>6, <1>7
<1>9. /\ (\A i \in DOMAIN g : ~ g[i].closed) => compatible = supported
      /\ (\E i \in DOMAIN g : g[i].closed) => compatible \in versions
  BY <1>4, <1>5, <1>8, ChainRefuses
<1>10. (compatible = supported) <=> (p.kind \in DOMAIN ReleaseFields /\ p.version = "supported")
  <2>1. supported \notin versions  BY <1>2, <1>7
  <2>2. compatible = supported <=> \A i \in DOMAIN g : ~ g[i].closed  BY <1>9, <2>1
  <2>3. (\A i \in DOMAIN g : ~ g[i].closed) <=> (~ g[1].closed /\ ~ g[2].closed /\ ~ g[3].closed)  BY <1>5
  <2>4. p.version = "supported" => p.version # "none"  OBVIOUS
  <2> QED  BY <1>6, <2>2, <2>3, <2>4, Zenon
<1>11. PICK h : h = <<Gate(compatible # supported, compatible),
                      Gate(p.kind \in DOMAIN ReleaseFields /\ ~(ReleaseFields[p.kind] \subseteq p.filled), "MISSING_FIELDS"),
                      Gate(p.kind \in DOMAIN ReleaseFields /\ ~FieldsWellFormed(p), "FIELD_VALIDATION_FAILED")>>
  OBVIOUS
<1>12. PICK good : good = "PUBLISHABLE"  OBVIOUS
<1>13. PICK answer : answer = EvaluatePublication(p)  OBVIOUS
<1>14. answer = FirstClosed(h, good)
  BY <1>2, <1>3, <1>11, <1>12, <1>13 DEF EvaluatePublication
<1>15. DOMAIN h = 1..3 /\ DOMAIN h \in SUBSET Nat
  <2>1. DOMAIN h = 1..3  BY <1>11
  <2> QED  BY <2>1
<1>16. /\ h[1].closed = (compatible # supported)
       /\ h[2].closed = (p.kind \in DOMAIN ReleaseFields /\ ~(ReleaseFields[p.kind] \subseteq p.filled))
       /\ h[3].closed = (p.kind \in DOMAIN ReleaseFields /\ ~FieldsWellFormed(p))
       /\ h[1].answer = compatible /\ h[2].answer = "MISSING_FIELDS" /\ h[3].answer = "FIELD_VALIDATION_FAILED"
  BY <1>11 DEF Gate
<1>17. PICK bad : bad = versions \cup {supported, "MISSING_FIELDS", "FIELD_VALIDATION_FAILED"}  OBVIOUS
<1>18. compatible \in bad  BY <1>9, <1>17
<1>19. \A i \in DOMAIN h : h[i].answer \in bad
  <2>1. h[2].answer \in bad /\ h[3].answer \in bad  BY <1>16, <1>17
  <2> QED  BY <1>15, <1>16, <1>18, <2>1
<1>20. /\ (\A i \in DOMAIN h : ~ h[i].closed) => answer = good
       /\ (\E i \in DOMAIN h : h[i].closed) => answer \in bad
  BY <1>14, <1>15, <1>19, ChainRefuses
<1>21. (\A i \in DOMAIN h : ~ h[i].closed) <=> Publishable(p)
  <2>1. (\A i \in DOMAIN h : ~ h[i].closed) <=> (~ h[1].closed /\ ~ h[2].closed /\ ~ h[3].closed)  BY <1>15
  <2> QED  BY <1>10, <1>16, <2>1, Zenon DEF Publishable
<1>22. HarshnessOf(good) = 0  BY <1>12, HarshnessRanks
<1>23. ASSUME answer \in bad PROVE HarshnessOf(answer) = 3
  <2>1. answer \notin {"certifiable", "PUBLISHABLE", "USABLE", "BINDING_ALLOWED", "conditional", "blocked"}
    BY <1>2, <1>7, <1>17, <1>23
  <2> QED  BY <2>1, HarshnessRanks
<1> QED  BY <1>13, <1>20, <1>21, <1>22, <1>23

(* A certification is usable when all of it is in order. *)
Usable(c) ==
  /\ c.versionSupported /\ c.kind \in DOMAIN ReleaseFields /\ c.evidenceComplete
  /\ ~(c.canaryRequired /\ c.canaryEvidence = {})
  /\ c.state \in {"certified", "approved", "published"}

(* A certification is refused but when it is usable. *)
LEMMA CertificationAnswers ==
  ASSUME NEW c
  PROVE  HarshnessOf(EvaluateCertification(c)) = IF Usable(c) THEN 0 ELSE 3
<1>1. PICK g : g = <<Gate(~c.versionSupported, "VERSION_UNSUPPORTED"),
                     Gate(c.kind \notin DOMAIN ReleaseFields, "UNKNOWN_RELEASE_KIND"),
                     Gate(~c.evidenceComplete, "MISSING_REQUIRED_EVIDENCE"),
                     Gate(c.canaryRequired /\ c.canaryEvidence = {}, "CANARY_EVIDENCE_REQUIRED"),
                     Gate(c.state \notin {"certified", "approved", "published"}, "RELEASE_NOT_USABLE_STATE")>>
  OBVIOUS
<1>2. PICK good : good = "USABLE"  OBVIOUS
<1>3. PICK answer : answer = EvaluateCertification(c)  OBVIOUS
<1>4. answer = FirstClosed(g, good)  BY <1>1, <1>2, <1>3 DEF EvaluateCertification
<1>5. DOMAIN g = 1..5 /\ DOMAIN g \in SUBSET Nat
  <2>1. DOMAIN g = 1..5  BY <1>1
  <2> QED  BY <2>1
<1>6. /\ g[1].closed = (~c.versionSupported) /\ g[2].closed = (c.kind \notin DOMAIN ReleaseFields)
      /\ g[3].closed = (~c.evidenceComplete) /\ g[4].closed = (c.canaryRequired /\ c.canaryEvidence = {})
      /\ g[5].closed = (c.state \notin {"certified", "approved", "published"})
  BY <1>1 DEF Gate
<1>7. PICK bad : bad = {"VERSION_UNSUPPORTED", "UNKNOWN_RELEASE_KIND", "MISSING_REQUIRED_EVIDENCE",
                        "CANARY_EVIDENCE_REQUIRED", "RELEASE_NOT_USABLE_STATE"}
  OBVIOUS
<1>8. \A i \in DOMAIN g : g[i].answer \in bad
  <2>1. /\ g[1].answer \in bad /\ g[2].answer \in bad /\ g[3].answer \in bad /\ g[4].answer \in bad
        /\ g[5].answer \in bad
    BY <1>1, <1>7 DEF Gate
  <2> QED  BY <1>5, <2>1
<1>9. /\ (\A i \in DOMAIN g : ~ g[i].closed) => answer = good
      /\ (\E i \in DOMAIN g : g[i].closed) => answer \in bad
  BY <1>4, <1>5, <1>8, ChainRefuses
<1>10. (\A i \in DOMAIN g : ~ g[i].closed) <=> Usable(c)
  <2>1. (\A i \in DOMAIN g : ~ g[i].closed)
          <=> (~ g[1].closed /\ ~ g[2].closed /\ ~ g[3].closed /\ ~ g[4].closed /\ ~ g[5].closed)
    BY <1>5
  <2> QED  BY <1>6, <2>1, Zenon DEF Usable
<1>11. HarshnessOf(good) = 0  BY <1>2, HarshnessRanks
<1>12. ASSUME answer \in bad PROVE HarshnessOf(answer) = 3
  <2>1. answer \notin {"certifiable", "PUBLISHABLE", "USABLE", "BINDING_ALLOWED", "conditional", "blocked"}
    BY <1>7, <1>12
  <2> QED  BY <2>1, HarshnessRanks
<1> QED  BY <1>3, <1>9, <1>10, <1>11, <1>12

(* A binding that asks for what is not approved, or for mutable semantics, is refused. *)
LEMMA BindingRefused ==
  ASSUME NEW requested, NEW approved, NEW mutableSemantics, approved = {} \/ mutableSemantics # {}
  PROVE  HarshnessOf(EvaluateSurfaceBinding(requested, approved, mutableSemantics)) = 3
<1>1. PICK g : g = <<Gate(requested = {}, "BINDING_MISSING"), Gate(mutableSemantics # {}, "MUTABLE_FEED_SEMANTICS"),
                     Gate(~(requested \subseteq approved), "NOT_APPROVED")>>
  OBVIOUS
<1>2. PICK good : good = "BINDING_ALLOWED"  OBVIOUS
<1>3. PICK answer : answer = EvaluateSurfaceBinding(requested, approved, mutableSemantics)  OBVIOUS
<1>4. answer = FirstClosed(g, good)  BY <1>1, <1>2, <1>3 DEF EvaluateSurfaceBinding
<1>5. DOMAIN g = 1..3 /\ DOMAIN g \in SUBSET Nat
  <2>1. DOMAIN g = 1..3  BY <1>1
  <2> QED  BY <2>1
<1>6. /\ g[1].closed = (requested = {}) /\ g[2].closed = (mutableSemantics # {})
      /\ g[3].closed = ~(requested \subseteq approved)
  BY <1>1 DEF Gate
<1>7. PICK bad : bad = {"BINDING_MISSING", "MUTABLE_FEED_SEMANTICS", "NOT_APPROVED"}  OBVIOUS
<1>8. \A i \in DOMAIN g : g[i].answer \in bad
  <2>1. g[1].answer \in bad /\ g[2].answer \in bad /\ g[3].answer \in bad  BY <1>1, <1>7 DEF Gate
  <2> QED  BY <1>5, <2>1
<1>9. (\E i \in DOMAIN g : g[i].closed) => answer \in bad  BY <1>4, <1>5, <1>8, ChainRefuses
<1>10. requested = {} \/ mutableSemantics # {} \/ ~(requested \subseteq approved)  OBVIOUS
<1>11. g[1].closed \/ g[2].closed \/ g[3].closed  BY <1>6, <1>10, Zenon
<1>12. answer \in bad  BY <1>5, <1>9, <1>11
<1>13. answer \notin {"certifiable", "PUBLISHABLE", "USABLE", "BINDING_ALLOWED", "conditional", "blocked"}
  BY <1>7, <1>12
<1> QED  BY <1>3, <1>13, HarshnessRanks

----------------------------------------------------------------------------
(* A submission whose counts are negative, that rewrites what it was given or
   lost the failing records is not judged on its findings. *)
Unreadable(r) == \E f \in FindingClasses : r.counts[f] < 0
Rewritten(r) == r.destructiveRewrite \/ ~r.sourceTruthPreserved
Unpreserved(r) == Findings(r) # {} /\ ~r.failingRecordsPreserved

CertificationOf(r) ==
  IF Unreadable(r) \/ Rewritten(r) \/ Unpreserved(r) THEN "suspect"
  ELSE IF Findings(r) = {} THEN "certifiable"
  ELSE IF Findings(r) \cap HardBlockFindings # {} THEN "suspect"
  ELSE IF Findings(r) \cap DegradedFindings # {} THEN "blocked" ELSE "conditional"

(* The certification of a validation, as one decision. *)
LEMMA ValidationAnswers ==
  ASSUME NEW r
  PROVE  EvaluateReleaseValidation(r).certification = CertificationOf(r)
<1>1. PICK unreadable : unreadable = Unreadable(r)  OBVIOUS
<1>2. PICK rewritten : rewritten = Rewritten(r)  OBVIOUS
<1>3. PICK found : found = Findings(r)  OBVIOUS
<1>4. PICK masks : masks = SidecarMasks(r)  OBVIOUS
<1>5. PICK unpreserved : unpreserved = Unpreserved(r)  OBVIOUS
<1>6. PICK g : g = <<Gate(unreadable, ReleaseVerdict("invalid", "quarantined", "suspect", {})),
                     Gate(rewritten, ReleaseVerdict("violation", "quarantined", "suspect", {})),
                     Gate(unpreserved, ReleaseVerdict("violation", "quarantined", "suspect", masks)),
                     Gate(found = {}, ReleaseVerdict("pass", "reference", "certifiable", {})),
                     Gate(found \cap HardBlockFindings # {}, ReleaseVerdict("violation", "quarantined", "suspect", masks)),
                     Gate(found \cap DegradedFindings # {}, ReleaseVerdict("review", "degraded", "blocked", masks))>>
  OBVIOUS
<1>7. PICK otherwise : otherwise = ReleaseVerdict("review", "sensitive", "conditional", masks)  OBVIOUS
<1>8. PICK verdict : verdict = EvaluateReleaseValidation(r)  OBVIOUS
<1>9. verdict = FirstClosed(g, otherwise)
  BY <1>1, <1>2, <1>3, <1>4, <1>5, <1>6, <1>7, <1>8
     DEF EvaluateReleaseValidation, Unreadable, Rewritten, Unpreserved
<1>10. DOMAIN g = 1..6 /\ DOMAIN g \in SUBSET Nat
  <2>1. DOMAIN g = 1..6  BY <1>6
  <2> QED  BY <2>1
<1>11. /\ g[1].closed = unreadable /\ g[2].closed = rewritten /\ g[3].closed = unpreserved
       /\ g[4].closed = (found = {}) /\ g[5].closed = (found \cap HardBlockFindings # {})
       /\ g[6].closed = (found \cap DegradedFindings # {})
  BY <1>6 DEF Gate
<1>12. /\ g[1].answer.certification = "suspect" /\ g[2].answer.certification = "suspect"
       /\ g[3].answer.certification = "suspect" /\ g[4].answer.certification = "certifiable"
       /\ g[5].answer.certification = "suspect" /\ g[6].answer.certification = "blocked"
  BY <1>6 DEF Gate, ReleaseVerdict
<1>13. otherwise.certification = "conditional"  BY <1>7 DEF ReleaseVerdict
<1>14. \/ verdict = otherwise /\ \A i \in DOMAIN g : ~ g[i].closed
       \/ \E i \in DOMAIN g :
            /\ g[i].closed /\ verdict = g[i].answer
            /\ \A j \in DOMAIN g : j < i => ~ g[j].closed
  BY <1>9, <1>10, ChainAnswers
<1>15. PICK certification :
         certification = IF unreadable \/ rewritten \/ unpreserved THEN "suspect"
                         ELSE IF found = {} THEN "certifiable"
                         ELSE IF found \cap HardBlockFindings # {} THEN "suspect"
                         ELSE IF found \cap DegradedFindings # {} THEN "blocked" ELSE "conditional"
  OBVIOUS
<1>16. certification = CertificationOf(r)  BY <1>1, <1>2, <1>3, <1>5, <1>15 DEF CertificationOf
<1>17. CASE verdict = otherwise /\ \A i \in DOMAIN g : ~ g[i].closed
  <2>1. ~ g[1].closed /\ ~ g[2].closed /\ ~ g[3].closed /\ ~ g[4].closed /\ ~ g[5].closed /\ ~ g[6].closed
    BY <1>10, <1>17
  <2>2. certification = "conditional"  BY <1>11, <1>15, <2>1
  <2> QED  BY <1>8, <1>13, <1>16, <1>17, <2>2
<1>18. ASSUME NEW i \in DOMAIN g, g[i].closed, verdict = g[i].answer, \A j \in DOMAIN g : j < i => ~ g[j].closed
       PROVE  EvaluateReleaseValidation(r).certification = CertificationOf(r)
  <2>1. i \in 1..6  BY <1>10
  <2>2. CASE i = 1  BY <1>8, <1>11, <1>12, <1>15, <1>16, <1>18, <2>2
  <2>3. CASE i = 2  BY <1>8, <1>11, <1>12, <1>15, <1>16, <1>18, <2>3
  <2>4. CASE i = 3  BY <1>8, <1>11, <1>12, <1>15, <1>16, <1>18, <2>4
  <2>5. CASE i = 4
    <3>1. ~ g[1].closed /\ ~ g[2].closed /\ ~ g[3].closed  BY <1>10, <1>18, <2>5
    <3>2. certification = "certifiable"  BY <1>11, <1>15, <1>18, <2>5, <3>1
    <3> QED  BY <1>8, <1>12, <1>16, <1>18, <2>5, <3>2
  <2>6. CASE i = 5
    <3>1. ~ g[1].closed /\ ~ g[2].closed /\ ~ g[3].closed /\ ~ g[4].closed  BY <1>10, <1>18, <2>6
    <3>2. certification = "suspect"  BY <1>11, <1>15, <1>18, <2>6, <3>1
    <3> QED  BY <1>8, <1>12, <1>16, <1>18, <2>6, <3>2
  <2>7. CASE i = 6
    <3>1. ~ g[1].closed /\ ~ g[2].closed /\ ~ g[3].closed /\ ~ g[4].closed /\ ~ g[5].closed  BY <1>10, <1>18, <2>7
    <3>2. certification = "blocked"  BY <1>11, <1>15, <1>18, <2>7, <3>1
    <3> QED  BY <1>8, <1>12, <1>16, <1>18, <2>7, <3>2
  <2> QED  BY <2>1, <2>2, <2>3, <2>4, <2>5, <2>6, <2>7
<1> QED  BY <1>14, <1>17, <1>18

(* One more finding of a class leaves every other fact of the submission alone. *)
LEMMA MoreFindings ==
  ASSUME NEW r \in ValidationRequest, NEW f \in FindingClasses, r.counts[f] >= 0,
         NEW s, s = [r EXCEPT !.counts[f] = @ + 1]
  PROVE  /\ Findings(r) \subseteq Findings(s) /\ Findings(s) # {}
         /\ Unreadable(r) => Unreadable(s)
         /\ Rewritten(s) = Rewritten(r) /\ (Unpreserved(r) => Unpreserved(s))
<1>1. PICK counts : counts = r.counts  OBVIOUS
<1>2. counts \in [FindingClasses -> -1..2]  BY <1>1 DEF ValidationRequest
<1>3. PICK more : more = [counts EXCEPT ![f] = @ + 1]  OBVIOUS
<1>4. /\ s.counts = more /\ s.destructiveRewrite = r.destructiveRewrite
      /\ s.sourceTruthPreserved = r.sourceTruthPreserved /\ s.failingRecordsPreserved = r.failingRecordsPreserved
  BY <1>1, <1>3 DEF ValidationRequest
<1>5. more[f] = counts[f] + 1 /\ \A g \in FindingClasses : g # f => more[g] = counts[g]  BY <1>2, <1>3
<1>6. counts[f] \in Int /\ counts[f] >= 0  BY <1>1, <1>2
<1>7. more[f] > 0  BY <1>5, <1>6
<1>8. \A g \in FindingClasses : counts[g] > 0 => more[g] > 0  BY <1>5, <1>7
<1>9. \A g \in FindingClasses : counts[g] < 0 => more[g] < 0
  <2>1. TAKE g \in FindingClasses
  <2>2. CASE g = f  BY <1>6, <2>2
  <2>3. CASE g # f  BY <1>5, <2>3
  <2> QED  BY <2>2, <2>3
<1>10. Findings(r) \subseteq Findings(s) /\ Findings(s) # {}  BY <1>1, <1>4, <1>7, <1>8 DEF Findings
<1>11. Unreadable(r) => Unreadable(s)  BY <1>1, <1>4, <1>9 DEF Unreadable
<1>12. Rewritten(s) = Rewritten(r)  BY <1>4 DEF Rewritten
<1>13. Unpreserved(r) => Unpreserved(s)  BY <1>4, <1>10 DEF Unpreserved
<1> QED  BY <1>10, <1>11, <1>12, <1>13

(* One more finding never earns a milder certification. *)
LEMMA ValidationNeverHelps ==
  ASSUME NEW r \in ValidationRequest, NEW f \in FindingClasses, r.counts[f] >= 0,
         NEW s, s = [r EXCEPT !.counts[f] = @ + 1]
  PROVE  HarshnessOf(EvaluateReleaseValidation(s).certification) >= HarshnessOf(EvaluateReleaseValidation(r).certification)
<1>1. PICK refused : refused = (Unreadable(s) \/ Rewritten(s) \/ Unpreserved(s))  OBVIOUS
<1>2. Unreadable(r) \/ Rewritten(r) \/ Unpreserved(r) => refused
  <2>1. /\ Unreadable(r) => Unreadable(s)
        /\ Rewritten(s) = Rewritten(r) /\ (Unpreserved(r) => Unpreserved(s))
    BY MoreFindings
  <2> QED  BY <1>1, <2>1, Zenon
<1>3. PICK found : found = Findings(r)  OBVIOUS
<1>4. PICK more : more = Findings(s)  OBVIOUS
<1>5. found \subseteq more /\ more # {}  BY <1>3, <1>4, MoreFindings
<1>6. PICK worse : worse = CertificationOf(s)  OBVIOUS
<1>7. PICK answer : answer = CertificationOf(r)  OBVIOUS
<1>8. /\ HarshnessOf("suspect") = 3 /\ HarshnessOf("certifiable") = 0
      /\ HarshnessOf("conditional") = 1 /\ HarshnessOf("blocked") = 2
  BY DEF HarshnessOf
<1>9. HarshnessOf(answer) \in 0..3  BY HarshnessRanks
<1>10. worse = IF refused \/ more \cap HardBlockFindings # {} THEN "suspect"
               ELSE IF more \cap DegradedFindings # {} THEN "blocked" ELSE "conditional"
  BY <1>1, <1>4, <1>5, <1>6 DEF CertificationOf
<1>11. CASE worse = "suspect"
  <2>1. EvaluateReleaseValidation(s).certification = worse  BY <1>6, ValidationAnswers
  <2>2. EvaluateReleaseValidation(r).certification = answer  BY <1>7, ValidationAnswers
  <2>3. HarshnessOf(worse) = 3 /\ HarshnessOf(answer) \in 0..3  BY <1>8, <1>9, <1>11
  <2>4. HarshnessOf(worse) >= HarshnessOf(answer)  BY <2>3
  <2> QED  BY <2>1, <2>2, <2>4
<1>12. CASE worse # "suspect"
  <2>1. ~refused /\ more \cap HardBlockFindings = {}  BY <1>10, <1>12
  <2>2. answer = IF found = {} THEN "certifiable"
                 ELSE IF found \cap DegradedFindings # {} THEN "blocked" ELSE "conditional"
    <3>1. found \cap HardBlockFindings = {}  BY <1>5, <2>1
    <3> QED  BY <1>2, <1>3, <1>7, <2>1, <3>1 DEF CertificationOf
  <2>3. worse = IF more \cap DegradedFindings # {} THEN "blocked" ELSE "conditional"  BY <1>10, <2>1
  <2>4. found \cap DegradedFindings # {} => more \cap DegradedFindings # {}  BY <1>5
  <2>5. \/ answer = "certifiable" /\ worse \in {"blocked", "conditional"}
        \/ answer = "conditional" /\ worse \in {"blocked", "conditional"}
        \/ answer = "blocked" /\ worse = "blocked"
    BY <2>2, <2>3, <2>4
  <2> QED  BY <1>6, <1>7, <1>8, <2>5, ValidationAnswers
<1> QED  BY <1>11, <1>12

----------------------------------------------------------------------------
Submitted ==
  submission # NotSubmitted =>
    /\ submission.answer = AnswerTo(submission.kind, submission.request)
    /\ \/ submission.kind = "validation" /\ submission.request \in ValidationRequests
       \/ submission.kind = "publication" /\ submission.request \in Publications
       \/ submission.kind = "certification" /\ submission.request \in Certifications
       \/ submission.kind = "binding" /\ submission.request \in Bindings

(* Nothing is submitted at the start. *)
LEMMA SubmittedInit == SubmissionInit => Submitted
BY DEF SubmissionInit, Submitted

(* A submission is answered as its evaluator answers it. *)
LEMMA SubmittedStep == Submitted /\ [SubmissionNext]_submission => Submitted'
<1> SUFFICES ASSUME Submitted, [SubmissionNext]_submission PROVE Submitted'  OBVIOUS
<1>1. ASSUME NEW r \in ValidationRequests, Submit("validation", r) PROVE Submitted'
  BY <1>1 DEF Submit, Submitted
<1>2. ASSUME NEW r \in Publications, Submit("publication", r) PROVE Submitted'
  BY <1>2 DEF Submit, Submitted
<1>3. ASSUME NEW r \in Certifications, Submit("certification", r) PROVE Submitted'
  BY <1>3 DEF Submit, Submitted
<1>4. ASSUME NEW r \in Bindings, Submit("binding", r) PROVE Submitted'
  BY <1>4 DEF Submit, Submitted
<1>5. CASE UNCHANGED submission  BY <1>5 DEF Submitted
<1> QED  BY <1>1, <1>2, <1>3, <1>4, <1>5 DEF SubmissionNext

(* Less to show for a submission never earns a better answer. *)
LEMMA SubmittedNeverHelps == Submitted => WeakerEvidenceNeverHelps
<1> SUFFICES ASSUME Submitted, submission # NotSubmitted,
                    NEW s, s \in Weaker(submission.kind, submission.request)
             PROVE  HarshnessOf(AnswerTo(submission.kind, s)) >= HarshnessOf(submission.answer)
  BY DEF WeakerEvidenceNeverHelps
<1>1. PICK r : r = submission.request  OBVIOUS
<1>2. PICK kind : kind = submission.kind  OBVIOUS
<1>3. submission.answer = AnswerTo(kind, r)  BY <1>1, <1>2 DEF Submitted
<1>4. s \in Weaker(kind, r)  BY <1>1, <1>2
<1>5. \/ kind = "validation" /\ r \in ValidationRequests
      \/ kind = "publication" /\ r \in Publications
      \/ kind = "certification" /\ r \in Certifications
      \/ kind = "binding" /\ r \in Bindings
  BY <1>1, <1>2 DEF Submitted
<1> HIDE DEF Submitted
<1>6. HarshnessOf(AnswerTo(kind, s)) >= HarshnessOf(AnswerTo(kind, r))
  <2>1. CASE kind = "validation" /\ r \in ValidationRequests
    <3>1. r \in ValidationRequest  BY <2>1, SubmissionAssumption
    <3>2. PICK f \in FindingClasses : r.counts[f] >= 0 /\ s = [r EXCEPT !.counts[f] = @ + 1]
      BY <1>4, <2>1 DEF Weaker
    <3>3. HarshnessOf(EvaluateReleaseValidation(s).certification)
            >= HarshnessOf(EvaluateReleaseValidation(r).certification)
      BY <3>1, <3>2, ValidationNeverHelps
    <3> QED  BY <2>1, <3>3 DEF AnswerTo
  <2>2. CASE kind = "publication" /\ r \in Publications
    <3>1. r \in Publication  BY <2>2, SubmissionAssumption
    <3>2. \/ \E f \in r.filled : s = [r EXCEPT !.filled = @ \ {f}]
          \/ s = [r EXCEPT !.malformed = r.filled]
      BY <1>4, <2>2 DEF Weaker
    <3>3. Publishable(s) => Publishable(r)
      <4> SUFFICES ASSUME Publishable(s) PROVE Publishable(r)  OBVIOUS
      <4>1. s.kind = r.kind /\ s.version = r.version  BY <3>1, <3>2 DEF Publication
      <4>2. CASE \E f \in r.filled : s = [r EXCEPT !.filled = @ \ {f}]
        <5>1. s.filled \subseteq r.filled /\ s.malformed = r.malformed  BY <3>1, <4>2 DEF Publication
        <5> QED  BY <4>1, <5>1 DEF Publishable, FieldsWellFormed
      <4>3. CASE s = [r EXCEPT !.malformed = r.filled]
        <5>1. s.filled = r.filled /\ s.malformed = r.filled  BY <3>1, <4>3 DEF Publication
        <5>2. PICK looked : looked = CASE r.kind = "dataset_release" -> {"observation_cutoff_utc", "protocol_versions"}
                 [] r.kind = "analytic_release" -> {"feature_block_manifests", "feature_availability_contracts"}
                 [] r.kind = "data_profile_release" -> {"source_feeds", "venue_dataset_ids", "live_historical_parity_expectations"}
          OBVIOUS
        <5>3. r.filled \cap looked = {}  BY <4>1, <5>1, <5>2 DEF Publishable, FieldsWellFormed
        <5>4. r.kind \in DOMAIN ReleaseFields /\ ReleaseFields[r.kind] \subseteq r.filled
          BY <4>1, <5>1 DEF Publishable
        <5>5. FALSE
          <6>1. r.kind \in {"dataset_release", "analytic_release", "data_profile_release"}  BY <5>4 DEF ReleaseFields
          <6>2. CASE r.kind = "dataset_release"
            <7>1. "protocol_versions" \in looked /\ "protocol_versions" \in ReleaseFields[r.kind]
              BY <5>2, <6>2 DEF ReleaseFields
            <7> QED  BY <5>3, <5>4, <7>1
          <6>3. CASE r.kind = "analytic_release"
            <7>1. "feature_block_manifests" \in looked /\ "feature_block_manifests" \in ReleaseFields[r.kind]
              BY <5>2, <6>3 DEF ReleaseFields
            <7> QED  BY <5>3, <5>4, <7>1
          <6>4. CASE r.kind = "data_profile_release"
            <7>1. "source_feeds" \in looked /\ "source_feeds" \in ReleaseFields[r.kind]
              BY <5>2, <6>4 DEF ReleaseFields
            <7> QED  BY <5>3, <5>4, <7>1
          <6> QED  BY <6>1, <6>2, <6>3, <6>4
        <5> QED  BY <5>5
      <4> QED  BY <3>2, <4>2, <4>3
    <3>4. HarshnessOf(EvaluatePublication(s)) = IF Publishable(s) THEN 0 ELSE 3  BY PublicationAnswers
    <3>5. HarshnessOf(EvaluatePublication(r)) = IF Publishable(r) THEN 0 ELSE 3  BY PublicationAnswers
    <3>6. HarshnessOf(EvaluatePublication(s)) >= HarshnessOf(EvaluatePublication(r))  BY <3>3, <3>4, <3>5
    <3> QED  BY <2>2, <3>6 DEF AnswerTo
  <2>3. CASE kind = "certification" /\ r \in Certifications
    <3>1. r \in CertificationRecord  BY <2>3, SubmissionAssumption
    <3>2. s \in {[r EXCEPT !.canaryEvidence = {}], [r EXCEPT !.evidenceComplete = FALSE], [r EXCEPT !.state = "revoked"]}
      BY <1>4, <2>3 DEF Weaker
    <3>3. Usable(s) => Usable(r)
      <4>1. CASE s = [r EXCEPT !.canaryEvidence = {}]
        BY <3>1, <4>1 DEF Usable, CertificationRecord
      <4>2. CASE s = [r EXCEPT !.evidenceComplete = FALSE]
        BY <3>1, <4>2 DEF Usable, CertificationRecord
      <4>3. CASE s = [r EXCEPT !.state = "revoked"]
        BY <3>1, <4>3 DEF Usable, CertificationRecord
      <4> QED  BY <3>2, <4>1, <4>2, <4>3
    <3>4. HarshnessOf(EvaluateCertification(s)) = IF Usable(s) THEN 0 ELSE 3  BY CertificationAnswers
    <3>5. HarshnessOf(EvaluateCertification(r)) = IF Usable(r) THEN 0 ELSE 3  BY CertificationAnswers
    <3>6. HarshnessOf(EvaluateCertification(s)) >= HarshnessOf(EvaluateCertification(r))  BY <3>3, <3>4, <3>5
    <3> QED  BY <2>3, <3>6 DEF AnswerTo
  <2>4. CASE kind = "binding" /\ r \in Bindings
    <3>1. r \in SurfaceBinding  BY <2>4, SubmissionAssumption
    <3>2. s \in {[r EXCEPT !.approved = {}], [r EXCEPT !.mutableSemantics = {"latest"}]}
      BY <1>4, <2>4 DEF Weaker
    <3>3. s.approved = {} \/ s.mutableSemantics # {}  BY <3>1, <3>2 DEF SurfaceBinding
    <3>4. HarshnessOf(EvaluateSurfaceBinding(s.requested, s.approved, s.mutableSemantics)) = 3
      BY <3>3, BindingRefused
    <3>5. HarshnessOf(EvaluateSurfaceBinding(r.requested, r.approved, r.mutableSemantics)) \in 0..3
      BY HarshnessRanks
    <3>6. HarshnessOf(EvaluateSurfaceBinding(s.requested, s.approved, s.mutableSemantics))
            >= HarshnessOf(EvaluateSurfaceBinding(r.requested, r.approved, r.mutableSemantics))
      BY <3>4, <3>5
    <3> QED  BY <2>4, <3>6 DEF AnswerTo
  <2> QED  BY <1>5, <2>1, <2>2, <2>3, <2>4
<1> QED  BY <1>2, <1>3, <1>6

----------------------------------------------------------------------------
(* What the roll policy asks of a request that it passes. *)
RollBound(q) == {"known_product", "required_fields", "resolved_calendar"} \subseteq q.facts
RollSeries(q) ==
  /\ ~(q.usage = "execution" \/ (q.surface # "analytics" /\ q.continuous))
  /\ ~(q.continuous /\ q.usage \notin {"analytics_only", "visualization_only"})
RollActive(q) ==
  /\ {"point_in_time", "delivery_aware", "fence_enforced"} \subseteq q.facts
  /\ ~(q.surface = "backtest" /\ "segment_evaluation" \notin q.facts)
RollWindow(q) == "outside_window" \notin q.facts => {"reviewed_roll", "next_segment"} \subseteq q.facts

(* The delivery window lets a request through that holds outside it, or rolls with
   a review and a next segment. *)
LEMMA WindowPasses ==
  ASSUME NEW q, NEW a, a = FirstClosed(DeliveryWindowGates(q), RollAnswer("pass", "hold"))
  PROVE  a.status = "pass" <=> RollWindow(q)
<1>1. PICK g : g = DeliveryWindowGates(q)  OBVIOUS
<1>2. PICK inside : inside = ("outside_window" \notin q.facts)  OBVIOUS
<1>3. PICK hold : hold = RollAnswer("pass", "hold")  OBVIOUS
<1>4. a = FirstClosed(g, hold)  BY <1>1, <1>3
<1>5. DOMAIN g = 1..3 /\ DOMAIN g \in SUBSET Nat
  <2>1. DOMAIN g = 1..3  BY <1>1 DEF DeliveryWindowGates
  <2> QED  BY <2>1
<1>6. /\ g[1].closed = (inside /\ "reviewed_roll" \notin q.facts)
      /\ g[2].closed = (inside /\ "next_segment" \notin q.facts)
      /\ g[3].closed = inside
  BY <1>1, <1>2 DEF DeliveryWindowGates, Gate
<1>7. g[1].answer.status = "violation" /\ g[2].answer.status = "invalid" /\ g[3].answer.status = "pass"
  BY <1>1 DEF DeliveryWindowGates, Gate, Refusal, RollAnswer
<1>8. hold.status = "pass"  BY <1>3 DEF RollAnswer
<1>9. RollWindow(q) <=> ~ g[1].closed /\ ~ g[2].closed
  <2>1. RollWindow(q) <=> (inside => "reviewed_roll" \in q.facts /\ "next_segment" \in q.facts)
    BY <1>2 DEF RollWindow
  <2> QED  BY <1>6, <2>1, Zenon
<1>10. \/ a = hold /\ \A i \in DOMAIN g : ~ g[i].closed
       \/ \E i \in DOMAIN g :
            /\ g[i].closed /\ a = g[i].answer
            /\ \A j \in DOMAIN g : j < i => ~ g[j].closed
  BY <1>4, <1>5, ChainAnswers
<1>11. CASE a = hold /\ \A i \in DOMAIN g : ~ g[i].closed
  <2>1. ~ g[1].closed /\ ~ g[2].closed  BY <1>5, <1>11
  <2> QED  BY <1>8, <1>9, <1>11, <2>1
<1>12. ASSUME NEW i \in DOMAIN g, g[i].closed, a = g[i].answer, \A j \in DOMAIN g : j < i => ~ g[j].closed
       PROVE  a.status = "pass" <=> RollWindow(q)
  <2>1. i \in 1..3  BY <1>5
  <2>2. CASE i = 1  BY <1>7, <1>9, <1>12, <2>2
  <2>3. CASE i = 2  BY <1>7, <1>9, <1>12, <2>3
  <2>4. CASE i = 3
    <3>1. ~ g[1].closed /\ ~ g[2].closed  BY <1>5, <1>12, <2>4
    <3> QED  BY <1>7, <1>9, <1>12, <2>4, <3>1
  <2> QED  BY <2>1, <2>2, <2>3, <2>4
<1> QED  BY <1>10, <1>11, <1>12

(* A roll request is passed when each of the four series of gates is. *)
LEMMA RollPasses ==
  ASSUME NEW q
  PROVE  EvaluateRollPolicy(q).status = "pass" <=> RollBound(q) /\ RollSeries(q) /\ RollActive(q) /\ RollWindow(q)
<1>1. PICK window : window = FirstClosed(DeliveryWindowGates(q), RollAnswer("pass", "hold"))  OBVIOUS
<1>2. PICK active : active = FirstClosed(ActiveContractGates(q), window)  OBVIOUS
<1>3. PICK series : series = FirstClosed(SeriesGates(q), active)  OBVIOUS
<1>4. PICK a : a = FirstClosed(BindingGates(q), series)  OBVIOUS
<1>5. EvaluateRollPolicy(q) = a  BY <1>1, <1>2, <1>3, <1>4 DEF EvaluateRollPolicy
<1>6. window.status = "pass" <=> RollWindow(q)  BY <1>1, WindowPasses
<1>7. active.status = "pass" <=> RollActive(q) /\ window.status = "pass"
  <2>1. PICK g : g = ActiveContractGates(q)  OBVIOUS
  <2>2. DOMAIN g = 1..2  BY <2>1 DEF ActiveContractGates
  <2>3. DOMAIN g \in SUBSET Nat  BY <2>2
  <2>4. /\ g[1].closed = ~({"point_in_time", "delivery_aware", "fence_enforced"} \subseteq q.facts)
        /\ g[2].closed = (q.surface = "backtest" /\ "segment_evaluation" \notin q.facts)
    BY <2>1 DEF ActiveContractGates, Gate
  <2>5. g[1].answer.status = "violation" /\ g[2].answer.status = "violation"
    BY <2>1 DEF ActiveContractGates, Gate, Refusal, RollAnswer
  <2>6. \A i \in DOMAIN g : g[i].answer.status # "pass"  BY <2>2, <2>5
  <2>7. active = FirstClosed(g, window)  BY <1>2, <2>1
  <2>8. active.status = "pass" <=> (\A i \in DOMAIN g : ~ g[i].closed) /\ window.status = "pass"
    BY <2>3, <2>6, <2>7, ChainPasses
  <2>9. (\A i \in DOMAIN g : ~ g[i].closed) <=> ~ g[1].closed /\ ~ g[2].closed  BY <2>2
  <2> QED  BY <2>4, <2>8, <2>9, Zenon DEF RollActive
<1>8. series.status = "pass" <=> RollSeries(q) /\ active.status = "pass"
  <2>1. PICK g : g = SeriesGates(q)  OBVIOUS
  <2>2. DOMAIN g = 1..2  BY <2>1 DEF SeriesGates
  <2>3. DOMAIN g \in SUBSET Nat  BY <2>2
  <2>4. /\ g[1].closed = (q.usage = "execution" \/ (q.surface # "analytics" /\ q.continuous))
        /\ g[2].closed = (q.continuous /\ q.usage \notin {"analytics_only", "visualization_only"})
    BY <2>1 DEF SeriesGates, Gate
  <2>5. g[1].answer.status = "violation" /\ g[2].answer.status = "invalid"
    BY <2>1 DEF SeriesGates, Gate, Refusal, RollAnswer
  <2>6. \A i \in DOMAIN g : g[i].answer.status # "pass"  BY <2>2, <2>5
  <2>7. series = FirstClosed(g, active)  BY <1>3, <2>1
  <2>8. series.status = "pass" <=> (\A i \in DOMAIN g : ~ g[i].closed) /\ active.status = "pass"
    BY <2>3, <2>6, <2>7, ChainPasses
  <2>9. (\A i \in DOMAIN g : ~ g[i].closed) <=> ~ g[1].closed /\ ~ g[2].closed  BY <2>2
  <2> QED  BY <2>4, <2>8, <2>9, Zenon DEF RollSeries
<1>9. a.status = "pass" <=> RollBound(q) /\ series.status = "pass"
  <2>1. PICK g : g = BindingGates(q)  OBVIOUS
  <2>2. DOMAIN g = 1..3  BY <2>1 DEF BindingGates
  <2>3. DOMAIN g \in SUBSET Nat  BY <2>2
  <2>4. /\ g[1].closed = ("known_product" \notin q.facts) /\ g[2].closed = ("required_fields" \notin q.facts)
        /\ g[3].closed = ("resolved_calendar" \notin q.facts)
    BY <2>1 DEF BindingGates, Gate
  <2>5. g[1].answer.status = "invalid" /\ g[2].answer.status = "invalid" /\ g[3].answer.status = "violation"
    BY <2>1 DEF BindingGates, Gate, Refusal, RollAnswer
  <2>6. \A i \in DOMAIN g : g[i].answer.status # "pass"  BY <2>2, <2>5
  <2>7. a = FirstClosed(g, series)  BY <1>4, <2>1
  <2>8. a.status = "pass" <=> (\A i \in DOMAIN g : ~ g[i].closed) /\ series.status = "pass"
    BY <2>3, <2>6, <2>7, ChainPasses
  <2>9. (\A i \in DOMAIN g : ~ g[i].closed) <=> ~ g[1].closed /\ ~ g[2].closed /\ ~ g[3].closed  BY <2>2
  <2>10. RollBound(q) <=> "known_product" \in q.facts /\ "required_fields" \in q.facts /\ "resolved_calendar" \in q.facts
    BY DEF RollBound
  <2> QED  BY <2>4, <2>8, <2>9, <2>10, Zenon
<1> QED  BY <1>5, <1>6, <1>7, <1>8, <1>9, Zenon

(* A request that states more of the facts is passed where one with fewer is. *)
LEMMA MoreRollFactsPass ==
  ASSUME NEW q, NEW better, better.surface = q.surface, better.usage = q.usage, better.continuous = q.continuous,
         q.facts \subseteq better.facts, EvaluateRollPolicy(q).status = "pass"
  PROVE  EvaluateRollPolicy(better).status = "pass"
<1>1. RollBound(q) /\ RollSeries(q) /\ RollActive(q) /\ RollWindow(q)  BY RollPasses
<1>2. RollBound(better)  BY <1>1 DEF RollBound
<1>3. RollSeries(better)  BY <1>1 DEF RollSeries
<1>4. RollActive(better)  BY <1>1 DEF RollActive
<1>5. RollWindow(better)  BY <1>1 DEF RollWindow
<1> QED  BY <1>2, <1>3, <1>4, <1>5, RollPasses

----------------------------------------------------------------------------
(* A block is accepted when its contract, its data and its timing are in order,
   and the gate passes when every block is. *)
Accepted(c, q) ==
  ContractValid(c) /\ q.profile \in c.profiles /\ ~(LatencyOrder[q.latency] < RequiredLatencyRank(c))

(* One block is accepted when its contract, its data and its timing are in order. *)
LEMMA BlockAnswers ==
  ASSUME NEW c, NEW q
  PROVE  /\ BlockVerdict(c, q) = "accepted" <=> Accepted(c, q)
         /\ BlockVerdict(c, q) \in {"accepted", "invalid", "timing", "data_profile"}
<1>1. PICK g : g = <<Gate(~ContractValid(c), "invalid"), Gate(q.profile \notin c.profiles, "data_profile"),
                     Gate(LatencyOrder[q.latency] < RequiredLatencyRank(c), "timing")>>
  OBVIOUS
<1>2. PICK accepted : accepted = "accepted"  OBVIOUS
<1>3. PICK a : a = BlockVerdict(c, q)  OBVIOUS
<1>4. a = FirstClosed(g, accepted)  BY <1>1, <1>2, <1>3 DEF BlockVerdict
<1>5. DOMAIN g = 1..3  BY <1>1
<1>6. DOMAIN g \in SUBSET Nat  BY <1>5
<1>7. /\ g[1].closed = ~ContractValid(c) /\ g[2].closed = (q.profile \notin c.profiles)
      /\ g[3].closed = (LatencyOrder[q.latency] < RequiredLatencyRank(c))
  BY <1>1 DEF Gate
<1>8. PICK bad : bad = {"invalid", "timing", "data_profile"}  OBVIOUS
<1>9. \A i \in DOMAIN g : g[i].answer \in bad
  <2>1. g[1].answer \in bad /\ g[2].answer \in bad /\ g[3].answer \in bad  BY <1>1, <1>8 DEF Gate
  <2> QED  BY <1>5, <2>1
<1>10. /\ (\A i \in DOMAIN g : ~ g[i].closed) => a = accepted
       /\ (\E i \in DOMAIN g : g[i].closed) => a \in bad
  BY <1>4, <1>6, <1>9, ChainRefuses
<1>11. (\A i \in DOMAIN g : ~ g[i].closed) <=> ~ g[1].closed /\ ~ g[2].closed /\ ~ g[3].closed  BY <1>5
<1>12. (\A i \in DOMAIN g : ~ g[i].closed) <=> Accepted(c, q)  BY <1>7, <1>11, Zenon DEF Accepted
<1>13. accepted \notin bad  BY <1>2, <1>8
<1> QED  BY <1>2, <1>3, <1>8, <1>10, <1>12, <1>13

(* The feature gate passes when there are blocks and each is accepted. *)
LEMMA FeaturesPass ==
  ASSUME NEW q
  PROVE  EvaluateFeatureGate(q) = "pass" <=> q.contracts # {} /\ \A c \in q.contracts : Accepted(c, q)
<1>1. PICK blocked : blocked = {BlockVerdict(c, q) : c \in q.contracts}  OBVIOUS
<1>2. PICK mismatches : mismatches = blocked \cap {"timing", "data_profile"}  OBVIOUS
<1>3. PICK g : g = <<Gate(q.contracts = {} \/ "invalid" \in blocked, "invalid"),
                     Gate(mismatches = {"timing"}, "incompatible_timing"),
                     Gate(mismatches = {"data_profile"}, "incompatible_data_profile"),
                     Gate(mismatches # {}, "incompatible")>>
  OBVIOUS
<1>4. PICK pass : pass = "pass"  OBVIOUS
<1>5. PICK a : a = EvaluateFeatureGate(q)  OBVIOUS
<1>6. a = FirstClosed(g, pass)  BY <1>1, <1>2, <1>3, <1>4, <1>5 DEF EvaluateFeatureGate
<1>7. DOMAIN g = 1..4  BY <1>3
<1>8. DOMAIN g \in SUBSET Nat  BY <1>7
<1>9. /\ g[1].closed = (q.contracts = {} \/ "invalid" \in blocked) /\ g[2].closed = (mismatches = {"timing"})
      /\ g[3].closed = (mismatches = {"data_profile"}) /\ g[4].closed = (mismatches # {})
  BY <1>3 DEF Gate
<1>10. PICK bad : bad = {"invalid", "incompatible_timing", "incompatible_data_profile", "incompatible"}  OBVIOUS
<1>11. \A i \in DOMAIN g : g[i].answer \in bad
  <2>1. g[1].answer \in bad /\ g[2].answer \in bad /\ g[3].answer \in bad /\ g[4].answer \in bad
    BY <1>3, <1>10 DEF Gate
  <2> QED  BY <1>7, <2>1
<1>12. /\ (\A i \in DOMAIN g : ~ g[i].closed) => a = pass
       /\ (\E i \in DOMAIN g : g[i].closed) => a \in bad
  BY <1>6, <1>8, <1>11, ChainRefuses
<1>13. (\A i \in DOMAIN g : ~ g[i].closed) <=> ~ g[1].closed /\ ~ g[2].closed /\ ~ g[3].closed /\ ~ g[4].closed
  BY <1>7
<1>14. (\A i \in DOMAIN g : ~ g[i].closed) <=> q.contracts # {} /\ "invalid" \notin blocked /\ mismatches = {}
  <2>1. mismatches = {} => mismatches # {"timing"} /\ mismatches # {"data_profile"}  OBVIOUS
  <2> QED  BY <1>9, <1>13, <2>1, Zenon
<1>15. ("invalid" \notin blocked /\ mismatches = {}) <=> \A c \in q.contracts : BlockVerdict(c, q) = "accepted"
  <2>1. \A c \in q.contracts : BlockVerdict(c, q) \in {"accepted", "invalid", "timing", "data_profile"}
    BY BlockAnswers
  <2>2. ASSUME "invalid" \notin blocked, mismatches = {}, NEW c \in q.contracts
        PROVE  BlockVerdict(c, q) = "accepted"
    <3>1. BlockVerdict(c, q) \in blocked  BY <1>1
    <3>2. BlockVerdict(c, q) \in {"accepted", "invalid", "timing", "data_profile"}  BY <2>1
    <3> QED  BY <1>2, <2>2, <3>1, <3>2
  <2>3. ASSUME \A c \in q.contracts : BlockVerdict(c, q) = "accepted"
        PROVE  "invalid" \notin blocked /\ mismatches = {}
    <3>1. blocked \subseteq {"accepted"}  BY <1>1, <2>3
    <3> QED  BY <1>2, <3>1
  <2> QED  BY <2>2, <2>3
<1>16. (\A c \in q.contracts : BlockVerdict(c, q) = "accepted") <=> \A c \in q.contracts : Accepted(c, q)
  BY BlockAnswers
<1>17. pass \notin bad  BY <1>4, <1>10
<1>18. a = pass <=> \A i \in DOMAIN g : ~ g[i].closed  BY <1>12, <1>17
<1> QED  BY <1>4, <1>5, <1>14, <1>15, <1>16, <1>18, Zenon

----------------------------------------------------------------------------
(* The rank of a contract is that of the last close it waits for. *)
LEMMA RanksOfLatencies ==
  /\ DOMAIN LatencyOrder = {"intra_bar", "bar_close", "session_close", "next_session"}
  /\ LatencyOrder["intra_bar"] = 0 /\ LatencyOrder["bar_close"] = 1
  /\ LatencyOrder["session_close"] = 2 /\ LatencyOrder["next_session"] = 3
BY DEF LatencyOrder

(* No close that a contract waits for comes after its required rank. *)
LEMMA RequiredRankIsLast ==
  ASSUME NEW c \in FeatureAvailabilityContract
  PROVE  /\ RequiredLatencyRank(c) \in 0..3
         /\ LatencyOrder[c.latency] <= RequiredLatencyRank(c)
         /\ c.barClose => 1 <= RequiredLatencyRank(c)
         /\ c.sessionClose => 2 <= RequiredLatencyRank(c)
<1>1. PICK ranks : ranks = {LatencyOrder[c.latency]}
                             \cup (IF c.barClose THEN {LatencyOrder["bar_close"]} ELSE {})
                             \cup (IF c.sessionClose THEN {LatencyOrder["session_close"]} ELSE {})
  OBVIOUS
<1>2. LatencyOrder[c.latency] \in 0..3
  <2>1. c.latency \in DOMAIN LatencyOrder  BY DEF FeatureAvailabilityContract
  <2> QED  BY <2>1, RanksOfLatencies
<1>3. /\ ranks \subseteq 0..3 /\ LatencyOrder[c.latency] \in ranks
      /\ c.barClose => 1 \in ranks
      /\ c.sessionClose => 2 \in ranks
  BY <1>1, <1>2, RanksOfLatencies
<1>4. \E r \in ranks : \A s \in ranks : s <= r
  <2>1. CASE 3 \in ranks  BY <1>3, <2>1
  <2>2. CASE 3 \notin ranks /\ 2 \in ranks  BY <1>3, <2>2
  <2>3. CASE 3 \notin ranks /\ 2 \notin ranks /\ 1 \in ranks  BY <1>3, <2>3
  <2>4. CASE 3 \notin ranks /\ 2 \notin ranks /\ 1 \notin ranks
    <3>1. ASSUME NEW s \in ranks PROVE s = 0
      <4>1. s \in 0..3 /\ s # 1 /\ s # 2 /\ s # 3  BY <1>3, <2>4
      <4> QED  BY <4>1
    <3>2. PICK r \in ranks : r = 0  BY <1>3, <3>1
    <3>3. \A s \in ranks : s <= r  BY <3>1, <3>2
    <3> QED  BY <3>3
  <2> QED  BY <2>1, <2>2, <2>3, <2>4
<1>5. PICK rank : rank = CHOOSE r \in ranks : \A s \in ranks : s <= r  OBVIOUS
<1>6. rank \in ranks /\ \A s \in ranks : s <= rank  BY <1>4, <1>5
<1>7. rank = RequiredLatencyRank(c)  BY <1>1, <1>5 DEF RequiredLatencyRank
<1> QED  BY <1>3, <1>6, <1>7

(* What has happened by a latency class grows with its rank. *)
LEMMA PastGrows ==
  ASSUME NEW l \in DOMAIN LatencyOrder, NEW m \in DOMAIN LatencyOrder
  PROVE  /\ LatencyOrder[l] \in 0..3
         /\ LatencyOrder[l] <= LatencyOrder[m] <=> Past(l) \subseteq Past(m)
         /\ 1 <= LatencyOrder[m] => "bar" \in Past(m)
         /\ 2 <= LatencyOrder[m] => "session" \in Past(m)
<1>1. ASSUME NEW n \in DOMAIN LatencyOrder
      PROVE  \/ LatencyOrder[n] = 0 /\ Past(n) = {}
             \/ LatencyOrder[n] = 1 /\ Past(n) = {"bar"}
             \/ LatencyOrder[n] = 2 /\ Past(n) = {"bar", "session"}
             \/ LatencyOrder[n] = 3 /\ Past(n) = {"bar", "session", "night"}
  <2>1. CASE n = "intra_bar"  BY <2>1, RanksOfLatencies DEF Past
  <2>2. CASE n = "bar_close"  BY <2>2, RanksOfLatencies DEF Past
  <2>3. CASE n = "session_close"  BY <2>3, RanksOfLatencies DEF Past
  <2>4. CASE n = "next_session"  BY <2>4, RanksOfLatencies DEF Past
  <2> QED  BY <1>1, <2>1, <2>2, <2>3, <2>4, RanksOfLatencies
<1>2. PICK a : a = LatencyOrder[l]  OBVIOUS
<1>3. PICK b : b = LatencyOrder[m]  OBVIOUS
<1>4. PICK A : A = Past(l)  OBVIOUS
<1>5. PICK B : B = Past(m)  OBVIOUS
<1>6. \/ a = 0 /\ A = {}
      \/ a = 1 /\ A = {"bar"}
      \/ a = 2 /\ A = {"bar", "session"}
      \/ a = 3 /\ A = {"bar", "session", "night"}
  BY <1>1, <1>2, <1>4
<1>7. \/ b = 0 /\ B = {}
      \/ b = 1 /\ B = {"bar"}
      \/ b = 2 /\ B = {"bar", "session"}
      \/ b = 3 /\ B = {"bar", "session", "night"}
  BY <1>1, <1>3, <1>5
<1>8. a <= b <=> A \subseteq B
  <2>1. "bar" # "session" /\ "bar" # "night" /\ "session" # "night"  OBVIOUS
  <2>2. CASE a = 0 /\ A = {}  BY <1>7, <2>2
  <2>3. CASE a = 1 /\ A = {"bar"}  BY <1>7, <2>1, <2>3
  <2>4. CASE a = 2 /\ A = {"bar", "session"}  BY <1>7, <2>1, <2>4
  <2>5. CASE a = 3 /\ A = {"bar", "session", "night"}  BY <1>7, <2>1, <2>5
  <2> QED  BY <1>6, <2>2, <2>3, <2>4, <2>5
<1>9. (1 <= b => "bar" \in B) /\ (2 <= b => "session" \in B) /\ a \in 0..3  BY <1>6, <1>7
<1> QED  BY <1>2, <1>3, <1>4, <1>5, <1>8, <1>9

(* A block that is accepted waits for nothing that has not happened, and stays
   accepted by a decision taken later. *)
LEMMA AcceptedIsPast ==
  ASSUME NEW c \in FeatureAvailabilityContract, NEW q, q.latency \in DOMAIN LatencyOrder, Accepted(c, q)
  PROVE  Awaits(c) \subseteq Past(q.latency)
<1>1. PICK rank : rank = RequiredLatencyRank(c)  OBVIOUS
<1>2. PICK now : now = LatencyOrder[q.latency]  OBVIOUS
<1>3. PICK declared : declared = LatencyOrder[c.latency]  OBVIOUS
<1>4. c.latency \in DOMAIN LatencyOrder  BY DEF FeatureAvailabilityContract
<1>5. rank \in 0..3 /\ now \in 0..3 /\ declared \in 0..3 /\ ~(now < rank)
  <2>1. rank \in 0..3  BY <1>1, RequiredRankIsLast
  <2>2. now \in 0..3 /\ declared \in 0..3  BY <1>2, <1>3, <1>4, PastGrows
  <2> QED  BY <1>1, <1>2, <2>1, <2>2 DEF Accepted
<1>6. declared <= rank /\ (c.barClose => 1 <= rank) /\ (c.sessionClose => 2 <= rank)
  BY <1>1, <1>3, RequiredRankIsLast
<1>7. declared <= now /\ (c.barClose => 1 <= now) /\ (c.sessionClose => 2 <= now)  BY <1>5, <1>6
<1>8. Past(c.latency) \subseteq Past(q.latency)  BY <1>2, <1>3, <1>4, <1>7, PastGrows
<1>9. (c.barClose => "bar" \in Past(q.latency)) /\ (c.sessionClose => "session" \in Past(q.latency))
  BY <1>2, <1>7, PastGrows
<1> QED  BY <1>8, <1>9 DEF Awaits

(* A later decision accepts what an earlier one does. *)
LEMMA AcceptedLater ==
  ASSUME NEW c \in FeatureAvailabilityContract, NEW q, NEW later,
         q.latency \in DOMAIN LatencyOrder, later.latency \in DOMAIN LatencyOrder,
         later.profile = q.profile, Past(q.latency) \subseteq Past(later.latency), Accepted(c, q)
  PROVE  Accepted(c, later)
<1>1. PICK rank : rank = RequiredLatencyRank(c)  OBVIOUS
<1>2. PICK now : now = LatencyOrder[q.latency]  OBVIOUS
<1>3. PICK then : then = LatencyOrder[later.latency]  OBVIOUS
<1>4. rank \in 0..3  BY <1>1, RequiredRankIsLast
<1>5. now \in 0..3 /\ then \in 0..3 /\ now <= then  BY <1>2, <1>3, PastGrows
<1>6. ~(now < rank)  BY <1>1, <1>2 DEF Accepted
<1>7. ~(then < rank)  BY <1>4, <1>5, <1>6
<1> QED  BY <1>1, <1>3, <1>7 DEF Accepted

----------------------------------------------------------------------------
SurfaceAnswered ==
  surfaceReport # NotAsked =>
    \/ /\ surfaceReport.kind = "features" /\ surfaceReport.request \in FeatureRequests
       /\ surfaceReport.status = EvaluateFeatureGate(surfaceReport.request)
    \/ /\ surfaceReport.kind = "roll" /\ surfaceReport.request \in RollRequests
       /\ surfaceReport.status = EvaluateRollPolicy(surfaceReport.request).status

(* No surface has asked at the start. *)
LEMMA SurfaceAnsweredInit == FeatureInit => SurfaceAnswered
BY DEF FeatureInit, SurfaceAnswered

(* Every surface is answered as its evaluator answers it. *)
LEMMA SurfaceAnsweredStep == SurfaceAnswered /\ [FeatureNext]_surfaceReport => SurfaceAnswered'
<1> SUFFICES ASSUME SurfaceAnswered, [FeatureNext]_surfaceReport PROVE SurfaceAnswered'  OBVIOUS
<1>1. ASSUME NEW q \in FeatureRequests, AskFeatureGate(q) PROVE SurfaceAnswered'
  BY <1>1 DEF AskFeatureGate, SurfaceAnswered
<1>2. ASSUME NEW q \in RollRequests, AskRollPolicy(q) PROVE SurfaceAnswered'
  BY <1>2 DEF AskRollPolicy, SurfaceAnswered
<1>3. CASE UNCHANGED surfaceReport  BY <1>3 DEF SurfaceAnswered
<1> QED  BY <1>1, <1>2, <1>3 DEF FeatureNext

(* The answers of the two gates never look ahead. *)
LEMMA AnsweredNeverLooksAhead == SurfaceAnswered => SurfacesNeverLookAhead
<1> SUFFICES ASSUME SurfaceAnswered, surfaceReport # NotAsked, surfaceReport.status = "pass"
             PROVE  SurfacesNeverLookAhead
  BY DEF SurfacesNeverLookAhead
<1>1. PICK q : q = surfaceReport.request  OBVIOUS
<1>2. CASE surfaceReport.kind = "features"
  <2>1. q \in FeatureRequests /\ EvaluateFeatureGate(q) = "pass"  BY <1>1, <1>2 DEF SurfaceAnswered
  <2>2. q.latency \in DOMAIN LatencyOrder /\ q.contracts \subseteq FeatureAvailabilityContract
    BY <2>1, FeaturePolicyAssumption DEF FeatureAvailabilityGateRequest
  <2>3. \A c \in q.contracts : Accepted(c, q)  BY <2>1, FeaturesPass
  <2>4. \A c \in q.contracts : Awaits(c) \subseteq Past(q.latency)  BY <2>2, <2>3, AcceptedIsPast
  <2>5. ASSUME NEW better \in FeatureRequests, better.contracts # {}, better.contracts \subseteq q.contracts,
               better.profile = q.profile, Past(q.latency) \subseteq Past(better.latency)
        PROVE  EvaluateFeatureGate(better) = "pass"
    <3>1. better.latency \in DOMAIN LatencyOrder
      BY <2>5, FeaturePolicyAssumption DEF FeatureAvailabilityGateRequest
    <3>2. \A c \in better.contracts : Accepted(c, better)  BY <2>2, <2>3, <2>5, <3>1, AcceptedLater
    <3> QED  BY <2>5, <3>2, FeaturesPass
  <2> QED  BY <1>1, <1>2, <2>4, <2>5 DEF SurfacesNeverLookAhead
<1>3. CASE surfaceReport.kind = "roll"
  <2>1. q \in RollRequests /\ EvaluateRollPolicy(q).status = "pass"  BY <1>1, <1>3 DEF SurfaceAnswered
  <2>2. q \in RollPolicyRequest  BY <2>1, FeaturePolicyAssumption
  <2>3. ASSUME NEW better \in RollRequests, better = [q EXCEPT !.facts = better.facts], q.facts \subseteq better.facts
        PROVE  EvaluateRollPolicy(better).status = "pass"
    <3>1. better.surface = q.surface /\ better.usage = q.usage /\ better.continuous = q.continuous
      BY <2>2, <2>3 DEF RollPolicyRequest
    <3> QED  BY <2>1, <2>3, <3>1, MoreRollFactsPass
  <2> QED  BY <1>1, <1>3, <2>3 DEF SurfacesNeverLookAhead
<1> QED  BY <1>2, <1>3 DEF SurfaceAnswered

----------------------------------------------------------------------------
UsableUpdates == {u \in MarketDataEvent : ~Dropped(u)}
OfKind(kind) == {u \in MarketDataEvent : u.kind = kind}
NamedRejected(updates) == {n \in DOMAIN updates : Dropped(updates[n])}

(* What the builder works on, in terms of picks. *)
LEMMA AdmittedIsPicked ==
  ASSUME NEW updates \in Seq(MarketDataEvent), NEW kind
  PROVE  Admitted(updates, kind) = Picked(updates, PositionsOf(updates, UsableUpdates \cap OfKind(kind)))
<1>1. \A n \in DOMAIN updates : updates[n] \in MarketDataEvent  OBVIOUS
<1>2. {n \in DOMAIN updates : updates[n].kind = kind /\ ~Dropped(updates[n])}
        = PositionsOf(updates, UsableUpdates \cap OfKind(kind))
  BY <1>1 DEF PositionsOf, UsableUpdates, OfKind
<1> QED  BY <1>2 DEF Admitted

(* Without what was rejected, the same is admitted and nothing is rejected. *)
LEMMA KeptAdmits ==
  ASSUME NEW updates \in Seq(MarketDataEvent),
         NEW kept, kept = Picked(updates, DOMAIN updates \ NamedRejected(updates)), NEW kind
  PROVE  /\ kept \in Seq(MarketDataEvent)
         /\ Admitted(kept, kind) = Admitted(updates, kind)
         /\ NamedRejected(kept) = {}
         /\ Picked(kept, PositionsOf(kept, OfKind(kind))) = Admitted(updates, kind)
<1>1. kept = Picked(updates, PositionsOf(updates, UsableUpdates))
  <2>1. DOMAIN updates \ NamedRejected(updates) = PositionsOf(updates, UsableUpdates)
    <3>1. \A n \in DOMAIN updates : updates[n] \in MarketDataEvent  OBVIOUS
    <3> QED  BY <3>1 DEF PositionsOf, UsableUpdates, NamedRejected
  <2> QED  BY <2>1
<1>2. kept \in Seq(MarketDataEvent)  BY <1>1, PickedType
<1>3. PICK A : A = UsableUpdates  OBVIOUS
<1>4. PICK B : B = UsableUpdates \cap OfKind(kind)  OBVIOUS
<1>5. PICK C : C = OfKind(kind)  OBVIOUS
<1>6. A \cap B = B /\ A \cap C = B  BY <1>3, <1>4, <1>5
<1>7. Admitted(updates, kind) = Picked(updates, PositionsOf(updates, B))  BY <1>4, AdmittedIsPicked
<1>8. Admitted(kept, kind) = Picked(kept, PositionsOf(kept, B))  BY <1>2, <1>4, AdmittedIsPicked
<1>9. kept = Picked(updates, PositionsOf(updates, A))  BY <1>1, <1>3
<1>10. Picked(kept, PositionsOf(kept, B)) = Picked(updates, PositionsOf(updates, A \cap B))  BY <1>9, PickedTwice
<1>11. Picked(kept, PositionsOf(kept, C)) = Picked(updates, PositionsOf(updates, A \cap C))  BY <1>9, PickedTwice
<1>12. NamedRejected(kept) = {}
  <2>1. PickedFrom(updates, PositionsOf(updates, A), kept, Len(updates))  BY <1>9, PickedEntries
  <2>2. ASSUME NEW k \in DOMAIN kept PROVE ~Dropped(kept[k])
    <3>1. PICK n \in PositionsOf(updates, A) : kept[k] = updates[n]  BY <2>1 DEF PickedFrom
    <3>2. updates[n] \in A  BY <3>1 DEF PositionsOf
    <3> QED  BY <1>3, <3>1, <3>2 DEF UsableUpdates
  <2> QED  BY <2>2 DEF NamedRejected
<1> QED  BY <1>2, <1>5, <1>6, <1>7, <1>8, <1>10, <1>11, <1>12

(* The trades that are admitted are admitted again, and no quote among them. *)
LEMMA TradesAdmitThemselves ==
  ASSUME NEW updates \in Seq(MarketDataEvent), NEW trades, trades = Admitted(updates, "trade")
  PROVE  trades \in Seq(MarketDataEvent) /\ Admitted(trades, "trade") = trades /\ Admitted(trades, "quote") = <<>>
<1>1. PICK A : A = UsableUpdates \cap OfKind("trade")  OBVIOUS
<1>2. PICK B : B = UsableUpdates \cap OfKind("quote")  OBVIOUS
<1>3. trades = Picked(updates, PositionsOf(updates, A))  BY <1>1, AdmittedIsPicked
<1>4. trades \in Seq(MarketDataEvent)  BY <1>3, PickedType
<1>5. Admitted(trades, "trade") = Picked(trades, PositionsOf(trades, A))  BY <1>1, <1>4, AdmittedIsPicked
<1>6. Admitted(trades, "quote") = Picked(trades, PositionsOf(trades, B))  BY <1>2, <1>4, AdmittedIsPicked
<1>7. A \cap A = A /\ A \cap B = {}
  <2>1. "trade" # "quote"  OBVIOUS
  <2> QED  BY <1>1, <1>2, <2>1 DEF OfKind
<1>8. Picked(trades, PositionsOf(trades, A)) = Picked(updates, PositionsOf(updates, A \cap A))  BY <1>3, PickedTwice
<1>9. Picked(trades, PositionsOf(trades, B)) = Picked(updates, PositionsOf(updates, A \cap B))  BY <1>3, PickedTwice
<1>10. Picked(updates, PositionsOf(updates, {})) = <<>>
  <2>1. \A n \in DOMAIN updates : n \notin PositionsOf(updates, {})  BY DEF PositionsOf
  <2> QED  BY <2>1, PickedNone
<1> QED  BY <1>3, <1>4, <1>5, <1>6, <1>7, <1>8, <1>9, <1>10

----------------------------------------------------------------------------
(* Every update as fresh as it can be. *)
Freshened == [u \in MarketDataEvent |-> [u EXCEPT !.age = 0]]

(* Only the age of an update changes. *)
LEMMA FreshenedKeepsTheRest ==
  /\ Freshened \in [MarketDataEvent -> MarketDataEvent]
  /\ \A u \in MarketDataEvent :
       /\ Freshened[u].kind = u.kind /\ Freshened[u].size = u.size /\ Freshened[u].age = 0
       /\ Dropped(Freshened[u]) = Dropped(u) /\ Level(Freshened[u]) = Level(u)
<1>1. ASSUME NEW u \in MarketDataEvent
      PROVE  /\ [u EXCEPT !.age = 0] \in MarketDataEvent
             /\ Freshened[u] = [u EXCEPT !.age = 0]
  BY DEF Freshened, MarketDataEvent
<1>2. Freshened \in [MarketDataEvent -> MarketDataEvent]  BY <1>1 DEF Freshened
<1>3. ASSUME NEW u \in MarketDataEvent
      PROVE  /\ Freshened[u].kind = u.kind /\ Freshened[u].size = u.size /\ Freshened[u].age = 0
             /\ Dropped(Freshened[u]) = Dropped(u) /\ Level(Freshened[u]) = Level(u)
  <2>1. PICK v : v = [u EXCEPT !.age = 0]  OBVIOUS
  <2>2. /\ v.kind = u.kind /\ v.size = u.size /\ v.age = 0 /\ v.native = u.native /\ v.corrected = u.corrected
        /\ v.latePrint = u.latePrint /\ v.price = u.price /\ v.bid = u.bid /\ v.ask = u.ask
    BY <2>1 DEF MarketDataEvent
  <2>3. Dropped(v) = Dropped(u)  BY <2>2 DEF Dropped
  <2>4. Level(v) = Level(u)  BY <2>2 DEF Level
  <2> QED  BY <1>1, <2>1, <2>2, <2>3, <2>4
<1> QED  BY <1>2, <1>3

(* The same updates are admitted, only fresher. *)
LEMMA FreshenedAdmits ==
  ASSUME NEW updates \in Seq(MarketDataEvent), NEW kind,
         NEW fresh, fresh = [n \in DOMAIN updates |-> [updates[n] EXCEPT !.age = 0]]
  PROVE  /\ fresh \in Seq(MarketDataEvent)
         /\ Admitted(fresh, kind) = Mapped(Admitted(updates, kind), Freshened)
<1>1. \A n \in DOMAIN updates : updates[n] \in MarketDataEvent  OBVIOUS
<1>2. fresh = Mapped(updates, Freshened)
  <2>1. \A n \in DOMAIN updates : Freshened[updates[n]] = [updates[n] EXCEPT !.age = 0]  BY <1>1 DEF Freshened
  <2> QED  BY <2>1 DEF Mapped
<1>3. fresh \in Seq(MarketDataEvent) /\ DOMAIN fresh = DOMAIN updates  
  <2>1. Freshened \in [MarketDataEvent -> MarketDataEvent]  BY FreshenedKeepsTheRest
  <2>2. Mapped(updates, Freshened) \in Seq(MarketDataEvent) /\ DOMAIN Mapped(updates, Freshened) = DOMAIN updates
    BY <2>1, MappedIsLog
  <2> QED  BY <1>2, <2>2
<1>4. PICK P : P = {n \in DOMAIN updates : updates[n].kind = kind /\ ~Dropped(updates[n])}  OBVIOUS
<1>5. {n \in DOMAIN fresh : fresh[n].kind = kind /\ ~Dropped(fresh[n])} = P
  <2>1. \A n \in DOMAIN updates : fresh[n] = Freshened[updates[n]]  BY <1>2 DEF Mapped
  <2>2. \A n \in DOMAIN updates : fresh[n].kind = updates[n].kind /\ Dropped(fresh[n]) = Dropped(updates[n])
    BY <1>1, <2>1, FreshenedKeepsTheRest
  <2> QED  BY <1>3, <1>4, <2>2
<1>6. Admitted(fresh, kind) = Picked(Mapped(updates, Freshened), P)  BY <1>2, <1>5 DEF Admitted
<1>7. Picked(Mapped(updates, Freshened), P) = Mapped(Picked(updates, P), Freshened)
  BY PickedMapped, FreshenedKeepsTheRest
<1> QED  BY <1>3, <1>4, <1>6, <1>7 DEF Admitted

----------------------------------------------------------------------------
(* A bar depends on its request by the window alone, and not on the ages of its ticks. *)
LEMMA BarIsOfWindow ==
  ASSUME NEW q, NEW p, p.window = q.window, NEW ticks, NEW source
  PROVE  BarOf(p, ticks, source) = BarOf(q, ticks, source)
BY DEF BarOf

(* The ages of the ticks are no part of the bar. *)
LEMMA BarOfFresher ==
  ASSUME NEW q, NEW p, p.window = q.window, NEW ticks \in Seq(MarketDataEvent), ticks # <<>>,
         NEW source, NEW fresh, fresh = Mapped(ticks, Freshened)
  PROVE  BarOf(p, fresh, source) = BarOf(q, ticks, source)
<1>1. DOMAIN fresh = DOMAIN ticks /\ Len(fresh) = Len(ticks)  BY MappedIsLog, FreshenedKeepsTheRest
<1>2. \A n \in DOMAIN ticks : ticks[n] \in MarketDataEvent /\ fresh[n] = Freshened[ticks[n]]  BY DEF Mapped
<1>3. \A n \in DOMAIN ticks : Level(fresh[n]) = Level(ticks[n]) /\ fresh[n].size = ticks[n].size
  BY <1>2, FreshenedKeepsTheRest
<1>4. 1 \in DOMAIN ticks /\ Len(ticks) \in DOMAIN ticks  OBVIOUS
<1>5. {Level(fresh[n]) : n \in DOMAIN fresh} = {Level(ticks[n]) : n \in DOMAIN ticks}  BY <1>1, <1>3
<1>6. [n \in DOMAIN fresh |-> fresh[n].size] = [n \in DOMAIN ticks |-> ticks[n].size]  BY <1>1, <1>3
<1>7. Level(fresh[1]) = Level(ticks[1]) /\ Level(fresh[Len(ticks)]) = Level(ticks[Len(ticks)])  BY <1>3, <1>4
<1>8. PICK levels : levels = {Level(ticks[n]) : n \in DOMAIN ticks}  OBVIOUS
<1>9. PICK sizes : sizes = [n \in DOMAIN ticks |-> ticks[n].size]  OBVIOUS
<1>10. BarOf(q, ticks, source) =
         [source |-> source, open |-> Level(ticks[1]), close |-> Level(ticks[Len(ticks)]),
          high |-> Highest(levels), low |-> Lowest(levels), window |-> q.window,
          volume |-> IF source = "trades" THEN SumOf(sizes, Len(ticks)) ELSE 0,
          zeroVolume |-> source = "quote_fallback"]
  BY <1>8, <1>9 DEF BarOf
<1>11. BarOf(p, fresh, source) =
         [source |-> source, open |-> Level(fresh[1]), close |-> Level(fresh[Len(fresh)]),
          high |-> Highest(levels), low |-> Lowest(levels), window |-> p.window,
          volume |-> IF source = "trades" THEN SumOf(sizes, Len(fresh)) ELSE 0,
          zeroVolume |-> source = "quote_fallback"]
  BY <1>5, <1>6, <1>8, <1>9 DEF BarOf
<1> QED  BY <1>1, <1>7, <1>10, <1>11

(* No quote is stale when all are fresh. *)
LEMMA FreshQuotesRateZero ==
  ASSUME NEW q \in LiveBarBuildRequest, NEW quotes \in Seq(MarketDataEvent), \A n \in DOMAIN quotes : quotes[n].age = 0
  PROVE  StaleQuoteRate(q, quotes) = 0
<1>1. q.maxAge \in Nat  BY DEF LiveBarBuildRequest
<1>2. PICK stale : stale = {n \in DOMAIN quotes : Stale(q, quotes[n])}  OBVIOUS
<1>3. stale = {}  BY <1>1, <1>2 DEF Stale
<1>4. PICK some : some = Cardinality(stale)  OBVIOUS
<1>5. some = 0  BY <1>3, <1>4, FS_EmptySet
<1>6. PICK many : many = Len(quotes)  OBVIOUS
<1>7. StaleQuoteRate(q, quotes) = IF quotes = <<>> THEN 0 ELSE (some * 10000) \div many
  BY <1>2, <1>4, <1>6 DEF StaleQuoteRate
<1>8. CASE quotes = <<>>  BY <1>7, <1>8
<1>9. CASE quotes # <<>>
  <2>1. many \in Nat /\ many # 0  BY <1>6, <1>9
  <2>2. (some * 10000) \div many = 0  BY <1>5, <2>1
  <2> QED  BY <1>7, <1>9, <2>2
<1> QED  BY <1>8, <1>9

(* Two requests that differ in their updates alone. *)
SameTerms(p, q) ==
  /\ p.entitlement = q.entitlement /\ p.state = q.state /\ p.tradeable = q.tradeable /\ p.window = q.window
  /\ p.fallback = q.fallback /\ p.delay = q.delay /\ p.maxDelay = q.maxDelay /\ p.maxAge = q.maxAge
  /\ p.staleRestrictBps = q.staleRestrictBps /\ p.reference = q.reference

(* Replacing the updates leaves the terms of a request alone. *)
LEMMA UpdatesAlone ==
  ASSUME NEW q \in LiveBarBuildRequest, NEW updates, NEW p, p = [q EXCEPT !.updates = updates]
  PROVE  SameTerms(p, q) /\ p.updates = updates
BY DEF LiveBarBuildRequest, SameTerms

(* A request whose terms admit a bar is built from what is admitted. *)
BarAdmitted(q, trades, quotes) ==
  /\ q.entitlement = "live_top_of_book" /\ q.tradeable /\ q.state = "tradeable"
  /\ ~(trades = <<>> /\ quotes = <<>>) /\ ~(trades = <<>> /\ ~q.fallback)

(* A bar comes of a request that is admitted, and of no other. *)
LEMMA BarAnswers ==
  ASSUME NEW q, NEW trades, trades = Admitted(q.updates, "trade"), NEW quotes, quotes = Admitted(q.updates, "quote")
  PROVE  /\ BarAdmitted(q, trades, quotes)
              => BuildLiveBar(q) = BuiltReport(q, trades, quotes, NamedRejected(q.updates))
         /\ BuildLiveBar(q).bar # NoBar => BarAdmitted(q, trades, quotes)
<1>1. PICK rejected : rejected = NamedRejected(q.updates)  OBVIOUS
<1>2. PICK built : built = BuiltReport(q, trades, quotes, rejected)  OBVIOUS
<1>3. PICK g : g = <<Gate(q.entitlement # "live_top_of_book", RejectReport("entitlement", {})),
                     Gate(~q.tradeable \/ q.state # "tradeable", RejectReport("session", {})),
                     Gate(trades = <<>> /\ quotes = <<>>, RejectReport("no_usable_updates", rejected)),
                     Gate(trades = <<>> /\ ~q.fallback, RejectReport("fallback_not_approved", rejected))>>
  OBVIOUS
<1>4. PICK a : a = BuildLiveBar(q)  OBVIOUS
<1>5. a = FirstClosed(g, built)  BY <1>1, <1>2, <1>3, <1>4 DEF BuildLiveBar, NamedRejected
<1>6. DOMAIN g = 1..4  BY <1>3
<1>7. DOMAIN g \in SUBSET Nat  BY <1>6
<1>8. /\ g[1].closed = (q.entitlement # "live_top_of_book")
      /\ g[2].closed = (~q.tradeable \/ q.state # "tradeable")
      /\ g[3].closed = (trades = <<>> /\ quotes = <<>>)
      /\ g[4].closed = (trades = <<>> /\ ~q.fallback)
  BY <1>3 DEF Gate
<1>9. \A i \in DOMAIN g : g[i].answer.bar = NoBar
  <2>1. /\ g[1].answer.bar = NoBar /\ g[2].answer.bar = NoBar /\ g[3].answer.bar = NoBar /\ g[4].answer.bar = NoBar
    BY <1>3 DEF Gate, RejectReport
  <2> QED  BY <1>6, <2>1
<1>10. \/ a = built /\ \A i \in DOMAIN g : ~ g[i].closed
       \/ \E i \in DOMAIN g : g[i].closed /\ a = g[i].answer
  BY <1>5, <1>7, ChainAnswers
<1>11. (\A i \in DOMAIN g : ~ g[i].closed) <=> ~ g[1].closed /\ ~ g[2].closed /\ ~ g[3].closed /\ ~ g[4].closed
  BY <1>6
<1>12. (\A i \in DOMAIN g : ~ g[i].closed) <=> BarAdmitted(q, trades, quotes)
  BY <1>8, <1>11, Zenon DEF BarAdmitted
<1>13. BarAdmitted(q, trades, quotes) => a = built  BY <1>10, <1>12
<1>14. a.bar # NoBar => BarAdmitted(q, trades, quotes)  BY <1>9, <1>10, <1>12
<1> QED  BY <1>1, <1>2, <1>4, <1>13, <1>14

BarAnswered ==
  liveBar # NotBuilt => liveBar.request \in BarRequests /\ liveBar.report = BuildLiveBar(liveBar.request)

(* No bar is built at the start. *)
LEMMA BarAnsweredInit == LiveBarsInit => BarAnswered
BY DEF LiveBarsInit, BarAnswered

(* Every bar is kept with its request. *)
LEMMA BarAnsweredStep == BarAnswered /\ [LiveBarsNext]_liveBar => BarAnswered'
BY DEF BarAnswered, LiveBarsNext, RequestBar

(* What is built depends on a request by its terms alone. *)
LEMMA TermsBuildTheSame ==
  ASSUME NEW q, NEW p, SameTerms(p, q), NEW trades, NEW quotes, NEW rejected
  PROVE  BuiltReport(p, trades, quotes, {}) = [BuiltReport(q, trades, quotes, rejected) EXCEPT !.rejected = {}]
<1>1. PICK bar : bar = IF trades # <<>> THEN BarOf(q, trades, "trades") ELSE BarOf(q, quotes, "quote_fallback")
  OBVIOUS
<1>2. bar = IF trades # <<>> THEN BarOf(p, trades, "trades") ELSE BarOf(p, quotes, "quote_fallback")
  <2>1. p.window = q.window  BY DEF SameTerms
  <2>2. ASSUME NEW ticks, NEW source PROVE BarOf(p, ticks, source) = BarOf(q, ticks, source)
    BY <2>1, BarIsOfWindow
  <2> QED  BY <1>1, <2>2, Zenon
<1>3. PICK reasons : reasons = DegradedReasons(q, bar, quotes)  OBVIOUS
<1>4. ParityReasons(bar, p) = ParityReasons(bar, q)  BY DEF ParityReasons, SameTerms
<1>5. StaleQuoteRate(p, quotes) = StaleQuoteRate(q, quotes)  BY DEF StaleQuoteRate, Stale, SameTerms
<1>6. reasons = DegradedReasons(p, bar, quotes)  BY <1>3, <1>4, <1>5 DEF DegradedReasons, SameTerms
<1>7. BuiltReport(q, trades, quotes, rejected)
        = [status |-> IF reasons = {} THEN "accepted" ELSE "degraded", reasons |-> reasons,
           rejected |-> rejected, bar |-> bar]
  BY <1>1, <1>3 DEF BuiltReport
<1>8. BuiltReport(p, trades, quotes, {})
        = [status |-> IF reasons = {} THEN "accepted" ELSE "degraded", reasons |-> reasons,
           rejected |-> {}, bar |-> bar]
  BY <1>2, <1>6 DEF BuiltReport
<1> QED  BY <1>7, <1>8

(* The bar of a request with trades is of its trades alone. *)
LEMMA TradesBuildTheBar ==
  ASSUME NEW q, NEW p, SameTerms(p, q), NEW trades, trades # <<>>, NEW quotes, NEW others, NEW named, NEW rejected
  PROVE  BuiltReport(p, trades, others, named).bar = BuiltReport(q, trades, quotes, rejected).bar
<1>1. BuiltReport(p, trades, others, named).bar = BarOf(p, trades, "trades")  BY DEF BuiltReport
<1>2. BuiltReport(q, trades, quotes, rejected).bar = BarOf(q, trades, "trades")  BY DEF BuiltReport
<1>3. PICK source : source = "trades"  OBVIOUS
<1>4. p.window = q.window  BY DEF SameTerms
<1>5. BarOf(p, trades, source) = BarOf(q, trades, source)  BY <1>4, BarIsOfWindow
<1> QED  BY <1>1, <1>2, <1>3, <1>5

(* Fresher ticks build the same bar, and give no reason that the others do not. *)
LEMMA FresherBuilds ==
  ASSUME NEW q \in LiveBarBuildRequest, NEW p \in LiveBarBuildRequest, SameTerms(p, q),
         NEW trades \in Seq(MarketDataEvent), NEW quotes \in Seq(MarketDataEvent), ~(trades = <<>> /\ quotes = <<>>),
         NEW trades2, trades2 = Mapped(trades, Freshened), NEW quotes2, quotes2 = Mapped(quotes, Freshened),
         NEW rejected, NEW named
  PROVE  /\ BuiltReport(p, trades2, quotes2, named).bar = BuiltReport(q, trades, quotes, rejected).bar
         /\ BuiltReport(p, trades2, quotes2, named).reasons \subseteq BuiltReport(q, trades, quotes, rejected).reasons
<1>1. Freshened \in [MarketDataEvent -> MarketDataEvent]  BY FreshenedKeepsTheRest
<1>2. /\ trades2 \in Seq(MarketDataEvent) /\ Len(trades2) = Len(trades)
      /\ quotes2 \in Seq(MarketDataEvent) /\ Len(quotes2) = Len(quotes)
  BY <1>1, MappedIsLog
<1>3. trades2 = <<>> <=> trades = <<>>
  <2>1. \A s \in Seq(MarketDataEvent) : s = <<>> <=> Len(s) = 0  OBVIOUS
  <2> QED  BY <1>2, <2>1
<1>4. PICK bar : bar = IF trades # <<>> THEN BarOf(q, trades, "trades") ELSE BarOf(q, quotes, "quote_fallback")
  OBVIOUS
<1>5. bar = IF trades2 # <<>> THEN BarOf(p, trades2, "trades") ELSE BarOf(p, quotes2, "quote_fallback")
  <2>1. p.window = q.window  BY DEF SameTerms
  <2>2. CASE trades # <<>>
    <3>1. PICK source : source = "trades"  OBVIOUS
    <3>2. BarOf(p, trades2, source) = BarOf(q, trades, source)  BY <2>1, <2>2, BarOfFresher
    <3> QED  BY <1>3, <1>4, <2>2, <3>1, <3>2
  <2>3. CASE trades = <<>>
    <3>1. quotes # <<>>  BY <2>3
    <3>2. PICK source : source = "quote_fallback"  OBVIOUS
    <3>3. BarOf(p, quotes2, source) = BarOf(q, quotes, source)  BY <2>1, <3>1, BarOfFresher
    <3> QED  BY <1>3, <1>4, <2>3, <3>2, <3>3
  <2> QED  BY <2>2, <2>3
<1>6. /\ BuiltReport(q, trades, quotes, rejected).bar = bar
      /\ BuiltReport(q, trades, quotes, rejected).reasons = DegradedReasons(q, bar, quotes)
  BY <1>4 DEF BuiltReport
<1>7. /\ BuiltReport(p, trades2, quotes2, named).bar = bar
      /\ BuiltReport(p, trades2, quotes2, named).reasons = DegradedReasons(p, bar, quotes2)
  BY <1>5 DEF BuiltReport
<1>8. DegradedReasons(p, bar, quotes2) \subseteq DegradedReasons(q, bar, quotes)
  <2>1. \A n \in DOMAIN quotes2 : quotes2[n].age = 0
    <3>1. \A n \in DOMAIN quotes : quotes[n] \in MarketDataEvent  OBVIOUS
    <3> QED  BY <3>1, FreshenedKeepsTheRest DEF Mapped
  <2>2. StaleQuoteRate(p, quotes2) = 0  BY <1>2, <2>1, FreshQuotesRateZero
  <2>3. p.staleRestrictBps \in Nat  BY DEF LiveBarBuildRequest
  <2>4. ~(StaleQuoteRate(p, quotes2) > p.staleRestrictBps)  BY <2>2, <2>3
  <2>5. ParityReasons(bar, p) = ParityReasons(bar, q)  BY DEF ParityReasons, SameTerms
  <2>6. (p.delay > p.maxDelay) = (q.delay > q.maxDelay)  BY DEF SameTerms
  <2> QED  BY <2>4, <2>5, <2>6 DEF DegradedReasons
<1> QED  BY <1>6, <1>7, <1>8

(* The three parts of the property, of a request and what it was answered. *)
LEMMA KeptGivesTheSame ==
  ASSUME NEW q \in LiveBarBuildRequest, NEW r, r = BuildLiveBar(q), r.bar # NoBar,
         NEW p, p = [q EXCEPT !.updates = KeptUpdates(q, r.rejected)]
  PROVE  BuildLiveBar(p) = [r EXCEPT !.rejected = {}]
<1>1. q.updates \in Seq(MarketDataEvent)  BY DEF LiveBarBuildRequest
<1>2. PICK trades : trades = Admitted(q.updates, "trade")  OBVIOUS
<1>3. PICK quotes : quotes = Admitted(q.updates, "quote")  OBVIOUS
<1>4. PICK rejected : rejected = NamedRejected(q.updates)  OBVIOUS
<1>5. BarAdmitted(q, trades, quotes) /\ r = BuiltReport(q, trades, quotes, rejected)
  BY <1>2, <1>3, <1>4, BarAnswers
<1>6. r.rejected = rejected  BY <1>5 DEF BuiltReport
<1>7. PICK kept : kept = Picked(q.updates, DOMAIN q.updates \ rejected)  OBVIOUS
<1>8. p = [q EXCEPT !.updates = kept]  BY <1>6, <1>7 DEF KeptUpdates
<1>9. SameTerms(p, q) /\ p.updates = kept  BY <1>8, UpdatesAlone
<1>10. Admitted(kept, "trade") = trades /\ Admitted(kept, "quote") = quotes /\ NamedRejected(kept) = {}
  BY <1>1, <1>2, <1>3, <1>4, <1>7, KeptAdmits
<1>11. BarAdmitted(p, trades, quotes)  BY <1>5, <1>9 DEF BarAdmitted, SameTerms
<1>12. BuildLiveBar(p) = BuiltReport(p, trades, quotes, {})  BY <1>9, <1>10, <1>11, BarAnswers
<1>13. BuiltReport(p, trades, quotes, {}) = [BuiltReport(q, trades, quotes, rejected) EXCEPT !.rejected = {}]
  BY <1>9, TermsBuildTheSame
<1> QED  BY <1>5, <1>12, <1>13

(* The trades that were kept give the bar alone. *)
LEMMA TradesGiveTheBar ==
  ASSUME NEW q \in LiveBarBuildRequest, NEW r, r = BuildLiveBar(q), r.bar # NoBar, r.bar.source = "trades",
         NEW kept, kept = KeptUpdates(q, r.rejected),
         NEW p, SameTerms(p, q), p.updates = Picked(kept, {n \in DOMAIN kept : kept[n].kind = "trade"})
  PROVE  BuildLiveBar(p).bar = r.bar
<1>1. q.updates \in Seq(MarketDataEvent)  BY DEF LiveBarBuildRequest
<1>2. PICK trades : trades = Admitted(q.updates, "trade")  OBVIOUS
<1>3. PICK quotes : quotes = Admitted(q.updates, "quote")  OBVIOUS
<1>4. PICK rejected : rejected = NamedRejected(q.updates)  OBVIOUS
<1>5. BarAdmitted(q, trades, quotes) /\ r = BuiltReport(q, trades, quotes, rejected)
  BY <1>2, <1>3, <1>4, BarAnswers
<1>6. /\ r.rejected = rejected
      /\ r.bar = IF trades # <<>> THEN BarOf(q, trades, "trades") ELSE BarOf(q, quotes, "quote_fallback")
  BY <1>5 DEF BuiltReport
<1>7. trades # <<>>
  <2>1. BarOf(q, quotes, "quote_fallback").source = "quote_fallback"  BY DEF BarOf
  <2> QED  BY <1>6, <2>1
<1>8. kept = Picked(q.updates, DOMAIN q.updates \ NamedRejected(q.updates))  BY <1>4, <1>6 DEF KeptUpdates
<1>9. kept \in Seq(MarketDataEvent) /\ Picked(kept, PositionsOf(kept, OfKind("trade"))) = trades
  BY <1>1, <1>2, <1>8, KeptAdmits
<1>10. {n \in DOMAIN kept : kept[n].kind = "trade"} = PositionsOf(kept, OfKind("trade"))
  <2>1. \A n \in DOMAIN kept : kept[n] \in MarketDataEvent  BY <1>9
  <2> QED  BY <2>1 DEF PositionsOf, OfKind
<1>11. SameTerms(p, q) /\ p.updates = trades  BY <1>9, <1>10
<1>12. Admitted(trades, "trade") = trades /\ Admitted(trades, "quote") = <<>>
  BY <1>1, <1>2, TradesAdmitThemselves
<1>13. PICK none : none = <<>>  OBVIOUS
<1>14. BarAdmitted(p, trades, none)  BY <1>5, <1>7, <1>11 DEF BarAdmitted, SameTerms
<1>15. PICK named : named = NamedRejected(p.updates)  OBVIOUS
<1>16. BuildLiveBar(p) = BuiltReport(p, trades, none, named)
  <2>1. trades = Admitted(p.updates, "trade") /\ none = Admitted(p.updates, "quote")  BY <1>11, <1>12, <1>13
  <2> QED  BY <1>14, <1>15, <2>1, BarAnswers
<1>17. BuiltReport(p, trades, none, named).bar = BuiltReport(q, trades, quotes, rejected).bar
  BY <1>7, <1>11, TradesBuildTheBar
<1> QED  BY <1>5, <1>16, <1>17

(* Fresher updates give the same bar, for no more reasons. *)
LEMMA FresherCostsNothing ==
  ASSUME NEW q \in LiveBarBuildRequest, NEW r, r = BuildLiveBar(q), r.bar # NoBar,
         NEW p \in LiveBarBuildRequest, SameTerms(p, q),
         p.updates = [n \in DOMAIN q.updates |-> [q.updates[n] EXCEPT !.age = 0]]
  PROVE  BuildLiveBar(p).bar = r.bar /\ BuildLiveBar(p).reasons \subseteq r.reasons
<1>1. PICK updates : updates = q.updates  OBVIOUS
<1>2. updates \in Seq(MarketDataEvent)  BY <1>1 DEF LiveBarBuildRequest
<1>3. PICK fresh : fresh = [n \in DOMAIN updates |-> [updates[n] EXCEPT !.age = 0]]  OBVIOUS
<1>5. SameTerms(p, q) /\ p.updates = fresh  BY <1>1, <1>3
<1>6. PICK trades : trades = Admitted(updates, "trade")  OBVIOUS
<1>7. PICK quotes : quotes = Admitted(updates, "quote")  OBVIOUS
<1>8. PICK trades2 : trades2 = Mapped(trades, Freshened)  OBVIOUS
<1>9. PICK quotes2 : quotes2 = Mapped(quotes, Freshened)  OBVIOUS
<1>10. Admitted(fresh, "trade") = trades2 /\ Admitted(fresh, "quote") = quotes2
  BY <1>2, <1>3, <1>6, <1>7, <1>8, <1>9, FreshenedAdmits
<1>11. trades \in Seq(MarketDataEvent) /\ quotes \in Seq(MarketDataEvent)
  BY <1>2, <1>6, <1>7, PickedType DEF Admitted
<1>12. (trades2 = <<>> <=> trades = <<>>) /\ (quotes2 = <<>> <=> quotes = <<>>)
  <2>1. Freshened \in [MarketDataEvent -> MarketDataEvent]  BY FreshenedKeepsTheRest
  <2>2. /\ trades2 \in Seq(MarketDataEvent) /\ Len(trades2) = Len(trades)
        /\ quotes2 \in Seq(MarketDataEvent) /\ Len(quotes2) = Len(quotes)
    BY <1>8, <1>9, <1>11, <2>1, MappedIsLog
  <2>3. \A s \in Seq(MarketDataEvent) : s = <<>> <=> Len(s) = 0  OBVIOUS
  <2> QED  BY <1>11, <2>2, <2>3
<1>13. PICK rejected : rejected = NamedRejected(q.updates)  OBVIOUS
<1>14. PICK named : named = NamedRejected(p.updates)  OBVIOUS
<1>15. BarAdmitted(q, trades, quotes) /\ r = BuiltReport(q, trades, quotes, rejected)
  BY <1>1, <1>6, <1>7, <1>13, BarAnswers
<1>16. BarAdmitted(p, trades2, quotes2)  BY <1>5, <1>12, <1>15 DEF BarAdmitted, SameTerms
<1>17. BuildLiveBar(p) = BuiltReport(p, trades2, quotes2, named)
  BY <1>5, <1>10, <1>14, <1>16, BarAnswers
<1>19. ~(trades = <<>> /\ quotes = <<>>)  BY <1>15 DEF BarAdmitted
<1>20. /\ BuiltReport(p, trades2, quotes2, named).bar = BuiltReport(q, trades, quotes, rejected).bar
       /\ BuiltReport(p, trades2, quotes2, named).reasons \subseteq BuiltReport(q, trades, quotes, rejected).reasons
  BY <1>5, <1>8, <1>9, <1>11, <1>19, FresherBuilds
<1> QED  BY <1>15, <1>17, <1>20

(* No bar is moved by what its builder left out. *)
LEMMA AnsweredMovesNoBar == BarAnswered => RejectedUpdatesMoveNoBar
<1> SUFFICES ASSUME BarAnswered, liveBar # NotBuilt, liveBar.report.bar # NoBar PROVE RejectedUpdatesMoveNoBar
  BY DEF RejectedUpdatesMoveNoBar
<1>1. PICK q : q = liveBar.request  OBVIOUS
<1>2. PICK r : r = liveBar.report  OBVIOUS
<1>3. q \in LiveBarBuildRequest /\ r = BuildLiveBar(q) /\ r.bar # NoBar
  BY <1>1, <1>2, LiveBarsAssumption DEF BarAnswered
<1>4. PICK kept : kept = KeptUpdates(q, r.rejected)  OBVIOUS
<1>5. BuildLiveBar([q EXCEPT !.updates = kept]) = [r EXCEPT !.rejected = {}]  BY <1>3, <1>4, KeptGivesTheSame
<1>6. ASSUME r.bar.source = "trades"
      PROVE  BuildLiveBar([q EXCEPT !.updates = Picked(kept, {n \in DOMAIN kept : kept[n].kind = "trade"})]).bar = r.bar
  <2>1. PICK t : t = [q EXCEPT !.updates = Picked(kept, {n \in DOMAIN kept : kept[n].kind = "trade"})]  OBVIOUS
  <2>2. SameTerms(t, q) /\ t.updates = Picked(kept, {n \in DOMAIN kept : kept[n].kind = "trade"})
    BY <1>3, <2>1, UpdatesAlone
  <2>3. BuildLiveBar(t).bar = r.bar  BY <1>3, <1>4, <1>6, <2>2, TradesGiveTheBar
  <2> QED  BY <2>1, <2>3
<1>7. PICK p : p = [q EXCEPT !.updates = [n \in DOMAIN @ |-> [@[n] EXCEPT !.age = 0]]]  OBVIOUS
<1>8. BuildLiveBar(p).bar = r.bar /\ BuildLiveBar(p).reasons \subseteq r.reasons
  <2>1. PICK fresh : fresh = [n \in DOMAIN q.updates |-> [q.updates[n] EXCEPT !.age = 0]]  OBVIOUS
  <2>2. p = [q EXCEPT !.updates = fresh]  BY <1>3, <1>7, <2>1 DEF LiveBarBuildRequest
  <2>3. SameTerms(p, q) /\ p.updates = fresh  BY <1>3, <2>2, UpdatesAlone
  <2>4. q.updates \in Seq(MarketDataEvent)  BY <1>3 DEF LiveBarBuildRequest
  <2>5. fresh \in Seq(MarketDataEvent)  BY <2>1, <2>4, FreshenedAdmits
  <2>6. p \in LiveBarBuildRequest  BY <1>3, <2>2, <2>5 DEF LiveBarBuildRequest
  <2> QED  BY <1>3, <2>1, <2>3, <2>6, FresherCostsNothing
<1> QED  BY <1>1, <1>2, <1>4, <1>5, <1>6, <1>7, <1>8 DEF RejectedUpdatesMoveNoBar

----------------------------------------------------------------------------
(* Worse news is never answered more mildly, whatever the requests, readings,
   submissions and updates: the seven evaluators that answer them are monotone,
   and each answer is kept with what it was given to. *)
THEOREM DecisionsNeverRelax == DecisionsSpec => []WorseIsNeverMilder
<1>1. BreachesNeverRelax /\ DifferencesNeverRelax /\ WorseReportsNeverHelp /\ WorseReadingsNeverSoften
        /\ WeakerEvidenceNeverHelps /\ SurfacesNeverLookAhead /\ RejectedUpdatesMoveNoBar => WorseIsNeverMilder
  BY DEF WorseIsNeverMilder
<1> QED
  BY <1>1, DecisionsRunEach, BreachesStand, DifferencesStand, ReportsStand,
     EarlyAnsweredInit, EarlyAnsweredStep, AnsweredNeverSoftens,
     SurfaceAnsweredInit, SurfaceAnsweredStep, AnsweredNeverLooksAhead,
     SubmittedInit, SubmittedStep, SubmittedNeverHelps,
     BarAnsweredInit, BarAnsweredStep, AnsweredMovesNoBar, PTL DEF EarlySpec, FeatureSpec, SubmissionSpec, LiveBarsSpec

----------------------------------------------------------------------------
(* The elements of a set of instants, each once and in order. *)
Ordered(S, s) ==
  /\ s \in [1..Cardinality(S) -> S]
  /\ \A m, n \in 1..Cardinality(S) : m < n => s[m] < s[n]
  /\ \A b \in S : \E n \in 1..Cardinality(S) : s[n] = b

(* A finite set of instants is iterated in order: an instant has as many
   before it as its position says, so every position is taken, once. *)
LEMMA InOrderIsOrdered ==
  ASSUME NEW S \in SUBSET Int, IsFiniteSet(S)
  PROVE  Ordered(S, InOrder(S))
<1> DEFINE K == Cardinality(S)
           before(b) == {c \in S : c < b}
           rank == [b \in S |-> Cardinality(before(b))]
<1>1. K \in Nat  BY FS_CardinalityType
<1>2. \A b \in S : IsFiniteSet(before(b)) /\ Cardinality(before(b)) \in Nat /\ Cardinality(before(b)) < K
  <2> SUFFICES ASSUME NEW b \in S
               PROVE  IsFiniteSet(before(b)) /\ Cardinality(before(b)) \in Nat /\ Cardinality(before(b)) < K
    OBVIOUS
  <2>1. before(b) \subseteq S /\ b \notin before(b)  OBVIOUS
  <2> HIDE DEF before
  <2>2. IsFiniteSet(before(b)) /\ Cardinality(before(b)) <= K /\ (Cardinality(before(b)) = K => S = before(b))
    BY <2>1, FS_Subset
  <2>3. Cardinality(before(b)) \in Nat  BY <2>2, FS_CardinalityType
  <2> QED  BY <1>1, <2>1, <2>2, <2>3
<1>3. \A b, c \in S : b < c => rank[b] < rank[c]
  <2> SUFFICES ASSUME NEW b \in S, NEW c \in S, b < c PROVE rank[b] < rank[c]  OBVIOUS
  <2>1. before(b) \subseteq before(c) /\ b \in before(c) /\ b \notin before(b)
    <3>1. b \in Int /\ c \in Int /\ ~ (b < b)  OBVIOUS
    <3>2. \A x \in S : x < b => x < c
      <4> SUFFICES ASSUME NEW x \in S, x < b PROVE x < c  OBVIOUS
      <4>1. x \in Int  OBVIOUS
      <4> QED  BY <3>1, <4>1
    <3> QED  BY <3>1, <3>2
  <2>2. rank[b] = Cardinality(before(b)) /\ rank[c] = Cardinality(before(c))  OBVIOUS
  <2> HIDE DEF before, rank
  <2>3. Cardinality(before(b)) <= Cardinality(before(c)) /\ Cardinality(before(b)) # Cardinality(before(c))
    BY <1>2, <2>1, FS_Subset
  <2> QED  BY <1>2, <2>2, <2>3
<1>4. rank \in [S -> 0..(K - 1)]
  <2>1. \A b \in S : Cardinality(before(b)) \in 0..(K - 1)
    <3> HIDE DEF before, K
    <3> QED  BY <1>1, <1>2
  <2> HIDE DEF before, K
  <2> QED  BY <2>1
<1> HIDE DEF rank
<1>5. \A b, c \in S : rank[b] = rank[c] => b = c
  <2> SUFFICES ASSUME NEW b \in S, NEW c \in S, rank[b] = rank[c], b # c PROVE FALSE  OBVIOUS
  <2>1. b < c \/ c < b  OBVIOUS
  <2>2. rank[b] \in Int /\ rank[c] \in Int  BY <1>4
  <2> QED  BY <1>3, <2>1, <2>2
<1>6. rank \in Surjection(S, 0..(K - 1))
  <2>1. rank \in Injection(S, 0..(K - 1))  BY <1>4, <1>5 DEF Injection, IsInjective
  <2>2. 0 \in Int /\ K - 1 \in Int /\ (K = 0 => 0 > K - 1) /\ (K # 0 => ~(0 > K - 1) /\ (K - 1) - 0 + 1 = K)
    <3> HIDE DEF K
    <3> QED  BY <1>1
  <2>3. IsFiniteSet(0..(K - 1)) /\ Cardinality(0..(K - 1)) = K
    <3> HIDE DEF K
    <3>1. /\ IsFiniteSet(0..(K - 1))
          /\ Cardinality(0..(K - 1)) = IF 0 > K - 1 THEN 0 ELSE (K - 1) - 0 + 1
      BY <2>2, FS_Interval
    <3> QED  BY <1>1, <2>2, <3>1
  <2> QED  BY <2>1, <2>3, FS_Injection
<1>7. \A k \in 0..(K - 1) : \E b \in S : rank[b] = k  BY <1>6 DEF Surjection
<1> DEFINE s == InOrder(S)
<1>8. \A n \in 1..K : s[n] \in S /\ rank[s[n]] = n - 1
  <2> SUFFICES ASSUME NEW n \in 1..K PROVE s[n] \in S /\ rank[s[n]] = n - 1  OBVIOUS
  <2>1. n - 1 \in 0..(K - 1)  BY <1>1
  <2>2. \E b \in S : rank[b] = n - 1  BY <1>7, <2>1
  <2>3. \A b \in S : rank[b] = Cardinality({c \in S : c < b})  BY DEF rank
  <2>4. s[n] = CHOOSE b \in S : Cardinality({c \in S : c < b}) = n - 1  BY DEF InOrder
  <2>5. \E b \in S : Cardinality({c \in S : c < b}) = n - 1  BY <2>2, <2>3
  <2>6. PICK b : b = s[n]  OBVIOUS
  <2>7. b \in S /\ Cardinality({c \in S : c < b}) = n - 1  BY <2>4, <2>5, <2>6, Zenon
  <2> QED  BY <2>3, <2>6, <2>7, Zenon
<1>9. s \in [1..K -> S]
  <2> DEFINE nth(n) == CHOOSE b \in S : Cardinality({c \in S : c < b}) = n - 1
  <2>1. s = [n \in 1..K |-> nth(n)]  BY DEF InOrder
  <2> HIDE DEF nth, s, K
  <2>2. DOMAIN s = 1..K /\ s = [n \in 1..K |-> s[n]]  BY <2>1
  <2> QED  BY <1>8, <2>2
<1> HIDE DEF s, K
<1>10. ASSUME NEW m \in 1..K, NEW n \in 1..K, m < n PROVE s[m] < s[n]
  <2>1. s[m] \in S /\ s[n] \in S /\ rank[s[m]] = m - 1 /\ rank[s[n]] = n - 1  BY <1>8
  <2>2. s[m] < s[n] \/ s[m] = s[n] \/ s[n] < s[m]
    <3>1. s[m] \in Int /\ s[n] \in Int  BY <2>1
    <3> QED  BY <3>1
  <2>3. s[m] # s[n]  BY <1>1, <1>10, <2>1
  <2>4. ~ (s[n] < s[m])
    <3>1. s[n] < s[m] => n - 1 < m - 1  BY <1>3, <2>1
    <3> QED  BY <1>1, <1>10, <3>1
  <2> QED  BY <2>2, <2>3, <2>4
<1>11. ASSUME NEW b \in S PROVE \E n \in 1..K : s[n] = b
  <2>1. rank[b] \in 0..(K - 1)  BY <1>4
  <2>2. rank[b] + 1 \in 1..K /\ (rank[b] + 1) - 1 = rank[b]  BY <1>1, <2>1
  <2>3. s[rank[b] + 1] \in S /\ rank[s[rank[b] + 1]] = rank[b]  BY <1>8, <2>2
  <2>4. s[rank[b] + 1] = b  BY <1>5, <2>3
  <2> QED  BY <2>2, <2>4
<1>12. s = InOrder(S) /\ K = Cardinality(S)  BY DEF s, K
<1> QED  BY <1>9, <1>10, <1>11, <1>12 DEF Ordered

(* The least of a set of naturals. *)
LEMMA MinOfNaturals ==
  ASSUME NEW T \in SUBSET Nat, T # {}
  PROVE  Min(T) \in T /\ \A m \in T : Min(T) <= m
<1>1. \E n \in T : \A m \in T : n <= m  BY LeastNatural
<1>2. PICK k : k = Min(T)  OBVIOUS
<1>3. k = CHOOSE n \in T : \A m \in T : n <= m  BY <1>2 DEF Min
<1>4. k \in T /\ \A m \in T : k <= m  BY <1>1, <1>3, Zenon
<1> QED  BY <1>2, <1>4

(* What a request that may be compiled is made of. *)
Calendar(r) ==
  /\ r.entries \in SUBSET Entry /\ IsFiniteSet(r.entries)
  /\ r.windows \in SUBSET Window /\ IsFiniteSet(r.windows)
  /\ Compilable(r)

(* No boundary of the request falls between the two instants. *)
Neighbours(r, start, end) ==
  /\ start \in Boundaries(r) /\ end \in Boundaries(r) /\ start < end
  /\ \A b \in Boundaries(r) : b <= start \/ end <= b

(* Between two neighbouring boundaries nothing begins or ends: what covers the
   interval is what is in force at each of its instants. *)
LEMMA NothingChangesBetween ==
  ASSUME NEW r, Calendar(r), NEW start, NEW end, Neighbours(r, start, end), NEW t \in start..(end - 1)
  PROVE  /\ ActiveEntries(r, start, end) = SessionAt(r, t)
         /\ \A kind : ActiveWindows(r, kind, start, end) = InForce(r, t, kind)
         /\ ClosedGapSources(r, start) = EarlyCloseBefore(r, t)
<1>1. \A e \in r.entries : e.open \in Int /\ e.close \in Int /\ e.open \in Boundaries(r) /\ e.close \in Boundaries(r)
  BY DEF Calendar, Entry, Boundaries, EntryBoundaries
<1>2. \A w \in r.windows : w.from \in Int /\ w.to \in Int /\ w.from \in Boundaries(r) /\ w.to \in Boundaries(r)
  BY DEF Calendar, Window, Boundaries, EntryBoundaries
<1>3. start \in Int /\ end \in Int /\ t \in Int /\ start <= t /\ t < end
  <2>1. \A b \in Boundaries(r) : b \in Int
    BY <1>1, <1>2 DEF Boundaries, EntryBoundaries
  <2>2. start \in Int /\ end \in Int  BY <2>1 DEF Neighbours
  <2> QED  BY <2>2
<1>4. ASSUME NEW b \in Int, b \in Boundaries(r) PROVE (b <= start <=> b <= t) /\ (end <= b <=> t < b)
  <2>1. b <= start \/ end <= b  BY <1>4 DEF Neighbours
  <2> QED  BY <1>3, <2>1
<1>5. ActiveEntries(r, start, end) = SessionAt(r, t)
  <2>1. \A e \in r.entries : (e.open <= start /\ e.close >= end) <=> (e.open <= t /\ t < e.close)
    <3> SUFFICES ASSUME NEW e \in r.entries
                 PROVE  (e.open <= start /\ e.close >= end) <=> (e.open <= t /\ t < e.close)
      OBVIOUS
    <3>1. (e.open <= start <=> e.open <= t) /\ (end <= e.close <=> t < e.close)  BY <1>1, <1>4
    <3>2. e.close >= end <=> end <= e.close  BY <1>1, <1>3
    <3> QED  BY <3>1, <3>2
  <2> QED  BY <2>1 DEF ActiveEntries, SessionAt, Covers
<1>6. ASSUME NEW kind PROVE ActiveWindows(r, kind, start, end) = InForce(r, t, kind)
  <2>1. \A w \in r.windows : (w.from <= start /\ w.to >= end) <=> (w.from <= t /\ t < w.to)
    <3> SUFFICES ASSUME NEW w \in r.windows
                 PROVE  (w.from <= start /\ w.to >= end) <=> (w.from <= t /\ t < w.to)
      OBVIOUS
    <3>1. (w.from <= start <=> w.from <= t) /\ (end <= w.to <=> t < w.to)  BY <1>2, <1>4
    <3>2. w.to >= end <=> end <= w.to  BY <1>2, <1>3
    <3> QED  BY <3>1, <3>2
  <2> QED  BY <2>1 DEF ActiveWindows, InForce, Covers
<1>7. ClosedGapSources(r, start) = EarlyCloseBefore(r, t)
  <2>1. \A e \in r.entries : e.close <= start <=> e.close <= t  BY <1>1, <1>4
  <2>2. \A e, f \in r.entries : f.close <= e.close <=> ~ (e.close < f.close)  BY <1>1
  <2>3. \A e \in r.entries :
          (\A f \in r.entries : f.close <= start => f.close <= e.close)
          <=> ~ \E f \in r.entries : e.close < f.close /\ f.close <= t
    BY <2>1, <2>2
  <2> QED  BY <2>1, <2>3 DEF ClosedGapSources, EarlyCloseBefore
<1> QED  BY <1>5, <1>6, <1>7

(* One session at most holds at an instant: entries do not overlap. *)
LEMMA OneSessionAtOnce ==
  ASSUME NEW r, Calendar(r), NEW t \in Int, NEW e \in SessionAt(r, t), NEW f \in SessionAt(r, t)
  PROVE  e = f
<1>1. /\ e \in r.entries /\ e.open <= t /\ t < e.close /\ e.open \in Int /\ e.close \in Int
      /\ f \in r.entries /\ f.open <= t /\ t < f.close /\ f.open \in Int /\ f.close \in Int
  BY DEF SessionAt, Calendar, Entry
<1>2. e = f \/ e.close <= f.open \/ f.close <= e.open  BY <1>1 DEF Calendar, Compilable
<1> QED  BY <1>1, <1>2

(* A slice of an interval between two neighbouring boundaries is well formed. *)
SliceOf(r, start, end, x) ==
  /\ x \in Slice /\ x.start = start /\ x.end = end
  /\ \A t \in start..(end - 1) : AnswersFor(r, x, t)

(* A slice answers for each instant of its interval. *)
LEMMA SliceAnswers ==
  ASSUME NEW r, Calendar(r), NEW start, NEW end, Neighbours(r, start, end)
  PROVE  SliceOf(r, start, end, CompileSlice(r, start, end))
<1>1. start \in Int /\ end \in Int /\ start \in start..(end - 1)
  <2>1. \A b \in Boundaries(r) : b \in Int
    BY DEF Calendar, Entry, Window, Boundaries, EntryBoundaries
  <2>2. start \in Int /\ end \in Int /\ start < end  BY <2>1 DEF Neighbours
  <2> QED  BY <2>2
<1>2. PICK E : E = ActiveEntries(r, start, end)  OBVIOUS
<1>3. PICK W : W = [n \in DOMAIN Precedence |-> ActiveWindows(r, Precedence[n], start, end)]  OBVIOUS
<1>4. PICK G : G = ClosedGapSources(r, start)  OBVIOUS
<1>5. PICK session : session = IF E = {} THEN None ELSE CHOOSE e \in E : TRUE  OBVIOUS
<1>6. PICK active : active = {n \in DOMAIN Precedence : W[n] # {}}  OBVIOUS
<1>7. PICK m : m = Min(active)  OBVIOUS
<1>8. PICK x : x = CompileSlice(r, start, end)  OBVIOUS
<1>9. DOMAIN Precedence = 1..4 /\ Precedence[1] = "maintenance" /\ Precedence[2] = "reset"
       /\ Precedence[3] = "delivery" /\ Precedence[4] = "policy"
  BY DEF Precedence
<1>10. /\ E \in SUBSET Entry /\ G \in SUBSET Entry /\ \A n \in 1..4 : W[n] \in SUBSET Window
  BY <1>2, <1>3, <1>4, <1>9 DEF ActiveEntries, ActiveWindows, ClosedGapSources, Calendar
<1>11. session \in Entry \cup {None} /\ (E # {} => session \in E)  BY <1>5, <1>10
<1>12. active # {} => m \in active /\ \A n \in active : m <= n
  <2>1. active \in SUBSET Nat  BY <1>6, <1>9
  <2> QED  BY <1>7, <2>1, MinOfNaturals
<1>13. x = IF E # {} /\ session.kind = "holiday_closure"
           THEN [start |-> start, end |-> end, state |-> "holiday_closure", session |-> session, sources |-> E]
           ELSE IF active # {}
           THEN [start |-> start, end |-> end, state |-> Precedence[m], session |-> session, sources |-> E \cup W[m]]
           ELSE IF E # {}
           THEN [start |-> start, end |-> end, state |-> "tradeable", session |-> session, sources |-> E]
           ELSE [start |-> start, end |-> end, state |-> "closed", session |-> session, sources |-> G]
  <2>1. {n \in DOMAIN Precedence : ActiveWindows(r, Precedence[n], start, end) # {}} = active  BY <1>3, <1>6
  <2>2. active # {} => ActiveWindows(r, Precedence[m], start, end) = W[m]
    <3>1. active # {} => m \in DOMAIN Precedence  BY <1>6, <1>12
    <3> QED  BY <1>3, <3>1
  <2>3. x = IF E # {} /\ session.kind = "holiday_closure"
            THEN [start |-> start, end |-> end, state |-> "holiday_closure", session |-> session, sources |-> E]
            ELSE IF active # {}
            THEN [start |-> start, end |-> end, state |-> Precedence[m], session |-> session,
                  sources |-> E \cup ActiveWindows(r, Precedence[m], start, end)]
            ELSE IF E # {}
            THEN [start |-> start, end |-> end, state |-> "tradeable", session |-> session, sources |-> E]
            ELSE [start |-> start, end |-> end, state |-> "closed", session |-> session, sources |-> G]
    BY <1>2, <1>4, <1>5, <1>7, <1>8, <2>1, Zenon DEF CompileSlice
  <2> QED  BY <2>2, <2>3
<1>14. active # {} => m \in 1..4 /\ W[m] # {} /\ \A n \in 1..4 : n < m => W[n] = {}
  BY <1>6, <1>9, <1>12
<1>15. active = {} => \A n \in 1..4 : W[n] = {}  BY <1>6, <1>9
<1>16. x \in Slice /\ x.start = start /\ x.end = end /\ x.session = session
  <2>1. active # {} => Precedence[m] \in States  BY <1>9, <1>14 DEF States
  <2>2. {"holiday_closure", "tradeable", "closed"} \subseteq States  BY DEF States
  <2>3. /\ E \in SUBSET (Entry \cup Window) /\ G \in SUBSET (Entry \cup Window)
        /\ active # {} => E \cup W[m] \in SUBSET (Entry \cup Window)
    BY <1>10, <1>14
  <2> QED  BY <1>1, <1>11, <1>13, <2>1, <2>2, <2>3 DEF Slice
<1>17. (E # {} /\ session.kind = "holiday_closure") <=> \E e \in E : e.kind = "holiday_closure"
  <2>1. E = SessionAt(r, start)  BY <1>1, <1>2, NothingChangesBetween
  <2>2. \A e, f \in E : e = f  BY <1>1, <2>1, OneSessionAtOnce
  <2> QED  BY <1>11, <2>2
<1>18. ASSUME NEW t \in start..(end - 1) PROVE AnswersFor(r, x, t)
  <2>1. /\ E = SessionAt(r, t) /\ G = EarlyCloseBefore(r, t)
        /\ W[1] = InForce(r, t, "maintenance") /\ W[2] = InForce(r, t, "reset")
        /\ W[3] = InForce(r, t, "delivery") /\ W[4] = InForce(r, t, "policy")
    BY <1>2, <1>3, <1>4, <1>9, NothingChangesBetween
  <2>2. PICK state : state = StateAt(r, t)  OBVIOUS
  <2>3. PICK sources : sources = SourcesAt(r, t)  OBVIOUS
  <2>4. state = IF \E e \in E : e.kind = "holiday_closure" THEN "holiday_closure"
                ELSE IF W[1] # {} THEN "maintenance"
                ELSE IF W[2] # {} THEN "reset"
                ELSE IF W[3] # {} THEN "delivery"
                ELSE IF W[4] # {} THEN "policy"
                ELSE IF E # {} THEN "tradeable" ELSE "closed"
    BY <2>1, <2>2 DEF StateAt
  <2>5. sources = IF state = "closed" THEN G
                  ELSE IF state \in {"tradeable", "holiday_closure"} THEN E
                  ELSE E \cup InForce(r, t, state)
    BY <2>1, <2>2, <2>3 DEF SourcesAt
  <2>6. x.state = state /\ x.sources = sources
    <3>1. CASE \E e \in E : e.kind = "holiday_closure"
      BY <1>13, <1>17, <2>4, <2>5, <3>1
    <3>2. CASE ~ (\E e \in E : e.kind = "holiday_closure") /\ active # {}
      <4>1. x.state = Precedence[m] /\ x.sources = E \cup W[m]  BY <1>13, <1>17, <3>2
      <4>2. CASE m = 1
        <5>1. state = "maintenance" /\ sources = E \cup W[1]  BY <1>14, <2>1, <2>4, <2>5, <3>2, <4>2
        <5> QED  BY <1>9, <4>1, <4>2, <5>1
      <4>3. CASE m = 2
        <5>1. W[1] = {} /\ W[2] # {}  BY <1>14, <3>2, <4>3
        <5>2. state = "reset" /\ sources = E \cup W[2]  BY <2>1, <2>4, <2>5, <3>2, <5>1
        <5> QED  BY <1>9, <4>1, <4>3, <5>2
      <4>4. CASE m = 3
        <5>1. W[1] = {} /\ W[2] = {} /\ W[3] # {}  BY <1>14, <3>2, <4>4
        <5>2. state = "delivery" /\ sources = E \cup W[3]  BY <2>1, <2>4, <2>5, <3>2, <5>1
        <5> QED  BY <1>9, <4>1, <4>4, <5>2
      <4>5. CASE m = 4
        <5>1. W[1] = {} /\ W[2] = {} /\ W[3] = {} /\ W[4] # {}  BY <1>14, <3>2, <4>5
        <5>2. state = "policy" /\ sources = E \cup W[4]  BY <2>1, <2>4, <2>5, <3>2, <5>1
        <5> QED  BY <1>9, <4>1, <4>5, <5>2
      <4> QED  BY <1>14, <3>2, <4>2, <4>3, <4>4, <4>5
    <3>3. CASE ~ (\E e \in E : e.kind = "holiday_closure") /\ active = {}
      <4>1. W[1] = {} /\ W[2] = {} /\ W[3] = {} /\ W[4] = {}  BY <1>15, <3>3
      <4>2. CASE E # {}  BY <1>13, <1>17, <2>4, <2>5, <3>3, <4>1, <4>2
      <4>3. CASE E = {}  BY <1>13, <2>4, <2>5, <3>3, <4>1, <4>3
      <4> QED  BY <4>2, <4>3
    <3> QED  BY <3>1, <3>2, <3>3
  <2> QED  BY <1>5, <1>16, <2>1, <2>2, <2>3, <2>6 DEF AnswersFor
<1> QED  BY <1>8, <1>16, <1>18 DEF SliceOf

----------------------------------------------------------------------------
(* What merging keeps up: the slices so far partition the range so far, differ
   from their neighbours, and answer for their instants. *)
Schedules(r, a, from, to) ==
  /\ a \in Seq(Slice) /\ PartitionTheRange(a, from, to) /\ AreMaximal(a)
  /\ \A i \in DOMAIN a : \A t \in a[i].start..(a[i].end - 1) : AnswersFor(r, a[i], t)
  /\ \A t \in from..(to - 1) : \E i \in DOMAIN a : a[i].start <= t /\ t < a[i].end

(* A first slice is a schedule of its interval. *)
LEMMA FirstSlice ==
  ASSUME NEW r, NEW from, NEW to, NEW x, SliceOf(r, from, to, x), from < to
  PROVE  Schedules(r, MergeInto(<<>>, x), from, to)
<1>1. PICK b : b = MergeInto(<<>>, x)  OBVIOUS
<1>2. b = Append(<<>>, x)  BY <1>1 DEF MergeInto
<1>3. x \in Slice /\ x.start = from /\ x.end = to  BY DEF SliceOf
<1>4. b \in Seq(Slice) /\ Len(b) = 1 /\ DOMAIN b = {1} /\ b[1] = x /\ b # <<>>  BY <1>2, <1>3
<1>5. PartitionTheRange(b, from, to)  BY <1>3, <1>4 DEF PartitionTheRange, Last
<1>6. AreMaximal(b)  BY <1>4 DEF AreMaximal
<1>7. \A t \in from..(to - 1) : from <= t /\ t < to
  <2>1. from \in Int /\ to \in Int  BY <1>3 DEF Slice
  <2> QED  BY <2>1
<1> QED  BY <1>1, <1>3, <1>4, <1>5, <1>6, <1>7 DEF Schedules, SliceOf

(* The next slice either lengthens the last one or is one more. *)
LEMMA NextSlice ==
  ASSUME NEW r, NEW a, NEW from, NEW to, NEW end, NEW x,
         Schedules(r, a, from, to), SliceOf(r, to, end, x), to < end
  PROVE  Schedules(r, MergeInto(a, x), from, end)
<1>1. PICK b : b = MergeInto(a, x)  OBVIOUS
<1>2. PICK n : n = Len(a)  OBVIOUS
<1>3. /\ a \in Seq(Slice) /\ n \in Nat /\ n # 0 /\ DOMAIN a = 1..n /\ n \in 1..n /\ a # <<>>
      /\ \A i \in 1..n : a[i] \in Slice /\ a[i].start < a[i].end
      /\ a[1].start = from /\ a[n].end = to
      /\ \A i \in 1..(n - 1) : a[i].end = a[i + 1].start /\ ~SameTopology(a[i], a[i + 1])
  BY <1>2 DEF Schedules, PartitionTheRange, AreMaximal, Last
<1>4. x \in Slice /\ x.start = to /\ x.end = end /\ \A t \in to..(end - 1) : AnswersFor(r, x, t)
  BY DEF SliceOf
<1>5. from \in Int /\ to \in Int /\ end \in Int /\ \A i \in 1..n : a[i].start \in Int /\ a[i].end \in Int
  <2>1. 1 \in 1..n  BY <1>3
  <2> QED  BY <1>3, <1>4, <2>1 DEF Slice
<1>6. /\ \A i \in 1..n : \A t \in a[i].start..(a[i].end - 1) : AnswersFor(r, a[i], t)
      /\ \A t \in from..(to - 1) : \E i \in 1..n : a[i].start <= t /\ t < a[i].end
  BY <1>3 DEF Schedules
<1>7. CASE SameTopology(a[n], x)
  <2>1. b = [a EXCEPT ![n] = [@ EXCEPT !.end = end]]  BY <1>1, <1>2, <1>3, <1>4, <1>7 DEF MergeInto, Last
  <2>2. PICK y : y = [a[n] EXCEPT !.end = end]  OBVIOUS
  <2>3. /\ y \in Slice /\ y.start = a[n].start /\ y.end = end
        /\ y.state = a[n].state /\ y.session = a[n].session /\ y.sources = a[n].sources
    <3>1. a[n] \in Slice  BY <1>3
    <3> QED  BY <1>5, <2>2, <3>1 DEF Slice
  <2>4. /\ b \in Seq(Slice) /\ Len(b) = n /\ DOMAIN b = 1..n /\ b # <<>> /\ b[n] = y
        /\ \A i \in 1..n : i # n => b[i] = a[i]
    <3>1. b = [a EXCEPT ![n] = y]  BY <2>1, <2>2
    <3>2. y \in Slice  BY <2>3
    <3>3. b \in Seq(Slice) /\ Len(b) = n  BY <1>2, <1>3, <3>1, <3>2
    <3>4. DOMAIN b = 1..n /\ b[n] = y /\ \A i \in 1..n : i # n => b[i] = a[i]  BY <1>3, <3>1
    <3>5. b # <<>>  BY <1>3, <3>3
    <3> QED  BY <3>3, <3>4, <3>5
  <2>5. \A i \in 1..n : b[i].start = a[i].start  BY <2>3, <2>4
  <2>6. \A i \in 1..(n - 1) : b[i].end = a[i].end /\ i \in 1..n /\ i + 1 \in 1..n  BY <1>3, <2>4
  <2>7. a[n].start < end  BY <1>3, <1>5
  <2>8. PartitionTheRange(b, from, end)
    <3>1. \A i \in 1..n : b[i].start < b[i].end  BY <1>3, <2>3, <2>4, <2>7
    <3>2. b[1].start = from  BY <1>3, <2>5
    <3>3. \A i \in 1..(n - 1) : b[i].end = b[i + 1].start  BY <1>3, <2>5, <2>6
    <3> QED  BY <2>3, <2>4, <3>1, <3>2, <3>3 DEF PartitionTheRange, Last
  <2>9. AreMaximal(b)
    <3>1. \A i \in 1..n : b[i].state = a[i].state /\ b[i].session = a[i].session /\ b[i].sources = a[i].sources
      BY <2>3, <2>4
    <3>2. \A i \in 1..(n - 1) : ~SameTopology(b[i], b[i + 1])  BY <1>3, <2>6, <3>1 DEF SameTopology
    <3> QED  BY <2>4, <3>2 DEF AreMaximal
  <2>10. ASSUME NEW i \in 1..n, NEW t \in b[i].start..(b[i].end - 1) PROVE AnswersFor(r, b[i], t)
    <3>1. CASE i # n
      <4>1. b[i] = a[i]  BY <2>4, <3>1
      <4> QED  BY <1>6, <2>10, <4>1
    <3>2. CASE i = n
      <4>1. t \in a[n].start..(end - 1)  BY <2>3, <2>4, <2>10, <3>2
      <4>2. CASE t < to
        <5>1. t \in a[n].start..(a[n].end - 1)  BY <1>3, <1>5, <4>1, <4>2
        <5>2. AnswersFor(r, a[n], t)  BY <1>3, <1>6, <5>1
        <5> QED  BY <2>3, <2>4, <3>2, <5>2 DEF AnswersFor
      <4>3. CASE to <= t
        <5>1. t \in to..(end - 1)  BY <1>5, <1>3, <4>1, <4>3
        <5>2. AnswersFor(r, x, t)  BY <1>4, <5>1
        <5> QED  BY <1>7, <2>3, <2>4, <3>2, <5>2 DEF AnswersFor, SameTopology
      <4>4. t < to \/ to <= t  BY <1>3, <1>5, <4>1
      <4> QED  BY <4>2, <4>3, <4>4
    <3> QED  BY <3>1, <3>2
  <2>11. ASSUME NEW t \in from..(end - 1) PROVE \E i \in 1..n : b[i].start <= t /\ t < b[i].end
    <3>1. CASE t < to
      <4>1. t \in from..(to - 1)  BY <1>5, <3>1
      <4>2. PICK i \in 1..n : a[i].start <= t /\ t < a[i].end  BY <1>6, <4>1
      <4>3. CASE i # n  BY <2>4, <4>2, <4>3
      <4>4. CASE i = n
        <5>1. b[n].start <= t /\ t < b[n].end  BY <1>5, <2>3, <2>4, <4>2, <4>4
        <5> QED  BY <1>3, <5>1
      <4> QED  BY <4>3, <4>4
    <3>2. CASE to <= t
      <4>1. b[n].start <= t  BY <1>3, <1>5, <2>3, <2>4, <3>2
      <4>2. t < b[n].end  BY <1>5, <2>3, <2>4
      <4> QED  BY <1>3, <4>1, <4>2
    <3>3. t < to \/ to <= t  BY <1>5
    <3> QED  BY <3>1, <3>2, <3>3
  <2> QED  BY <1>1, <2>4, <2>8, <2>9, <2>10, <2>11 DEF Schedules
<1>8. CASE ~SameTopology(a[n], x)
  <2>1. b = Append(a, x)  BY <1>1, <1>2, <1>3, <1>8 DEF MergeInto, Last
  <2>2. /\ b \in Seq(Slice) /\ Len(b) = n + 1 /\ DOMAIN b = 1..(n + 1) /\ b # <<>> /\ b[n + 1] = x
        /\ \A i \in 1..n : b[i] = a[i]
    BY <1>2, <1>3, <1>4, <2>1
  <2>3. 1..(n + 1) = (1..n) \cup {n + 1} /\ 1..((n + 1) - 1) = (1..(n - 1)) \cup {n}  BY <1>3
  <2>4. PartitionTheRange(b, from, end)
    <3>1. \A i \in 1..(n + 1) : b[i].start < b[i].end  BY <1>3, <1>4, <2>2, <2>3
    <3>2. b[1].start = from
      <4>1. 1 \in 1..n  BY <1>3
      <4> QED  BY <1>3, <2>2, <4>1
    <3>3. \A i \in 1..((n + 1) - 1) : b[i].end = b[i + 1].start
      <4>1. \A i \in 1..(n - 1) : i \in 1..n /\ i + 1 \in 1..n  BY <1>3
      <4> QED  BY <1>3, <1>4, <2>2, <2>3, <4>1
    <3> QED  BY <1>4, <2>2, <3>1, <3>2, <3>3 DEF PartitionTheRange, Last
  <2>5. AreMaximal(b)
    <3>1. \A i \in 1..(n - 1) : i \in 1..n /\ i + 1 \in 1..n  BY <1>3
    <3>2. \A i \in 1..((n + 1) - 1) : ~SameTopology(b[i], b[i + 1])  BY <1>3, <1>8, <2>2, <2>3, <3>1
    <3> QED  BY <2>2, <3>2 DEF AreMaximal
  <2>6. ASSUME NEW i \in 1..(n + 1), NEW t \in b[i].start..(b[i].end - 1) PROVE AnswersFor(r, b[i], t)
    <3>1. CASE i \in 1..n
      <4>1. b[i] = a[i]  BY <2>2, <3>1
      <4> QED  BY <1>6, <2>6, <3>1, <4>1
    <3>2. CASE i = n + 1
      <4>1. b[i] = x  BY <2>2, <3>2
      <4> QED  BY <1>4, <2>6, <4>1
    <3> QED  BY <2>3, <3>1, <3>2
  <2>7. ASSUME NEW t \in from..(end - 1) PROVE \E i \in 1..(n + 1) : b[i].start <= t /\ t < b[i].end
    <3>1. CASE t < to
      <4>1. t \in from..(to - 1)  BY <1>5, <3>1
      <4>2. PICK i \in 1..n : a[i].start <= t /\ t < a[i].end  BY <1>6, <4>1
      <4> QED  BY <2>2, <2>3, <4>2
    <3>2. CASE to <= t
      <4>1. b[n + 1].start <= t /\ t < b[n + 1].end  BY <1>4, <1>5, <2>2, <3>2
      <4> QED  BY <2>3, <4>1
    <3>3. t < to \/ to <= t  BY <1>5
    <3> QED  BY <3>1, <3>2, <3>3
  <2> QED  BY <1>1, <2>2, <2>4, <2>5, <2>6, <2>7 DEF Schedules
<1> QED  BY <1>7, <1>8

(* The recursive function is defined: one for n slices extends to n + 1. *)
LEMMA MergedUnfolds ==
  ASSUME NEW S, NEW s \in Seq(S)
  PROVE  /\ MergedUpTo(s)[0] = <<>>
         /\ \A n \in 1..Len(s) : MergedUpTo(s)[n] = MergeInto(MergedUpTo(s)[n - 1], s[n])
<1> DEFINE body(f, n) == IF n = 0 THEN <<>> ELSE MergeInto(f[n - 1], s[n])
           upTo(f, N) == f = [n \in 0..N |-> body(f, n)]
           T == {N \in 0..Len(s) : \E f : upTo(f, N)}
<1>0. Len(s) \in Nat  OBVIOUS
<1>1. 0 \in T
  <2> DEFINE g == [n \in 0..0 |-> <<>>]
  <2>1. upTo(g, 0)  OBVIOUS
  <2> HIDE DEF g, upTo
  <2> QED  BY <1>0, <2>1
<1>2. ASSUME NEW N \in 0..Len(s), N # Len(s), N \in T PROVE N + 1 \in T
  <2>1. PICK f : upTo(f, N)  BY <1>2
  <2> DEFINE g == [n \in 0..(N + 1) |-> body(f, n)]
  <2>2. \A n \in 0..N : g[n] = f[n]
    <3>1. \A n \in 0..N : f[n] = body(f, n)
      <4> HIDE DEF body
      <4> QED  BY <2>1
    <3>2. \A n \in 0..N : g[n] = body(f, n)
      <4> HIDE DEF body
      <4> QED  OBVIOUS
    <3> HIDE DEF g, body
    <3> QED  BY <3>1, <3>2
  <2>3. \A n \in 0..(N + 1) : body(g, n) = body(f, n)
    <3> SUFFICES ASSUME NEW n \in 0..(N + 1) PROVE body(g, n) = body(f, n)  OBVIOUS
    <3>1. CASE n = 0  BY <3>1
    <3>2. CASE n # 0
      <4>1. n - 1 \in 0..N  BY <3>2
      <4>2. g[n - 1] = f[n - 1]  BY <2>2, <4>1
      <4> HIDE DEF g
      <4> QED  BY <3>2, <4>2
    <3> QED  BY <3>1, <3>2
  <2>4. upTo(g, N + 1)
    <3>1. g = [n \in 0..(N + 1) |-> body(f, n)]  OBVIOUS
    <3>2. [n \in 0..(N + 1) |-> body(f, n)] = [n \in 0..(N + 1) |-> body(g, n)]
      <4> HIDE DEF g, body
      <4> QED  BY <2>3
    <3> HIDE DEF g, body
    <3> QED  BY <3>1, <3>2
  <2>5. N + 1 \in 0..Len(s)  BY <1>0, <1>2
  <2> HIDE DEF g, upTo
  <2> QED  BY <2>4, <2>5
<1>3. 0..Len(s) \subseteq T
  <2> HIDE DEF T
  <2> QED  BY <1>0, <1>1, <1>2, Induction
<1>4. \E f : upTo(f, Len(s))  BY <1>0, <1>3
<1>5. MergedUpTo(s) = CHOOSE f : upTo(f, Len(s))  BY DEF MergedUpTo
<1>6. upTo(MergedUpTo(s), Len(s))
  <2> HIDE DEF upTo
  <2> QED  BY <1>4, <1>5
<1>7. PICK f : f = MergedUpTo(s)  OBVIOUS
<1>8. f = [n \in 0..Len(s) |-> body(f, n)]  BY <1>6, <1>7
<1>9. \A n \in 0..Len(s) : f[n] = body(f, n)
  <2> HIDE DEF body
  <2> QED  BY <1>8
<1>10. 0 \in 0..Len(s) /\ \A n \in 1..Len(s) : n \in 0..Len(s) /\ n # 0  BY <1>0
<1>11. f[0] = <<>> /\ \A n \in 1..Len(s) : f[n] = MergeInto(f[n - 1], s[n])  BY <1>9, <1>10
<1> QED  BY <1>7, <1>11

(* The boundaries of a request, in order. *)
LEMMA BoundariesInOrder ==
  ASSUME NEW r, Calendar(r)
  PROVE  /\ Boundaries(r) \in SUBSET Int /\ IsFiniteSet(Boundaries(r))
         /\ Cardinality(Boundaries(r)) \in Nat /\ Cardinality(Boundaries(r)) > 1
         /\ Ordered(Boundaries(r), InOrder(Boundaries(r)))
<1> DEFINE Opens == {e.open : e \in r.entries}  Closes == {e.close : e \in r.entries}
           Froms == {w.from : w \in r.windows}  Tos == {w.to : w \in r.windows}
<1>1. IsFiniteSet(r.entries) /\ IsFiniteSet(r.windows)  BY DEF Calendar
<1>2. IsFiniteSet(Opens)
  <2> DEFINE f == [e \in r.entries |-> e.open]
  <2>1. f \in Surjection(r.entries, Opens)  BY DEF Surjection
  <2> HIDE DEF f, Opens
  <2> QED  BY <1>1, <2>1, FS_Surjection
<1>3. IsFiniteSet(Closes)
  <2> DEFINE f == [e \in r.entries |-> e.close]
  <2>1. f \in Surjection(r.entries, Closes)  BY DEF Surjection
  <2> HIDE DEF f, Closes
  <2> QED  BY <1>1, <2>1, FS_Surjection
<1>4. IsFiniteSet(Froms)
  <2> DEFINE f == [w \in r.windows |-> w.from]
  <2>1. f \in Surjection(r.windows, Froms)  BY DEF Surjection
  <2> HIDE DEF f, Froms
  <2> QED  BY <1>1, <2>1, FS_Surjection
<1>5. IsFiniteSet(Tos)
  <2> DEFINE f == [w \in r.windows |-> w.to]
  <2>1. f \in Surjection(r.windows, Tos)  BY DEF Surjection
  <2> HIDE DEF f, Tos
  <2> QED  BY <1>1, <2>1, FS_Surjection
<1>6. PICK B : B = Boundaries(r)  OBVIOUS
<1>7. B = ((Opens \cup Closes) \cup Froms) \cup Tos  BY <1>6 DEF Boundaries, EntryBoundaries
<1>8. B \in SUBSET Int  BY <1>7 DEF Calendar, Entry, Window
<1>9. PICK e \in r.entries : e.open < e.close  BY DEF Calendar, Compilable
<1>10. e.open \in B /\ e.close \in B /\ e.open # e.close
  <2>1. e.open \in Int /\ e.close \in Int  BY DEF Calendar, Entry
  <2> QED  BY <1>7, <1>9, <2>1
<1> HIDE DEF Opens, Closes, Froms, Tos
<1>11. IsFiniteSet(B)
  <2>1. IsFiniteSet(Opens \cup Closes)  BY <1>2, <1>3, FS_Union
  <2>2. IsFiniteSet((Opens \cup Closes) \cup Froms)  BY <1>4, <2>1, FS_Union
  <2> QED  BY <1>5, <1>7, <2>2, FS_Union
<1>12. Cardinality(B) \in Nat  BY <1>11, FS_CardinalityType
<1>13. Cardinality(B) > 1
  <2>1. Cardinality(B) # 0  BY <1>10, <1>11, FS_EmptySet
  <2>2. Cardinality(B) # 1
    <3> SUFFICES ASSUME Cardinality(B) = 1 PROVE FALSE  OBVIOUS
    <3>1. \E x : B = {x}  BY <1>11, FS_Singleton
    <3> QED  BY <1>10, <3>1
  <2> QED  BY <1>12, <2>1, <2>2
<1>14. Ordered(B, InOrder(B))  BY <1>8, <1>11, InOrderIsOrdered
<1> QED  BY <1>6, <1>8, <1>11, <1>12, <1>13, <1>14

(* The first and the last of the instants in order. *)
LEMMA EndsOfTheRange ==
  ASSUME NEW S \in SUBSET Int, NEW s, Ordered(S, s), Cardinality(S) \in Nat, Cardinality(S) > 1
  PROVE  Min(S) = s[1] /\ Max(S) = s[Cardinality(S)]
<1>1. PICK K : K = Cardinality(S)  OBVIOUS
<1>2. K \in Nat /\ K > 1 /\ 1 \in 1..K /\ K \in 1..K  BY <1>1
<1>3. \A n \in 1..K : s[n] \in Int /\ s[n] \in S  BY <1>1 DEF Ordered
<1>4. \A n \in 1..K : s[1] <= s[n] /\ s[n] <= s[K]
  <2> SUFFICES ASSUME NEW n \in 1..K PROVE s[1] <= s[n] /\ s[n] <= s[K]  OBVIOUS
  <2>1. (1 = n \/ 1 < n) /\ (n = K \/ n < K)  BY <1>2
  <2>2. (1 < n => s[1] < s[n]) /\ (n < K => s[n] < s[K])  BY <1>1, <1>2 DEF Ordered
  <2> QED  BY <1>2, <1>3, <2>1, <2>2
<1>5. \A b \in S : b \in Int /\ s[1] <= b /\ b <= s[K]
  <2> SUFFICES ASSUME NEW b \in S PROVE s[1] <= b /\ b <= s[K]  OBVIOUS
  <2>1. PICK n \in 1..K : s[n] = b  BY <1>1 DEF Ordered
  <2> QED  BY <1>4, <2>1
<1>6. Min(S) = s[1]
  <2>1. PICK k : k = Min(S)  OBVIOUS
  <2>2. k = CHOOSE x \in S : \A y \in S : x <= y  BY <2>1 DEF Min
  <2>3. s[1] \in S /\ \A y \in S : s[1] <= y  BY <1>2, <1>3, <1>5
  <2>4. k \in S /\ \A y \in S : k <= y  BY <2>2, <2>3, Zenon
  <2>5. k \in Int /\ s[1] \in Int /\ k <= s[1] /\ s[1] <= k  BY <1>2, <1>3, <2>3, <2>4
  <2> QED  BY <2>1, <2>5
<1>7. Max(S) = s[K]
  <2>1. PICK k : k = Max(S)  OBVIOUS
  <2>2. k = CHOOSE x \in S : \A y \in S : x >= y  BY <2>1 DEF Max
  <2>3. s[K] \in S /\ \A y \in S : s[K] >= y  BY <1>2, <1>3, <1>5
  <2>4. k \in S /\ \A y \in S : k >= y  BY <2>2, <2>3, Zenon
  <2>5. k \in Int /\ s[K] \in Int /\ k >= s[K] /\ s[K] >= k  BY <1>2, <1>3, <2>3, <2>4
  <2> QED  BY <2>1, <2>5
<1> QED  BY <1>1, <1>6, <1>7

(* The raw slices run from each boundary to the next. *)
LEMMA RawSlicesAnswer ==
  ASSUME NEW r, Calendar(r), NEW K, K = Cardinality(Boundaries(r)), NEW bounds, bounds = InOrder(Boundaries(r))
  PROVE  /\ RawSlices(r) \in Seq(Slice) /\ Len(RawSlices(r)) = K - 1
         /\ \A i \in 1..(K - 1) : /\ SliceOf(r, bounds[i], bounds[i + 1], RawSlices(r)[i])
                                  /\ bounds[i] < bounds[i + 1]
<1>1. PICK B : B = Boundaries(r)  OBVIOUS
<1>2. B \in SUBSET Int /\ K \in Nat /\ K > 1 /\ Ordered(B, bounds) /\ K = Cardinality(B)
  BY <1>1, BoundariesInOrder
<1>3. bounds \in [1..K -> B]  BY <1>2 DEF Ordered
<1>4. bounds \in Seq(B) /\ Len(bounds) = K  BY <1>2, <1>3
<1>5. PICK raw : raw = RawSlices(r)  OBVIOUS
<1>6. raw = [i \in 1..(K - 1) |-> CompileSlice(r, bounds[i], bounds[i + 1])]
  BY <1>4, <1>5, Zenon DEF RawSlices
<1>7. ASSUME NEW i \in 1..(K - 1)
      PROVE  SliceOf(r, bounds[i], bounds[i + 1], raw[i]) /\ bounds[i] < bounds[i + 1]
  <2>1. i \in 1..K /\ i + 1 \in 1..K /\ i < i + 1  BY <1>2
  <2>2. bounds[i] \in B /\ bounds[i + 1] \in B /\ bounds[i] < bounds[i + 1]  BY <1>2, <1>3, <2>1 DEF Ordered
  <2>3. ASSUME NEW b \in B PROVE b <= bounds[i] \/ bounds[i + 1] <= b
    <3>1. PICK n \in 1..K : bounds[n] = b  BY <1>2 DEF Ordered
    <3>2. n < i \/ n = i \/ n = i + 1 \/ i + 1 < n  BY <1>2, <2>1
    <3>3. (n < i => bounds[n] < bounds[i]) /\ (i + 1 < n => bounds[i + 1] < bounds[n])  BY <1>2, <2>1 DEF Ordered
    <3>4. bounds[i] \in Int /\ bounds[i + 1] \in Int /\ b \in Int  BY <1>2, <2>2
    <3> QED  BY <3>1, <3>2, <3>3, <3>4
  <2>4. Neighbours(r, bounds[i], bounds[i + 1])  BY <1>1, <2>2, <2>3 DEF Neighbours
  <2>5. raw[i] = CompileSlice(r, bounds[i], bounds[i + 1])  BY <1>6
  <2> QED  BY <2>2, <2>4, <2>5, SliceAnswers
<1>8. raw \in [1..(K - 1) -> Slice]
  <2>1. \A i \in 1..(K - 1) : raw[i] \in Slice  BY <1>7 DEF SliceOf
  <2> QED  BY <1>6, <2>1
<1>9. raw \in Seq(Slice) /\ Len(raw) = K - 1
  <2>1. K - 1 \in Nat  BY <1>2
  <2> QED  BY <1>8, <2>1
<1> QED  BY <1>5, <1>7, <1>9

(* Whatever calendar may be compiled, its slices are a schedule of the whole
   range: by induction on the raw slices that are merged. *)
LEMMA CompiledIsSchedule ==
  ASSUME NEW r, Calendar(r)
  PROVE  Schedules(r, CompileSchedule(r), Min(Boundaries(r)), Max(Boundaries(r)))
<1>1. PICK B : B = Boundaries(r)  OBVIOUS
<1>2. PICK K : K = Cardinality(B)  OBVIOUS
<1>3. PICK bounds : bounds = InOrder(B)  OBVIOUS
<1>4. PICK raw : raw = RawSlices(r)  OBVIOUS
<1>5. PICK merged : merged = MergedUpTo(raw)  OBVIOUS
<1>6. B \in SUBSET Int /\ K \in Nat /\ K > 1 /\ Ordered(B, bounds)  BY <1>1, <1>2, <1>3, BoundariesInOrder
<1>7. raw \in Seq(Slice) /\ Len(raw) = K - 1
  BY <1>1, <1>2, <1>3, <1>4, RawSlicesAnswer
<1>8. \A i \in 1..(K - 1) : SliceOf(r, bounds[i], bounds[i + 1], raw[i]) /\ bounds[i] < bounds[i + 1]
  BY <1>1, <1>2, <1>3, <1>4, RawSlicesAnswer
<1>9. merged[0] = <<>> /\ \A n \in 1..(K - 1) : merged[n] = MergeInto(merged[n - 1], raw[n])
  BY <1>5, <1>7, MergedUnfolds
<1> DEFINE T == {n \in 0..(K - 1) : n # 0 => Schedules(r, merged[n], bounds[1], bounds[n + 1])}
<1>10. 0 \in T  BY <1>6
<1>11. ASSUME NEW n \in 0..(K - 1), n # K - 1, n \in T PROVE n + 1 \in T
  <2>1. n \in Nat /\ n + 1 \in 1..(K - 1) /\ n + 1 \in 0..(K - 1) /\ (n + 1) - 1 = n /\ (n + 1) + 1 = n + 2
    BY <1>6, <1>11
  <2>2. merged[n + 1] = MergeInto(merged[n], raw[n + 1])  BY <1>9, <2>1
  <2>3. SliceOf(r, bounds[n + 1], bounds[n + 2], raw[n + 1]) /\ bounds[n + 1] < bounds[n + 2]
    BY <1>8, <2>1
  <2>4. CASE n = 0
    <3>1. n + 1 = 1 /\ n + 2 = 2  BY <2>4
    <3>2. merged[1] = MergeInto(<<>>, raw[1]) /\ SliceOf(r, bounds[1], bounds[2], raw[1]) /\ bounds[1] < bounds[2]
      BY <1>9, <2>2, <2>3, <2>4, <3>1
    <3>3. Schedules(r, merged[1], bounds[1], bounds[2])  BY <3>2, FirstSlice
    <3> QED  BY <2>1, <2>4, <3>1, <3>3
  <2>5. CASE n # 0
    <3>1. Schedules(r, merged[n], bounds[1], bounds[n + 1])  BY <1>11, <2>5
    <3>2. PICK x : x = raw[n + 1]  OBVIOUS
    <3>3. PICK a : a = merged[n]  OBVIOUS
    <3>4. PICK from : from = bounds[1]  OBVIOUS
    <3>5. PICK to : to = bounds[n + 1]  OBVIOUS
    <3>6. PICK end : end = bounds[n + 2]  OBVIOUS
    <3>7. Schedules(r, MergeInto(a, x), from, end)
      <4>1. Schedules(r, a, from, to) /\ SliceOf(r, to, end, x) /\ to < end
        BY <2>3, <3>1, <3>2, <3>3, <3>4, <3>5, <3>6
      <4> HIDE DEF T
      <4> QED  BY <4>1, NextSlice
    <3>8. Schedules(r, merged[n + 1], bounds[1], bounds[(n + 1) + 1])
      BY <2>1, <2>2, <3>2, <3>3, <3>4, <3>6, <3>7
    <3> QED  BY <2>1, <3>8
  <2> QED  BY <2>4, <2>5
<1>12. 0..(K - 1) \subseteq T
  <2>1. K - 1 \in Nat  BY <1>6
  <2> HIDE DEF T
  <2> QED  BY <1>10, <1>11, <2>1, Induction
<1>13. Schedules(r, merged[K - 1], bounds[1], bounds[K])
  <2>1. K - 1 \in 0..(K - 1) /\ K - 1 # 0 /\ (K - 1) + 1 = K  BY <1>6
  <2>2. K - 1 \in T  BY <1>12, <2>1
  <2>3. Schedules(r, merged[K - 1], bounds[1], bounds[(K - 1) + 1])  BY <2>1, <2>2
  <2> QED  BY <2>1, <2>3
<1>14. CompileSchedule(r) = merged[K - 1]
  BY <1>4, <1>5, <1>7 DEF CompileSchedule, MergeAdjacentSlices
<1>15. Min(B) = bounds[1] /\ Max(B) = bounds[K]  BY <1>2, <1>6, EndsOfTheRange
<1> QED  BY <1>1, <1>13, <1>14, <1>15

(* A schedule in this sense follows the calendar and the windows: looking up an
   instant finds a slice that answers for it. *)
LEMMA SchedulesFollow ==
  ASSUME NEW r, NEW a, Schedules(r, a, Min(Boundaries(r)), Max(Boundaries(r)))
  PROVE  FollowsTheSchedule(r, a)
<1>1. PICK from : from = Min(Boundaries(r))  OBVIOUS
<1>2. PICK to : to = Max(Boundaries(r))  OBVIOUS
<1>3. Schedules(r, a, from, to)  BY <1>1, <1>2
<1>4. a \in Seq(Slice)  BY <1>3 DEF Schedules
<1>5. ASSUME NEW t \in from..(to - 1)
      PROVE  EvaluateAt(a, t) # None /\ AnswersFor(r, EvaluateAt(a, t), t)
  <2>1. PICK found : found = {i \in DOMAIN a : a[i].start <= t /\ t < a[i].end}  OBVIOUS
  <2>2. found # {} /\ found \in SUBSET Nat  BY <1>3, <1>4, <2>1 DEF Schedules
  <2>3. PICK i : i = Min(found)  OBVIOUS
  <2>4. i \in found  BY <2>2, <2>3, MinOfNaturals
  <2>5. EvaluateAt(a, t) = a[i]  BY <2>1, <2>2, <2>3, Zenon DEF EvaluateAt
  <2>6. i \in DOMAIN a /\ a[i].start <= t /\ t < a[i].end  BY <2>1, <2>4
  <2>7. a[i] \in Slice  BY <1>4, <2>6
  <2>8. a[i] # None  BY <2>7, ScheduleAssumption
  <2>9. t \in a[i].start..(a[i].end - 1)
    <3>1. a[i].start \in Int /\ a[i].end \in Int  BY <2>7 DEF Slice
    <3>2. t \in Int  OBVIOUS
    <3> QED  BY <2>6, <3>1, <3>2
  <2>10. AnswersFor(r, a[i], t)  BY <1>3, <2>6, <2>9 DEF Schedules
  <2> QED  BY <2>5, <2>8, <2>10
<1>6. PartitionTheRange(a, from, to) /\ AreMaximal(a)  BY <1>3 DEF Schedules
<1>7. EvaluationIsPointwise(r, a, from, to)  BY <1>5 DEF EvaluationIsPointwise
<1> QED  BY <1>1, <1>2, <1>6, <1>7 DEF FollowsTheSchedule

(* What the runtime installs is the schedule of its request, whatever the
   calendars and the windows: no gap, no overlap, no needless cut, and at every
   instant the answer that the inputs give for that instant. *)
THEOREM ScheduleIsFollowed == ScheduleSpec => []SlicesFollowTheSchedule
<1>1. ScheduleInit => SlicesFollowTheSchedule  BY DEF ScheduleInit, SlicesFollowTheSchedule
<1>2. SlicesFollowTheSchedule /\ [ScheduleNext]_installed => SlicesFollowTheSchedule'
  <2> SUFFICES ASSUME SlicesFollowTheSchedule, [ScheduleNext]_installed PROVE SlicesFollowTheSchedule'  OBVIOUS
  <2>1. CASE UNCHANGED installed  BY <2>1 DEF SlicesFollowTheSchedule
  <2>2. CASE ScheduleNext
    <3>1. PICK entries \in EntrySets, windows \in WindowSets :
                 CompileAndInstall([entries |-> entries, windows |-> windows])
      BY <2>2 DEF ScheduleNext
    <3>2. PICK r : r = [entries |-> entries, windows |-> windows]  OBVIOUS
    <3>3. CompileAndInstall(r)  BY <3>1, <3>2
    <3>4. Calendar(r)  BY <3>2, <3>3, ScheduleAssumption DEF Calendar, CompileAndInstall
    <3>5. FollowsTheSchedule(r, CompileSchedule(r))  BY <3>4, CompiledIsSchedule, SchedulesFollow
    <3>6. installed'.request = r /\ installed'.slices = CompileSchedule(r)  BY <3>3 DEF CompileAndInstall
    <3> QED  BY <3>5, <3>6 DEF SlicesFollowTheSchedule
  <2> QED  BY <2>1, <2>2
<1> QED  BY <1>1, <1>2, PTL DEF ScheduleSpec

(* The same of the compiler beside the other components. *)
THEOREM DecisionsFollowTheSchedule == DecisionsSpec => []SlicesFollowTheSchedule
BY DecisionsRunEach, ScheduleIsFollowed, PTL
=============================================================================
