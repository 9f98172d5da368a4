------------------------- MODULE ResearchStateProofs -------------------------
(***************************************************************************)
(* What holds of the research store for any runs, families and decisions:  *)
(* it is well typed, every reference a record makes resolves for ever, and *)
(* its audit log tells what is recorded.                                   *)
(*                                                                         *)
(* The invariant is the conjunction of the first two: what keeps a parent  *)
(* in its family is that no operation replaces a record or changes its     *)
(* family, and what keeps a chain valid is that none removes a record.     *)
(***************************************************************************)
EXTENDS ResearchState, Foundations

(* A chain that answers what no gate answers has no closed gate. *)
LEMMA OpenChain ==
  ASSUME NEW gates, DOMAIN gates \in SUBSET Nat, NEW otherwise,
         \A i \in DOMAIN gates : gates[i].answer # otherwise,
         FirstClosed(gates, otherwise) = otherwise
  PROVE  \A i \in DOMAIN gates : ~gates[i].closed
BY ChainAnswers

----------------------------------------------------------------------------
(* The references of a run, and of a decision, resolve. *)
ParentsResolve(r) ==
  \A i \in DOMAIN r.parents :
    researchRuns[r.parents[i]] # NotRecorded /\ researchRuns[r.parents[i]].family = r.family

ChainResolves(family, evidence) ==
  /\ \A i \in DOMAIN evidence :
       researchRuns[evidence[i]] # NotRecorded /\ researchRuns[evidence[i]].family = family
  /\ \A i, j \in DOMAIN evidence : evidence[i] = evidence[j] => i = j

(* A run is only recorded under a free id, with parents that resolve. *)
LEMMA RecordedRunResolves ==
  ASSUME NEW r \in ResearchRunRecord, RunReason(r) = "RECORDED"
  PROVE  researchRuns[r.id] = NotRecorded /\ ParentsResolve(r)
<1> DEFINE gates == <<Gate(researchRuns[r.id] # NotRecorded, "DUPLICATE_ID"),
                      Gate(~r.seeds, "MISSING_SEEDS"),
                      Gate(~r.outputs, "MISSING_OUTPUT_ARTIFACTS"),
                      Gate(~r.codeDigests, "MISSING_CODE_DIGESTS"),
                      Gate(ParentReason(r) # "none", ParentReason(r))>>
           unfit == {i \in DOMAIN r.parents : \/ researchRuns[r.parents[i]] = NotRecorded
                                              \/ researchRuns[r.parents[i]].family # r.family}
<1>1. FirstClosed(gates, "RECORDED") = "RECORDED"
  BY DEF RunReason
<1>2. ParentReason(r) # "RECORDED"
  BY DEF ParentReason
<1>3. DOMAIN gates = 1..5
  OBVIOUS
<1>4. \A i \in DOMAIN gates : gates[i].answer # "RECORDED"
  BY <1>2, <1>3 DEF Gate
<1>5. \A i \in DOMAIN gates : ~gates[i].closed
  <2> HIDE DEF gates
  <2> QED BY <1>1, <1>3, <1>4, OpenChain
<1>6. researchRuns[r.id] = NotRecorded
  <2>1. ~gates[1].closed
    BY <1>3, <1>5
  <2> QED BY <2>1 DEF Gate
<1>7. ParentReason(r) = "none"
  <2>1. ~gates[5].closed
    BY <1>3, <1>5
  <2> QED BY <2>1 DEF Gate
<1>8. unfit = {}
  BY <1>7 DEF ParentReason
<1> QED
  BY <1>6, <1>8 DEF ParentsResolve

(* The evidence report passes exactly on a chain that resolves. *)
LEMMA ValidChain ==
  ASSUME NEW family, NEW evidence
  PROVE  EvidenceReason(family, evidence) = "EVIDENCE_CHAIN_VALID" <=> ChainResolves(family, evidence)
<1> DEFINE missing == \E i \in DOMAIN evidence : researchRuns[evidence[i]] = NotRecorded
           foreign == \E i \in DOMAIN evidence : /\ researchRuns[evidence[i]] # NotRecorded
                                                 /\ researchRuns[evidence[i]].family # family
           repeated == \E i, j \in DOMAIN evidence : i # j /\ evidence[i] = evidence[j]
           gates == <<Gate(missing, "EVIDENCE_RUN_MISSING"), Gate(foreign, "EVIDENCE_FOREIGN_FAMILY"),
                      Gate(repeated, "EVIDENCE_DUPLICATE_REFERENCE")>>
<1>1. ChainResolves(family, evidence) <=> ~missing /\ ~foreign /\ ~repeated
  BY DEF ChainResolves
<1> HIDE DEF missing, foreign, repeated
<1>2. EvidenceReason(family, evidence) = FirstClosed(gates, "EVIDENCE_CHAIN_VALID")
  BY DEF EvidenceReason, missing, foreign, repeated
<1>3. DOMAIN gates = 1..3
  OBVIOUS
<1>4. \A i \in DOMAIN gates : gates[i].answer # "EVIDENCE_CHAIN_VALID"
  BY <1>3 DEF Gate
<1>5. (\A i \in DOMAIN gates : ~gates[i].closed) <=> ~missing /\ ~foreign /\ ~repeated
  BY <1>3 DEF Gate
<1>6. ASSUME FirstClosed(gates, "EVIDENCE_CHAIN_VALID") = "EVIDENCE_CHAIN_VALID"
      PROVE  \A i \in DOMAIN gates : ~gates[i].closed
  <2> HIDE DEF gates
  <2> QED BY <1>3, <1>4, <1>6, OpenChain
<1>7. ASSUME \A i \in DOMAIN gates : ~gates[i].closed
      PROVE  FirstClosed(gates, "EVIDENCE_CHAIN_VALID") = "EVIDENCE_CHAIN_VALID"
  <2> HIDE DEF gates
  <2> QED BY <1>7 DEF FirstClosed
<1> QED
  BY <1>1, <1>2, <1>5, <1>6, <1>7

(* A decision is only recorded on evidence that resolves. *)
LEMMA RecordedDecisionResolves ==
  ASSUME NEW d \in FamilyDecisionRecord, DecisionReason(d) = "RECORDED"
  PROVE  ChainResolves(d.family, d.evidence)
<1> DEFINE chain == EvidenceReason(d.family, d.evidence)
           gates == <<Gate(familyDecisions[d.id] # NotRecorded, "DUPLICATE_ID"),
                      Gate(d.evidence = <<>>, "MISSING_EVIDENCE"),
                      Gate(~d.attested, "MISSING_ATTESTATION"),
                      Gate(~d.reasons, "MISSING_REASON_BUNDLE"),
                      Gate(d.type = "terminate" /\ d.budget # 0, "TERMINATE_REQUIRES_ZERO_BUDGET"),
                      Gate(d.type # "terminate" /\ d.budget = 0, "NON_TERMINAL_REQUIRES_BUDGET"),
                      Gate(d.type = "pause" /\ ~d.revisit, "PAUSE_REQUIRES_REVISIT"),
                      Gate(chain # "EVIDENCE_CHAIN_VALID", chain)>>
<1>1. FirstClosed(gates, "RECORDED") = "RECORDED"
  BY DEF DecisionReason
<1>2. chain # "RECORDED"
  <2> DEFINE missing == \E i \in DOMAIN d.evidence : researchRuns[d.evidence[i]] = NotRecorded
             foreign == \E i \in DOMAIN d.evidence :
                          /\ researchRuns[d.evidence[i]] # NotRecorded
                          /\ researchRuns[d.evidence[i]].family # d.family
             repeated == \E i, j \in DOMAIN d.evidence : i # j /\ d.evidence[i] = d.evidence[j]
             links == <<Gate(missing, "EVIDENCE_RUN_MISSING"), Gate(foreign, "EVIDENCE_FOREIGN_FAMILY"),
                        Gate(repeated, "EVIDENCE_DUPLICATE_REFERENCE")>>
  <2>1. chain = FirstClosed(links, "EVIDENCE_CHAIN_VALID")
    BY DEF EvidenceReason
  <2> HIDE DEF missing, foreign, repeated
  <2>2. DOMAIN links = 1..3 /\ \A i \in 1..3 : links[i].answer # "RECORDED"
    BY DEF Gate
  <2> HIDE DEF chain, links
  <2>3. PICK valid : valid = "EVIDENCE_CHAIN_VALID"
    OBVIOUS
  <2>4. chain = valid \/ \E i \in DOMAIN links : chain = links[i].answer
    BY <2>1, <2>2, <2>3, ChainAnswers
  <2> QED
    BY <2>2, <2>3, <2>4
<1> HIDE DEF chain
<1>3. DOMAIN gates = 1..8
  OBVIOUS
<1>4. \A i \in DOMAIN gates : gates[i].answer # "RECORDED"
  BY <1>2, <1>3 DEF Gate
<1>5. \A i \in DOMAIN gates : ~gates[i].closed
  <2> HIDE DEF gates
  <2> QED BY <1>1, <1>3, <1>4, OpenChain
<1>6. ~gates[8].closed
  BY <1>3, <1>5
<1>7. chain = "EVIDENCE_CHAIN_VALID"
  BY <1>6 DEF Gate
<1> QED
  BY <1>7, ValidChain DEF chain

(* Only what is recorded makes a transition. *)
LEMMA OnlyRecordedMoves ==
  ASSUME NEW record, NEW transitions, NEW to,
         TransitionReason(record, transitions, to) = "TRANSITION_APPLIED"
  PROVE  record # NotRecorded
<1> DEFINE barred == record # NotRecorded /\ to \notin transitions[record.state]
           gates == <<Gate(record = NotRecorded, "NOT_FOUND"), Gate(barred, "INVALID_TRANSITION")>>
<1>1. FirstClosed(gates, "TRANSITION_APPLIED") = "TRANSITION_APPLIED"
  BY DEF TransitionReason
<1> HIDE DEF barred
<1>2. DOMAIN gates = 1..2 /\ \A i \in DOMAIN gates : gates[i].answer # "TRANSITION_APPLIED"
  BY DEF Gate
<1>3. ~gates[1].closed
  <2> HIDE DEF gates
  <2> QED BY <1>1, <1>2, OpenChain
<1> QED
  BY <1>3 DEF Gate

----------------------------------------------------------------------------
(* The inductive invariant. Chains are stated as resolving, which the reports
   of EvidenceResolves say through ValidChain. *)
ResearchInv ==
  /\ ResearchTypeOK
  /\ \A r \in RecordedRuns : ParentsResolve(researchRuns[r])
  /\ \A d \in RecordedDecisions : ChainResolves(familyDecisions[d].family, familyDecisions[d].evidence)

(* No operation forgets a run or moves it to another family. *)
RunsKept ==
  \A r \in Runs : researchRuns[r] # NotRecorded =>
    researchRuns'[r] # NotRecorded /\ researchRuns'[r].family = researchRuns[r].family

(* References that resolve keep resolving while runs are kept. *)
LEMMA KeptRunsResolve ==
  ASSUME RunsKept
  PROVE  /\ \A r \in ResearchRunRecord : ParentsResolve(r) => ParentsResolve(r)'
         /\ \A d \in FamilyDecisionRecord :
              ChainResolves(d.family, d.evidence) => ChainResolves(d.family, d.evidence)'
<1>1. \A r \in ResearchRunRecord : \A i \in DOMAIN r.parents : r.parents[i] \in Runs
  BY DEF ResearchRunRecord
<1>2. \A d \in FamilyDecisionRecord : \A i \in DOMAIN d.evidence : d.evidence[i] \in Runs
  BY DEF FamilyDecisionRecord
<1> QED
  BY <1>1, <1>2 DEF RunsKept, ParentsResolve, ChainResolves

(* An empty store is in order. *)
LEMMA InvInit == ResearchInit => ResearchInv
  BY DEF ResearchInit, ResearchInv, ResearchTypeOK, RecordedRuns, RecordedDecisions

(* A recorded run has parents that are recorded (record_research_run). *)
LEMMA RecordRunKeepsInv ==
  ASSUME ResearchInv, NEW r \in RunSubmissions, RecordResearchRun(r)
  PROVE  ResearchInv'
<1> USE DEF RecordResearchRun, ResearchInv, ResearchTypeOK, RecordedRuns, RecordedDecisions
<1>1. r \in ResearchRunRecord /\ r.id \in Runs /\ r # NotRecorded
  BY ResearchAssumption DEF ResearchRunRecord
<1>2. CASE RunReason(r) # "RECORDED"
  BY <1>2 DEF ParentsResolve, ChainResolves
<1>3. CASE RunReason(r) = "RECORDED"
  <2>1. researchRuns[r.id] = NotRecorded /\ ParentsResolve(r)
    BY <1>1, <1>3, RecordedRunResolves
  <2>2. researchRuns' = [researchRuns EXCEPT ![r.id] = r]
    BY <1>3
  <2>3. RunsKept
    BY <2>1, <2>2 DEF RunsKept
  <2>4. \A x \in RecordedRuns' : researchRuns'[x] \in ResearchRunRecord /\ ParentsResolve(researchRuns'[x])
    BY <1>1, <2>1, <2>2
  <2>5. \A x \in RecordedRuns' : ParentsResolve(researchRuns[x])'
    BY <2>3, <2>4, KeptRunsResolve
  <2>6. \A d \in RecordedDecisions : familyDecisions[d] \in FamilyDecisionRecord
    OBVIOUS
  <2> QED
    BY <1>1, <2>2, <2>3, <2>5, <2>6, KeptRunsResolve
<1> QED
  BY <1>2, <1>3

(* A run that changes its state keeps its references. *)
LEMMA TransitionRunKeepsInv ==
  ASSUME ResearchInv, NEW id \in Runs, NEW to \in RunLifecycle, TransitionResearchRun(id, to)
  PROVE  ResearchInv'
<1> USE DEF TransitionResearchRun, ResearchInv, ResearchTypeOK, RecordedRuns, RecordedDecisions
<1> DEFINE reason == TransitionReason(researchRuns[id], RunTransitions, to)
<1>1. CASE reason # "TRANSITION_APPLIED"
  BY <1>1 DEF ParentsResolve, ChainResolves
<1>2. CASE reason = "TRANSITION_APPLIED"
  <2>1. researchRuns[id] # NotRecorded
    BY <1>2, OnlyRecordedMoves
  <2>2. researchRuns' = [researchRuns EXCEPT ![id] = [researchRuns[id] EXCEPT !.state = to]]
    BY <1>2
  <2> DEFINE moved == [researchRuns[id] EXCEPT !.state = to]
  <2>3. moved \in ResearchRunRecord /\ moved.family = researchRuns[id].family
        /\ moved.parents = researchRuns[id].parents
    BY <2>1 DEF ResearchRunRecord
  <2> HIDE DEF moved
  <2>4. moved # NotRecorded
    BY <2>3, ResearchAssumption
  <2>5. researchRuns' = [researchRuns EXCEPT ![id] = moved]
    BY <2>2 DEF moved
  <2>6. RunsKept
    BY <2>3, <2>4, <2>5 DEF RunsKept
  <2>7. ParentsResolve(moved)
    BY <2>1, <2>3 DEF ParentsResolve
  <2>8. \A x \in RecordedRuns' : researchRuns'[x] \in ResearchRunRecord /\ ParentsResolve(researchRuns'[x])
    BY <2>3, <2>5, <2>7
  <2>9. \A x \in RecordedRuns' : ParentsResolve(researchRuns[x])'
    BY <2>6, <2>8, KeptRunsResolve
  <2>10. \A d \in RecordedDecisions : familyDecisions[d] \in FamilyDecisionRecord
    OBVIOUS
  <2> QED
    BY <2>3, <2>5, <2>6, <2>9, <2>10, KeptRunsResolve
<1> QED
  BY <1>1, <1>2

(* A recorded decision rests on runs and decisions that are recorded. *)
LEMMA RecordDecisionKeepsInv ==
  ASSUME ResearchInv, NEW d \in DecisionSubmissions, RecordFamilyDecision(d)
  PROVE  ResearchInv'
<1> USE DEF RecordFamilyDecision, ResearchInv, ResearchTypeOK, RecordedRuns, RecordedDecisions
<1>1. d \in FamilyDecisionRecord /\ d.id \in DecisionIds
  BY ResearchAssumption DEF FamilyDecisionRecord
<1>2. CASE DecisionReason(d) # "RECORDED"
  BY <1>2 DEF ParentsResolve, ChainResolves
<1>3. CASE DecisionReason(d) = "RECORDED"
  <2>1. ChainResolves(d.family, d.evidence)
    BY <1>1, <1>3, RecordedDecisionResolves
  <2> QED
    BY <1>1, <1>3, <2>1 DEF ParentsResolve, ChainResolves
<1> QED
  BY <1>2, <1>3

(* A decision that changes its state keeps its references. *)
LEMMA TransitionDecisionKeepsInv ==
  ASSUME ResearchInv, NEW id \in DecisionIds, NEW to \in DecisionLifecycle, TransitionFamilyDecision(id, to)
  PROVE  ResearchInv'
<1> USE DEF TransitionFamilyDecision, ResearchInv, ResearchTypeOK, RecordedRuns, RecordedDecisions
<1> DEFINE reason == TransitionReason(familyDecisions[id], DecisionTransitions, to)
           moved == [familyDecisions[id] EXCEPT !.state = to]
<1>1. CASE reason # "TRANSITION_APPLIED"
  BY <1>1 DEF ParentsResolve, ChainResolves
<1>2. CASE reason = "TRANSITION_APPLIED"
  <2>1. familyDecisions[id] # NotRecorded
    BY <1>2, OnlyRecordedMoves
  <2>2. moved \in FamilyDecisionRecord /\ moved.family = familyDecisions[id].family
        /\ moved.evidence = familyDecisions[id].evidence
    BY <2>1 DEF FamilyDecisionRecord
  <2>3. familyDecisions' = [familyDecisions EXCEPT ![id] = moved] /\ researchRuns' = researchRuns
    BY <1>2
  <2> HIDE DEF moved
  <2> QED
    BY <2>1, <2>2, <2>3 DEF ParentsResolve, ChainResolves
<1> QED
  BY <1>1, <1>2

(* The store keeps its types, and every run and chain it refers to, through
   any sequence of records and transitions. *)
THEOREM ResearchInvariant == ResearchSpec => []ResearchInv
<1>1. ResearchInit => ResearchInv
  BY InvInit
<1>2. ResearchInv /\ [ResearchNext]_researchVars => ResearchInv'
  <2> SUFFICES ASSUME ResearchInv, [ResearchNext]_researchVars PROVE ResearchInv'
    OBVIOUS
  <2>1. ASSUME NEW r \in RunSubmissions, RecordResearchRun(r) PROVE ResearchInv'
    BY <2>1, RecordRunKeepsInv
  <2>2. ASSUME NEW id \in Runs, NEW to \in RunLifecycle, TransitionResearchRun(id, to) PROVE ResearchInv'
    BY <2>2, TransitionRunKeepsInv
  <2>3. ASSUME NEW d \in DecisionSubmissions, RecordFamilyDecision(d) PROVE ResearchInv'
    BY <2>3, RecordDecisionKeepsInv
  <2>4. ASSUME NEW id \in DecisionIds, NEW to \in DecisionLifecycle, TransitionFamilyDecision(id, to)
        PROVE  ResearchInv'
    BY <2>4, TransitionDecisionKeepsInv
  <2>5. CASE UNCHANGED researchVars
    BY <2>5 DEF researchVars, ResearchInv, ResearchTypeOK, RecordedRuns, RecordedDecisions,
                ParentsResolve, ChainResolves
  <2> QED
    BY <2>1, <2>2, <2>3, <2>4, <2>5 DEF ResearchNext
<1> QED
  BY <1>1, <1>2, PTL DEF ResearchSpec

(* The parents of a recorded run are recorded runs of its family, and the
   evidence of a recorded decision is a valid chain, at every later time. *)
THEOREM ResearchReferences == ResearchSpec => []ReferencesResolve
<1>1. ResearchInv => ReferencesResolve
  <2> SUFFICES ASSUME ResearchInv PROVE ReferencesResolve
    OBVIOUS
  <2>1. LineageResolves
    <3> SUFFICES ASSUME NEW r \in RecordedRuns, NEW i \in DOMAIN researchRuns[r].parents
                 PROVE  /\ researchRuns[r].parents[i] \in RecordedRuns
                        /\ researchRuns[researchRuns[r].parents[i]].family = researchRuns[r].family
      BY DEF LineageResolves
    <3>1. researchRuns[r] \in ResearchRunRecord
      BY DEF ResearchInv, ResearchTypeOK, RecordedRuns
    <3>2. researchRuns[r].parents[i] \in Runs
      BY <3>1 DEF ResearchRunRecord
    <3> QED
      BY <3>2 DEF ResearchInv, ParentsResolve, RecordedRuns
  <2>2. EvidenceResolves
    BY ValidChain DEF ResearchInv, EvidenceResolves
  <2> QED
    BY <2>1, <2>2 DEF ReferencesResolve
<1> QED
  BY <1>1, ResearchInvariant, PTL

----------------------------------------------------------------------------
(* One more event: applied to a record, it is what the log tells of it; of any
   other record the log tells what it told before. *)
LEMMA AppliedLast ==
  ASSUME NEW S, NEW log \in Seq(S), NEW event \in S, NEW type, NEW id, NEW record, NEW next,
         Rebuilds(log, type, id, record),
         IF event.type = type /\ event.id = id /\ event.reason \in Applied
         THEN next # NotRecorded /\ next.state = event.next
         ELSE next = record
  PROVE  Rebuilds(Append(log, event), type, id, next)
<1>1. PICK N : N = Len(log) /\ N \in Nat  OBVIOUS
<1>2. PICK longer : longer = Append(log, event)  OBVIOUS
<1>3. /\ DOMAIN log = 1..N /\ DOMAIN longer = 1..(N + 1) /\ longer[N + 1] = event
      /\ \A n \in 1..N : longer[n] = log[n]
  BY <1>1, <1>2
<1>4. PICK old : old = AppliedTo(log, type, id)  OBVIOUS
<1>5. PICK new : new = AppliedTo(longer, type, id)  OBVIOUS
<1>6. old \subseteq 1..N  BY <1>3, <1>4 DEF AppliedTo
<1>7. CASE event.type = type /\ event.id = id /\ event.reason \in Applied
  <2>1. new = old \cup {N + 1}
    BY <1>1, <1>3, <1>4, <1>5, <1>7 DEF AppliedTo
  <2>2. Max(new) = N + 1
    <3>1. N + 1 \in new /\ \A n \in new : N + 1 >= n /\ n \in Nat  BY <1>1, <1>6, <2>1
    <3>2. \A m \in new : (\A n \in new : m >= n) => m = N + 1  BY <1>1, <3>1
    <3> QED  BY <3>1, <3>2 DEF Max
  <2> QED  BY <1>2, <1>3, <1>5, <1>7, <2>1, <2>2 DEF Rebuilds
<1>8. CASE ~ (event.type = type /\ event.id = id /\ event.reason \in Applied)
  <2>1. new = old
    BY <1>1, <1>3, <1>4, <1>5, <1>8 DEF AppliedTo
  <2>2. old # {} => Max(old) \in 1..N
    <3> SUFFICES ASSUME old # {} PROVE Max(old) \in old  BY <1>6
    <3>1. old \in SUBSET (0..N)  BY <1>1, <1>6
    <3>2. PICK m \in old : \A n \in old : m >= n  BY <1>1, <3>1, GreatestNatural
    <3> QED  BY <3>2 DEF Max
  <2> QED  BY <1>2, <1>3, <1>4, <1>5, <1>8, <2>1, <2>2 DEF Rebuilds
<1> QED  BY <1>7, <1>8

(* What the log tells of the runs and of the decisions, and that it is a log. *)
AuditInv == AuditRebuildsTheStore /\ \E S : auditLog \in Seq(S)

(* A step that logs what it did to one record, and does nothing to another. *)
LEMMA StepRebuilds ==
  ASSUME AuditInv, NEW event, auditLog' = Append(auditLog, event),
         \A r \in Runs :
           IF event.type = "research_run" /\ event.id = r /\ event.reason \in Applied
           THEN researchRuns'[r] # NotRecorded /\ researchRuns'[r].state = event.next
           ELSE researchRuns'[r] = researchRuns[r],
         \A d \in DecisionIds :
           IF event.type = "family_decision" /\ event.id = d /\ event.reason \in Applied
           THEN familyDecisions'[d] # NotRecorded /\ familyDecisions'[d].state = event.next
           ELSE familyDecisions'[d] = familyDecisions[d]
  PROVE  AuditInv'
<1>1. PICK R : auditLog \in Seq(R)  BY DEF AuditInv
<1>2. PICK S : S = R \cup {event}  OBVIOUS
<1>3. auditLog \in Seq(S) /\ event \in S
  <2>1. Len(auditLog) \in Nat /\ auditLog \in [1..Len(auditLog) -> R]  BY <1>1
  <2>2. auditLog \in [1..Len(auditLog) -> S]  BY <1>2, <2>1
  <2> QED  BY <1>2, <2>1, <2>2
<1>4. auditLog' \in Seq(S)  BY <1>3
<1>5. \A r \in Runs : Rebuilds(auditLog', "research_run", r, researchRuns'[r])
  BY <1>3, AppliedLast DEF AuditInv, AuditRebuildsTheStore
<1>6. \A d \in DecisionIds : Rebuilds(auditLog', "family_decision", d, familyDecisions'[d])
  BY <1>3, AppliedLast DEF AuditInv, AuditRebuildsTheStore
<1> QED  BY <1>4, <1>5, <1>6 DEF AuditInv, AuditRebuildsTheStore

(* No refusal reads like what was applied. *)
LEMMA RefusalsAreNotApplied ==
  /\ \A r : RunReason(r) \in Applied => RunReason(r) = "RECORDED"
  /\ \A d : DecisionReason(d) \in Applied => DecisionReason(d) = "RECORDED"
  /\ \A record, transitions, to :
       TransitionReason(record, transitions, to) \in Applied
         => TransitionReason(record, transitions, to) = "TRANSITION_APPLIED"
<1>1. PICK recorded : recorded = "RECORDED"  OBVIOUS
<1>2. PICK applied : applied = "TRANSITION_APPLIED"  OBVIOUS
<1>3. PICK valid : valid = "EVIDENCE_CHAIN_VALID"  OBVIOUS
<1>4. \A r : RunReason(r) \in Applied => RunReason(r) = recorded
  <2> TAKE r
  <2>1. PICK parents : parents = ParentReason(r)  OBVIOUS
  <2>2. parents \notin Applied  BY <2>1 DEF ParentReason, Applied
  <2>3. PICK gates : gates = <<Gate(researchRuns[r.id] # NotRecorded, "DUPLICATE_ID"),
                               Gate(~r.seeds, "MISSING_SEEDS"),
                               Gate(~r.outputs, "MISSING_OUTPUT_ARTIFACTS"),
                               Gate(~r.codeDigests, "MISSING_CODE_DIGESTS"),
                               Gate(parents # "none", parents)>>
    OBVIOUS
  <2>4. DOMAIN gates \in SUBSET Nat /\ \A i \in DOMAIN gates : gates[i].answer \notin Applied
    BY <2>2, <2>3 DEF Gate, Applied
  <2>5. PICK answer : answer = FirstClosed(gates, recorded)  OBVIOUS
  <2>6. answer = recorded \/ \E i \in DOMAIN gates : answer = gates[i].answer
    BY <2>4, <2>5, ChainAnswers
  <2>7. RunReason(r) = answer  BY <1>1, <2>1, <2>3, <2>5 DEF RunReason
  <2> QED  BY <2>4, <2>6, <2>7
<1>5. \A d : DecisionReason(d) \in Applied => DecisionReason(d) = recorded
  <2> TAKE d
  <2>1. PICK chain : chain = EvidenceReason(d.family, d.evidence)  OBVIOUS
  <2>2. chain \notin Applied
    <3>1. PICK links : links =
            <<Gate(\E i \in DOMAIN d.evidence : researchRuns[d.evidence[i]] = NotRecorded, "EVIDENCE_RUN_MISSING"),
              Gate(\E i \in DOMAIN d.evidence : /\ researchRuns[d.evidence[i]] # NotRecorded
                                                /\ researchRuns[d.evidence[i]].family # d.family,
                   "EVIDENCE_FOREIGN_FAMILY"),
              Gate(\E i, j \in DOMAIN d.evidence : i # j /\ d.evidence[i] = d.evidence[j],
                   "EVIDENCE_DUPLICATE_REFERENCE")>>
      OBVIOUS
    <3>2. DOMAIN links \in SUBSET Nat /\ \A i \in DOMAIN links : links[i].answer \notin Applied
      BY <3>1 DEF Gate, Applied
    <3>3. chain = FirstClosed(links, valid)  BY <1>3, <2>1, <3>1 DEF EvidenceReason
    <3>4. chain = valid \/ \E i \in DOMAIN links : chain = links[i].answer
      BY <3>2, <3>3, ChainAnswers
    <3> QED  BY <1>3, <3>2, <3>4 DEF Applied
  <2>3. PICK gates : gates = <<Gate(familyDecisions[d.id] # NotRecorded, "DUPLICATE_ID"),
                               Gate(d.evidence = <<>>, "MISSING_EVIDENCE"),
                               Gate(~d.attested, "MISSING_ATTESTATION"),
                               Gate(~d.reasons, "MISSING_REASON_BUNDLE"),
                               Gate(d.type = "terminate" /\ d.budget # 0, "TERMINATE_REQUIRES_ZERO_BUDGET"),
                               Gate(d.type # "terminate" /\ d.budget = 0, "NON_TERMINAL_REQUIRES_BUDGET"),
                               Gate(d.type = "pause" /\ ~d.revisit, "PAUSE_REQUIRES_REVISIT"),
                               Gate(chain # "EVIDENCE_CHAIN_VALID", chain)>>
    OBVIOUS
  <2>4. DOMAIN gates \in SUBSET Nat /\ \A i \in DOMAIN gates : gates[i].answer \notin Applied
    BY <2>2, <2>3 DEF Gate, Applied
  <2>5. PICK answer : answer = FirstClosed(gates, recorded)  OBVIOUS
  <2>6. answer = recorded \/ \E i \in DOMAIN gates : answer = gates[i].answer
    BY <2>4, <2>5, ChainAnswers
  <2>7. DecisionReason(d) = answer  BY <1>1, <2>1, <2>3, <2>5 DEF DecisionReason
  <2> QED  BY <2>4, <2>6, <2>7
<1>6. \A record, transitions, to :
        TransitionReason(record, transitions, to) \in Applied => TransitionReason(record, transitions, to) = applied
  <2> TAKE record, transitions, to
  <2>1. PICK gates : gates = <<Gate(record = NotRecorded, "NOT_FOUND"),
                               Gate(record # NotRecorded /\ to \notin transitions[record.state],
                                    "INVALID_TRANSITION")>>
    OBVIOUS
  <2>2. DOMAIN gates \in SUBSET Nat /\ \A i \in DOMAIN gates : gates[i].answer \notin Applied
    BY <2>1 DEF Gate, Applied
  <2>3. PICK answer : answer = FirstClosed(gates, applied)  OBVIOUS
  <2>4. answer = applied \/ \E i \in DOMAIN gates : answer = gates[i].answer
    BY <2>2, <2>3, ChainAnswers
  <2>5. TransitionReason(record, transitions, to) = answer  BY <1>2, <2>1, <2>3 DEF TransitionReason
  <2> QED  BY <2>2, <2>4, <2>5
<1> QED  BY <1>1, <1>2, <1>4, <1>5, <1>6

(* Each operation leaves the log telling the new state of each record, refused
   attempts included. *)
LEMMA ActionsAreAudited ==
  ASSUME ResearchInv, AuditInv, ResearchNext
  PROVE  AuditInv'
<1> USE DEF ResearchInv, ResearchTypeOK
<1>1. ASSUME NEW r \in RunSubmissions, RecordResearchRun(r) PROVE AuditInv'
  <2>1. PICK event : event = AuditEvent("research_run", r.id, "create", RunReason(r), "none", r.state)  OBVIOUS
  <2>2. event.type = "research_run" /\ event.id = r.id /\ event.reason = RunReason(r) /\ event.next = r.state
    BY <2>1 DEF AuditEvent
  <2>3. r # NotRecorded /\ r.id \in Runs  BY ResearchAssumption DEF ResearchRunRecord
  <2>4. /\ auditLog' = Append(auditLog, event) /\ familyDecisions' = familyDecisions
        /\ researchRuns' = IF RunReason(r) = "RECORDED" THEN [researchRuns EXCEPT ![r.id] = r] ELSE researchRuns
    BY <1>1, <2>1 DEF RecordResearchRun, Audit
  <2>5. event.reason \in Applied <=> RunReason(r) = "RECORDED"  BY <2>2, RefusalsAreNotApplied DEF Applied
  <2> QED  BY <2>2, <2>3, <2>4, <2>5, StepRebuilds
<1>2. ASSUME NEW id \in Runs, NEW to \in RunLifecycle, TransitionResearchRun(id, to) PROVE AuditInv'
  <2>1. PICK reason : reason = TransitionReason(researchRuns[id], RunTransitions, to)  OBVIOUS
  <2>2. PICK event : event = AuditEvent("research_run", id, "transition", reason,
                               IF researchRuns[id] = NotRecorded THEN "none" ELSE researchRuns[id].state, to)
    OBVIOUS
  <2>3. event.type = "research_run" /\ event.id = id /\ event.reason = reason /\ event.next = to
    BY <2>2 DEF AuditEvent
  <2>4. /\ auditLog' = Append(auditLog, event) /\ familyDecisions' = familyDecisions
        /\ researchRuns' = IF reason = "TRANSITION_APPLIED" THEN [researchRuns EXCEPT ![id].state = to]
                           ELSE researchRuns
    BY <1>2, <2>1, <2>2 DEF TransitionResearchRun, Audit
  <2>5. event.reason \in Applied <=> reason = "TRANSITION_APPLIED"  BY <2>1, <2>3, RefusalsAreNotApplied DEF Applied
  <2>6. ASSUME reason = "TRANSITION_APPLIED"
        PROVE  [researchRuns[id] EXCEPT !.state = to] \in ResearchRunRecord
               /\ [researchRuns[id] EXCEPT !.state = to].state = to
    <3>1. researchRuns[id] \in ResearchRunRecord  BY <2>1, <2>6, OnlyRecordedMoves
    <3> QED  BY <3>1 DEF ResearchRunRecord
  <2>7. ASSUME reason = "TRANSITION_APPLIED"
        PROVE  researchRuns'[id] # NotRecorded /\ researchRuns'[id].state = to
               /\ \A r \in Runs \ {id} : researchRuns'[r] = researchRuns[r]
    BY <2>4, <2>6, <2>7, ResearchAssumption
  <2> QED  BY <2>3, <2>4, <2>5, <2>7, StepRebuilds
<1>3. ASSUME NEW d \in DecisionSubmissions, RecordFamilyDecision(d) PROVE AuditInv'
  <2>1. PICK event : event = AuditEvent("family_decision", d.id, "create", DecisionReason(d), "none", d.state)
    OBVIOUS
  <2>2. event.type = "family_decision" /\ event.id = d.id /\ event.reason = DecisionReason(d) /\ event.next = d.state
    BY <2>1 DEF AuditEvent
  <2>3. d # NotRecorded /\ d.id \in DecisionIds  BY ResearchAssumption DEF FamilyDecisionRecord
  <2>4. /\ auditLog' = Append(auditLog, event) /\ researchRuns' = researchRuns
        /\ familyDecisions' = IF DecisionReason(d) = "RECORDED" THEN [familyDecisions EXCEPT ![d.id] = d]
                              ELSE familyDecisions
    BY <1>3, <2>1 DEF RecordFamilyDecision, Audit
  <2>5. event.reason \in Applied <=> DecisionReason(d) = "RECORDED"  BY <2>2, RefusalsAreNotApplied DEF Applied
  <2> QED  BY <2>2, <2>3, <2>4, <2>5, StepRebuilds
<1>4. ASSUME NEW id \in DecisionIds, NEW to \in DecisionLifecycle, TransitionFamilyDecision(id, to) PROVE AuditInv'
  <2>1. PICK reason : reason = TransitionReason(familyDecisions[id], DecisionTransitions, to)  OBVIOUS
  <2>2. PICK event : event = AuditEvent("family_decision", id, "transition", reason,
                               IF familyDecisions[id] = NotRecorded THEN "none" ELSE familyDecisions[id].state, to)
    OBVIOUS
  <2>3. event.type = "family_decision" /\ event.id = id /\ event.reason = reason /\ event.next = to
    BY <2>2 DEF AuditEvent
  <2>4. /\ auditLog' = Append(auditLog, event) /\ researchRuns' = researchRuns
        /\ familyDecisions' = IF reason = "TRANSITION_APPLIED" THEN [familyDecisions EXCEPT ![id].state = to]
                              ELSE familyDecisions
    BY <1>4, <2>1, <2>2 DEF TransitionFamilyDecision, Audit
  <2>5. event.reason \in Applied <=> reason = "TRANSITION_APPLIED"  BY <2>1, <2>3, RefusalsAreNotApplied DEF Applied
  <2>6. ASSUME reason = "TRANSITION_APPLIED"
        PROVE  [familyDecisions[id] EXCEPT !.state = to] \in FamilyDecisionRecord
               /\ [familyDecisions[id] EXCEPT !.state = to].state = to
    <3>1. familyDecisions[id] \in FamilyDecisionRecord  BY <2>1, <2>6, OnlyRecordedMoves
    <3> QED  BY <3>1 DEF FamilyDecisionRecord
  <2>7. ASSUME reason = "TRANSITION_APPLIED"
        PROVE  familyDecisions'[id] # NotRecorded /\ familyDecisions'[id].state = to
               /\ \A d \in DecisionIds \ {id} : familyDecisions'[d] = familyDecisions[d]
    BY <2>4, <2>6, <2>7, ResearchAssumption
  <2> QED  BY <2>3, <2>4, <2>5, <2>7, StepRebuilds
<1> QED  BY <1>1, <1>2, <1>3, <1>4 DEF ResearchNext

(* From the log of what was tried, refusals included, it can be told at any time
   which runs and decisions are recorded and in which state each of them is. *)
THEOREM ResearchAudit == ResearchSpec => []AuditRebuildsTheStore
<1>1. ResearchInit => AuditInv
  <2> SUFFICES ASSUME ResearchInit PROVE AuditInv  OBVIOUS
  <2>1. auditLog = <<>> /\ auditLog \in Seq({})  BY DEF ResearchInit
  <2>2. \A type, id : AppliedTo(auditLog, type, id) = {}  BY <2>1 DEF AppliedTo
  <2> QED  BY <2>1, <2>2 DEF ResearchInit, AuditInv, AuditRebuildsTheStore, Rebuilds
<1>2. ResearchInv /\ AuditInv /\ [ResearchNext]_researchVars => AuditInv'
  <2>1. AuditInv /\ UNCHANGED researchVars => AuditInv'
    BY DEF researchVars, AuditInv, AuditRebuildsTheStore
  <2> QED  BY <2>1, ActionsAreAudited
<1>3. AuditInv => AuditRebuildsTheStore  BY DEF AuditInv
<1> QED  BY <1>1, <1>2, <1>3, ResearchInvariant, PTL DEF ResearchSpec
=============================================================================
