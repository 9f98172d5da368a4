---------------------------- MODULE RuntimeRecovery ----------------------------
(***************************************************************************)
(* shared/policy/runtime_recovery.py: the documents a runtime must produce *)
(* to recover, to shut down, to degrade, to close a day and to drill a     *)
(* restore.  Each validator judges one document.                           *)
(*                                                                         *)
(* The runtime modelled here obeys the documents that pass: it enters      *)
(* recovery when it crashes, resumes by a recovery document, takes the     *)
(* action of an assessment, and starts a session by a ledger close.        *)
(***************************************************************************)
EXTENDS Naturals, GateChain

CONSTANTS
  NoAssessment,      \* nothing assessed yet
  SignalSets,        \* the signals that may be observed
  RecoveryRequests,  \* recovery documents, but for the ambiguity found
  LedgerCloses,      \* ledger close documents, but for the discrepancy found
  RestoreDrills      \* restore drill documents

----------------------------------------------------------------------------
RecoveryFenceRequest ==
  [supported : BOOLEAN, complete : BOOLEAN, recovering : BOOLEAN, entriesFenced : BOOLEAN, mutationsBlocked : BOOLEAN,
   positionsReconciled : BOOLEAN, ordersReconciled : BOOLEAN, mappingsRepaired : BOOLEAN, ambiguous : BOOLEAN,
   disposition : {"none", "halt", "flatten"}, reset : BOOLEAN,
   packet : {"none", "invalid", "not_green", "other_deployment", "green"}]

(* A session packet that is given must be valid, green and of this deployment;
   it must be given after a session reset. *)
PacketServes(q) == IF q.packet = "none" THEN ~q.reset ELSE q.packet = "green"

(* validate_recovery_fence *)
EvaluateRecoveryFence(q) ==
  FirstClosed(<<Gate(~q.supported \/ ~q.complete, "invalid"),
                Gate(~q.recovering, "violation"),
                Gate(~q.entriesFenced, "violation"),
                Gate(~q.mutationsBlocked, "violation"),
                Gate(~(q.positionsReconciled /\ q.ordersReconciled /\ q.mappingsRepaired), "violation"),
                Gate(q.ambiguous /\ q.disposition \notin {"halt", "flatten"}, "violation"),
                Gate(~PacketServes(q), "violation")>>, "pass")

GracefulShutdownRecord ==
  [supported : BOOLEAN, complete : BOOLEAN, entriesFenced : BOOLEAN, drain : {"drain", "cancel", "halt"},
   restartReady : BOOLEAN]

(* validate_graceful_shutdown *)
EvaluateGracefulShutdown(r) ==
  FirstClosed(<<Gate(~r.supported \/ ~r.complete, "invalid"),
                Gate(~r.entriesFenced, "violation"),
                Gate(~r.restartReady, "violation")>>, "pass")

----------------------------------------------------------------------------
DegradationActions == {"allow", "restrict", "no_new_overnight_carry", "exit_only", "flatten_and_withdraw"}
StrongActions == {"exit_only", "flatten_and_withdraw"}
Signals ==
  [dataFresh : BOOLEAN, staleQuotes : Nat, parityHealthy : BOOLEAN, connected : BOOLEAN, clockSynced : BOOLEAN,
   latency : Nat, policyHealthy : BOOLEAN, mismatch : BOOLEAN]
StaleQuoteLimit == 50
LatencyLimit == 1000

SevereSignals(s) == ~s.connected \/ ~s.clockSynced \/ ~s.policyHealthy
ModerateSignals(s) ==
  ~s.dataFresh \/ s.staleQuotes > StaleQuoteLimit \/ ~s.parityHealthy \/ s.latency > LatencyLimit

DegradationAssessment ==
  [supported : BOOLEAN, complete : BOOLEAN, signals : Signals, action : DegradationActions, entriesBlocked : BOOLEAN]

(* Faulty variant: a severe signal only forbids to allow everything. *)
SevereForbidsAllow(a) ==
  FirstClosed(<<Gate(~a.supported \/ ~a.complete, "invalid"),
                Gate(a.action \in StrongActions /\ ~a.entriesBlocked, "violation"),
                Gate(a.signals.mismatch /\ a.action \notin StrongActions, "violation"),
                Gate((SevereSignals(a.signals) \/ ModerateSignals(a.signals)) /\ a.action = "allow", "violation")>>,
              "pass")

(* validate_degradation_assessment *)
EvaluateDegradation(a) ==
  FirstClosed(<<Gate(~a.supported \/ ~a.complete, "invalid"),
                Gate(a.action \in StrongActions /\ ~a.entriesBlocked, "violation"),
                Gate(a.signals.mismatch /\ a.action \notin StrongActions, "violation"),
                Gate(SevereSignals(a.signals) /\ a.action \notin StrongActions, "violation"),
                Gate(ModerateSignals(a.signals) /\ a.action = "allow", "violation")>>, "pass")

----------------------------------------------------------------------------
LedgerCloseArtifact ==
  [supported : BOOLEAN, complete : BOOLEAN, reviewed : BOOLEAN, reviewNamed : BOOLEAN, discrepancy : BOOLEAN,
   eligibility : {"eligible", "blocked", "review_required"}, cash : BOOLEAN, commissions : BOOLEAN, margin : BOOLEAN]

(* validate_ledger_close *)
EvaluateLedgerClose(a) ==
  FirstClosed(<<Gate(~a.supported \/ ~a.complete, "invalid"),
                Gate(a.reviewed /\ ~a.reviewNamed, "invalid"),
                Gate(~(a.cash /\ a.commissions /\ a.margin), "violation"),
                Gate(a.discrepancy /\ ~a.reviewed /\ a.eligibility = "eligible", "violation")>>, "pass")

RestoreDrillArtifact ==
  [supported : BOOLEAN, complete : BOOLEAN, offHost : BOOLEAN, digestChain : BOOLEAN, cleanHost : BOOLEAN,
   recovering : BOOLEAN, brokerClean : BOOLEAN, waiver : BOOLEAN, rpoTarget : Nat, rpo : Nat, rtoTarget : Nat,
   rto : Nat, visible : BOOLEAN]

(* validate_restore_drill *)
EvaluateRestoreDrill(a) ==
  FirstClosed(<<Gate(~a.supported \/ ~a.complete, "invalid"),
                Gate(~a.offHost, "violation"),
                Gate(~a.digestChain, "violation"),
                Gate(~(a.cleanHost /\ a.recovering), "violation"),
                Gate(~a.brokerClean /\ ~a.waiver, "violation"),
                Gate(a.rpo > a.rpoTarget \/ a.rto > a.rtoTarget \/ ~a.visible, "violation")>>, "pass")

----------------------------------------------------------------------------
ASSUME RecoveryDocumentsAssumption ==
  /\ SignalSets \subseteq Signals /\ RecoveryRequests \subseteq RecoveryFenceRequest
  /\ LedgerCloses \subseteq LedgerCloseArtifact /\ RestoreDrills \subseteq RestoreDrillArtifact

VARIABLES
  phase,        \* "closed" between sessions, "running", "recovering", "halted", "flattened", "stopped"
  observed,     \* the signals of this moment
  assessed,     \* the last assessment that passed, NoAssessment since a restart
  ambiguity,    \* an ambiguous broker state was found since the last crash
  openBreak,    \* a discrepancy above tolerance was found
  settled,      \* the break was reviewed or waived by name
  drilled       \* a restore drill passed

recoveryVars == <<phase, observed, assessed, ambiguity, openBreak, settled, drilled>>

RuntimeRecoveryInit ==
  /\ phase = "closed" /\ observed \in SignalSets /\ assessed = NoAssessment
  /\ ambiguity = FALSE /\ openBreak = FALSE /\ settled = FALSE /\ drilled = FALSE

Observe(s) ==
  /\ observed' = s
  /\ UNCHANGED <<phase, assessed, ambiguity, openBreak, settled, drilled>>

AssessDegradation(action, entriesBlocked) ==
  LET a == [supported |-> TRUE, complete |-> TRUE, signals |-> observed, action |-> action,
            entriesBlocked |-> entriesBlocked]
  IN  /\ phase = "running" /\ EvaluateDegradation(a) = "pass"
      /\ assessed' = a
      /\ phase' = IF action = "flatten_and_withdraw" THEN "flattened" ELSE phase
      /\ UNCHANGED <<observed, ambiguity, openBreak, settled, drilled>>

Crash(ambiguous) ==
  /\ phase \in {"running", "recovering"}
  /\ phase' = "recovering" /\ assessed' = NoAssessment /\ ambiguity' = (ambiguity \/ ambiguous)
  /\ UNCHANGED <<observed, openBreak, settled, drilled>>

(* A recovery document that passes ends the recovery as it disposes. *)
Recover(shape) ==
  LET q == [shape EXCEPT !.ambiguous = ambiguity]
  IN  /\ phase = "recovering" /\ EvaluateRecoveryFence(q) = "pass"
      /\ phase' = CASE q.disposition = "halt" -> "halted" [] q.disposition = "flatten" -> "flattened"
                    [] OTHER -> "running"
      /\ ambiguity' = (ambiguity /\ phase' = "running")
      /\ UNCHANGED <<observed, assessed, openBreak, settled, drilled>>

ShutDown(r) ==
  /\ phase = "running" /\ EvaluateGracefulShutdown(r) = "pass"
  /\ phase' = "stopped" /\ assessed' = NoAssessment
  /\ UNCHANGED <<observed, ambiguity, openBreak, settled, drilled>>

(* The books are compared with the statements when the session is over. *)
FindBreak ==
  /\ phase \notin {"running", "recovering"}
  /\ openBreak' = TRUE /\ settled' = FALSE
  /\ UNCHANGED <<phase, observed, assessed, ambiguity, drilled>>

(* A close that passes and is eligible opens the next session. *)
CloseLedger(shape) ==
  LET a == [shape EXCEPT !.discrepancy = openBreak]
  IN  /\ phase \in {"closed", "halted", "flattened", "stopped"} /\ EvaluateLedgerClose(a) = "pass"
      /\ settled' = (settled \/ (a.reviewed /\ a.reviewNamed))
      /\ phase' = IF a.eligibility = "eligible" THEN "running" ELSE "closed"
      /\ assessed' = NoAssessment
      /\ UNCHANGED <<observed, ambiguity, openBreak, drilled>>

DrillRestore(a) ==
  /\ drilled' = (EvaluateRestoreDrill(a) = "pass")
  /\ UNCHANGED <<phase, observed, assessed, ambiguity, openBreak, settled>>

RuntimeRecoveryNext ==
  \/ \E s \in SignalSets : Observe(s)
  \/ \E action \in DegradationActions, blocked \in BOOLEAN : AssessDegradation(action, blocked)
  \/ \E ambiguous \in BOOLEAN : Crash(ambiguous)
  \/ \E q \in RecoveryRequests : Recover(q)
  \/ \E r \in GracefulShutdownRecord : ShutDown(r)
  \/ FindBreak
  \/ \E a \in LedgerCloses : CloseLedger(a)
  \/ \E a \in RestoreDrills : DrillRestore(a)

RuntimeRecoverySpec == RuntimeRecoveryInit /\ [][RuntimeRecoveryNext]_recoveryVars

----------------------------------------------------------------------------
RuntimeRecoveryTypeOK ==
  /\ phase \in {"closed", "running", "recovering", "halted", "flattened", "stopped"}
  /\ observed \in SignalSets /\ {ambiguity, openBreak, settled, drilled} \subseteq BOOLEAN
  /\ assessed \in DegradationAssessment \cup {NoAssessment}

(* A runtime that takes new entries after an assessment was not assessed under
   a severe signal or a mismatch; and no runtime is running on a state that was
   ambiguous when it crashed, or on a break that nobody reviewed by name. *)
EntriesRestOnEvidence ==
  phase = "running" =>
    /\ (assessed # NoAssessment /\ ~assessed.entriesBlocked)
         => /\ ~SevereSignals(assessed.signals) /\ ~assessed.signals.mismatch
            /\ ModerateSignals(assessed.signals) => assessed.action # "allow"
    /\ ~ambiguity
    /\ openBreak => settled
=============================================================================
