---------------------------- MODULE RecoveryFence ----------------------------
(***************************************************************************)
(* rust/opsd/src/recovery.rs: the barrier a graceful shutdown must leave    *)
(* behind, and the fence a restarted runtime passes before it may act.     *)
(* Both are pure evaluators of one request: a state is one evaluation.     *)
(*                                                                         *)
(* The boolean facts of a request are the set of those that are            *)
(* favourable; "holding" stands for open_position_contracts != 0 or        *)
(* open_order_count > 0.                                                   *)
(***************************************************************************)
EXTENDS Integers, SequencesExt, GateChain

CONSTANT
  NoEvaluation    \* nothing evaluated yet

Triggers == {"process_start", "broker_reconnect", "supervised_restart", "daily_reset"}

Evidence == {"identified", "unambiguous", "snapshot_barrier", "journal_barrier",
             "broker_synchronized", "no_reset_pending", "no_review_required",
             "local_restored", "snapshot_seed", "journal_replay", "fresh_history",
             "warmup_complete"}

RecoveryRequest ==
  [trigger : Triggers, evidence : SUBSET Evidence, holding : BOOLEAN,
   readiness : {"green", "suspect", "blocked", "invalid"},
   disposition : {"eligible", "review_required", "blocked"}]

ShutdownFacts == {"identified", "snapshot_written", "snapshot_digest",
                  "journal_persisted", "journal_flushed",
                  "holding_permitted", "flatten_completed"}

ShutdownRequest == [evidence : SUBSET ShutdownFacts, holding : BOOLEAN]

VARIABLES
  shutdown,    \* the shutdown request planned, or NoEvaluation
  recovery     \* the recovery request evaluated, or NoEvaluation

recoveryVars == <<shutdown, recovery>>

RecoveryInit == shutdown = NoEvaluation /\ recovery = NoEvaluation

----------------------------------------------------------------------------
BarrierFacts == {"snapshot_written", "snapshot_digest", "journal_persisted", "journal_flushed"}

ShutdownStatus(r) ==
  FirstClosed(<< Gate("identified" \notin r.evidence, "invalid"),
                 Gate(~ BarrierFacts \subseteq r.evidence, "halt_required"),
                 Gate(r.holding /\ {"holding_permitted", "flatten_completed"} \cap r.evidence = {},
                      "flatten_before_shutdown") >>, "restart_ready")

(* plan_graceful_shutdown: the artifact tells which of the barriers was written
   and verified, whatever its status; an invalid request is told of none. *)
PlanGracefulShutdown(r) ==
  LET Verified(facts) == "identified" \in r.evidence /\ facts \subseteq r.evidence
  IN  [status |-> ShutdownStatus(r),
       snapshot |-> Verified({"snapshot_written", "snapshot_digest"}),
       journal |-> Verified({"journal_persisted", "journal_flushed"})]

(* select_warmup_source: a seed counts only once restored; "journal_replay" is
   a journal that is available and whose replay completed. *)
WarmupSource(r) ==
  FirstClosed(<< Gate({"snapshot_seed", "local_restored"} \subseteq r.evidence, "snapshot_seed"),
                 Gate("journal_replay" \in r.evidence, "journal_replay"),
                 Gate("fresh_history" \in r.evidence, "fresh_history") >>, "none")

(* What a gate answers: the status, and whether open exposure may be worked
   off (exit) or must be flattened. *)
Answer(status, exit, flatten) == [status |-> status, exit |-> exit, flatten |-> flatten]

(* The gates in the order evaluate_recovery tries them: whether each is closed
   to the request, and its answer if it is the first one closed. *)
Gates(r) ==
  LET Lacks(fact) == fact \notin r.evidence
  IN << Gate(Lacks("identified"), Answer("invalid", FALSE, FALSE)),
        Gate(Lacks("unambiguous"), Answer("halted", FALSE, FALSE)),
        Gate(Lacks("snapshot_barrier") \/ Lacks("journal_barrier"), Answer("halted", FALSE, FALSE)),
        Gate(Lacks("broker_synchronized"), Answer("halted", FALSE, r.holding)),
        Gate(r.disposition = "blocked", Answer("halted", FALSE, r.holding)),
        Gate(Lacks("no_reset_pending"), Answer("recovering", r.holding, FALSE)),
        Gate(r.readiness \in {"blocked", "invalid"}, Answer("recovering", r.holding, FALSE)),
        Gate(Lacks("no_review_required") \/ r.disposition = "review_required"
               \/ r.readiness = "suspect", Answer("resume_exit_only", TRUE, FALSE)),
        Gate(Lacks("local_restored"), Answer("recovering", r.holding, FALSE)),
        Gate(WarmupSource(r) = "none", Answer("halted", FALSE, FALSE)),
        Gate(Lacks("warmup_complete"), Answer("recovering", r.holding, FALSE)),
        Gate(r.trigger = "supervised_restart" /\ r.holding, Answer("resume_exit_only", TRUE, FALSE)) >>

Tradeable == Answer("resume_tradeable", FALSE, FALSE)

(* Faulty variant: a fenced holder loses its exit. *)
StrandsTheHolder(r) ==
  LET answer == FirstClosed(Gates(r), Tradeable)
  IN  IF answer.status = "recovering" THEN [answer EXCEPT !.exit = FALSE] ELSE answer

(* evaluate_recovery; allow_new_entries is status = "resume_tradeable". *)
EvaluateRecovery(r) == FirstClosed(Gates(r), Tradeable)

(* One evaluation per behaviour, from the initial state: neither evaluator
   keeps state. *)
Shutdown(r) == shutdown' = r /\ UNCHANGED recovery
Recover(r)  == recovery' = r /\ UNCHANGED shutdown

RecoveryNext ==
  /\ RecoveryInit
  /\ \/ \E r \in ShutdownRequest : Shutdown(r)
     \/ \E r \in RecoveryRequest : Recover(r)

RecoverySpec == RecoveryInit /\ [][RecoveryNext]_recoveryVars

----------------------------------------------------------------------------
(* Types: every request gets one of the documented statuses, and no answer
   asks for an exit and a flatten at once. *)
RecoveryTypeOK ==
  /\ shutdown # NoEvaluation =>
       PlanGracefulShutdown(shutdown).status
         \in {"restart_ready", "flatten_before_shutdown", "halt_required", "invalid"}
  /\ recovery # NoEvaluation =>
       LET answer == EvaluateRecovery(recovery)
       IN  /\ answer.status \in {"resume_tradeable", "resume_exit_only", "recovering", "halted", "invalid"}
           /\ ~(answer.exit /\ answer.flatten)

(* A runtime that comes back holding exposure, and is neither halted nor
   tradeable, can always work that exposure off. *)
HolderKeepsAnExit ==
  recovery # NoEvaluation /\ recovery.holding =>
    LET answer == EvaluateRecovery(recovery)
    IN  answer.status \in {"recovering", "resume_exit_only"} => answer.exit

(* What must halt halts, whatever else is wrong with the request: unverified
   barriers, ambiguity, an unsynchronised broker and a blocked reconciliation
   are never softened by a gate further down the chain. *)
UnknownStateHalts ==
  recovery # NoEvaluation /\ "identified" \in recovery.evidence
    /\ (~ {"unambiguous", "snapshot_barrier", "journal_barrier", "broker_synchronized"}
            \subseteq recovery.evidence
        \/ recovery.disposition = "blocked")
  => EvaluateRecovery(recovery).status = "halted"

(* A process comes back over a shutdown: its request tells of the two barriers what
   the artifact of that shutdown says of them. *)
RestartsOver(r, artifact) ==
  /\ "snapshot_barrier" \in r.evidence <=> artifact.snapshot
  /\ "journal_barrier" \in r.evidence <=> artifact.journal

(* Every artifact a shutdown may leave behind. *)
ShutdownArtifacts == {PlanGracefulShutdown(s) : s \in ShutdownRequest}

(* The two evaluators fit together, though they see each other through two booleans
   only: no process comes back, not even to leave its positions, over a shutdown
   that ended before both barriers were written and verified. *)
RestartsOverDurableBarriers ==
  recovery # NoEvaluation =>
    \A artifact \in ShutdownArtifacts :
      RestartsOver(recovery, artifact) /\ EvaluateRecovery(recovery).status \notin {"halted", "invalid"}
      => artifact.status \in {"restart_ready", "flatten_before_shutdown"}

(* Whatever combination of facts a restart or a shutdown finds, the answer is on
   the safe side. *)
RecoveryFailsSafe == HolderKeepsAnExit /\ UnknownStateHalts /\ RestartsOverDurableBarriers

(* docs/runbooks/restore_recovery.md, safe outcomes: a restart while holding
   resumes in exit-only mode (a process start restarts the runtime too). *)
HoldingRestartIsExitOnly ==
  recovery # NoEvaluation /\ recovery.holding
    /\ recovery.trigger \in {"process_start", "supervised_restart"}
  => EvaluateRecovery(recovery).status # "resume_tradeable"
=============================================================================
