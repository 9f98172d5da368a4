------------------------- MODULE WatchdogSupervision -------------------------
(***************************************************************************)
(* rust/watchdog/src/supervision.rs: the watchdog judges one bundle of      *)
(* observations at a time and asks for restarts or a quarantine.  It keeps  *)
(* no state: an observation carries the restart attempts the last report    *)
(* of its target resulted in.  That feedback, done by whoever collects the  *)
(* observations, is modelled as the variable attempts.                      *)
(*                                                                         *)
(* A bundle may name a target more than once: each observation gets a      *)
(* report of its own, all of them carry the attempts known when the bundle *)
(* was collected, and the last of them is the one fed back.  What a bundle *)
(* says of opsd's recovering gate it says in each of them.                 *)
(***************************************************************************)
EXTENDS Integers, Sequences

CONSTANTS
  Targets,       \* supervised processes, "opsd" among them
  MaxAttempts,   \* bound: attempts a report may result in
  MaxSightings   \* bound: observations of one target in one bundle

ASSUME SupervisionAssumption == "opsd" \in Targets /\ MaxAttempts \in Nat /\ MaxSightings \in Nat \ {0}

MaxRestartAttemptsBeforeQuarantine == 2

Rank == [green |-> 0, warn |-> 1, restrict |-> 2, block |-> 3]

(* "aging" is healthy with a heartbeat at four fifths of its budget or more. *)
Liveness == {"healthy", "aging", "unresponsive", "down"}
Healthy == {"healthy", "aging"}

VARIABLES
  attempts,    \* target -> restart attempts its next observation carries
  restarts,    \* target -> bundles that asked for its restart since it was last seen healthy
  verdicts,    \* observed target -> its reports of the last bundle, in order
  overall      \* state of the last report

supervisionVars == <<attempts, restarts, verdicts, overall>>

SupervisionInit ==
  /\ attempts = [t \in Targets |-> 0] /\ restarts = [t \in Targets |-> 0]
  /\ verdicts = <<>> /\ overall = "green"

----------------------------------------------------------------------------
Verdict(state, action, resulting) == [state |-> state, action |-> action, attempts |-> resulting]

(* Faulty variant: one restart too many. *)
OneMoreRestart(target, liveness, gate) ==
  CASE liveness = "aging"   -> Verdict("warn", "observe", 0)
    [] liveness = "healthy" -> Verdict("green", "observe", 0)
    [] target = "opsd" /\ liveness \notin Healthy /\ ~gate ->
         Verdict("block", "quarantine", attempts[target])
    [] OTHER -> IF attempts[target] > MaxRestartAttemptsBeforeQuarantine
                THEN Verdict("block", "quarantine", attempts[target] + 1)
                ELSE Verdict("restrict", "restart", attempts[target] + 1)

(* evaluate_observation; gate is recovering_gate_supported. *)
EvaluateObservation(target, liveness, gate) ==
  CASE liveness = "aging"   -> Verdict("warn", "observe", 0)
    [] liveness = "healthy" -> Verdict("green", "observe", 0)
    [] target = "opsd" /\ liveness \notin Healthy /\ ~gate ->
         Verdict("block", "quarantine", attempts[target])
    [] OTHER -> IF attempts[target] + 1 > MaxRestartAttemptsBeforeQuarantine
                THEN Verdict("block", "quarantine", attempts[target] + 1)
                ELSE Verdict("restrict", "restart", attempts[target] + 1)

(* max_state over the reports *)
WorstState(states) == CHOOSE s \in states : \A u \in states : Rank[u] <= Rank[s]

(* What a bundle may say of one target, in order. *)
Sightings == UNION {[1..n -> Liveness] : n \in 1..MaxSightings}
Final(seen) == seen[Len(seen)]

(* evaluate_supervision_bundle, and the feedback of its reports. *)
EvaluateBundle(observed, seen, gate) ==
  LET reports == [t \in observed |-> [n \in DOMAIN seen[t] |-> EvaluateObservation(t, seen[t][n], gate)]]
      Asks(t) == \E n \in DOMAIN seen[t] : reports[t][n].action = "restart"
  IN  /\ \A t \in observed : Final(reports[t]).attempts <= MaxAttempts
      /\ verdicts' = reports
      /\ overall' = WorstState(UNION {{reports[t][n].state : n \in DOMAIN seen[t]} : t \in observed})
      /\ attempts' = [t \in Targets |-> IF t \in observed THEN Final(reports[t]).attempts ELSE attempts[t]]
      /\ restarts' = [t \in Targets |->
                        IF t \notin observed THEN restarts[t]
                        ELSE IF Final(seen[t]) \in Healthy THEN 0
                        ELSE IF Asks(t) THEN restarts[t] + 1 ELSE restarts[t]]

(* A bundle without observations asks for nothing, and blocks. *)
EvaluateEmptyBundle ==
  verdicts' = <<>> /\ overall' = "block" /\ UNCHANGED <<attempts, restarts>>

SupervisionNext ==
  \/ EvaluateEmptyBundle
  \/ \E observed \in (SUBSET Targets) \ {{}}, gate \in BOOLEAN :
       \E seen \in [observed -> Sightings] : EvaluateBundle(observed, seen, gate)

SupervisionSpec == SupervisionInit /\ [][SupervisionNext]_supervisionVars

----------------------------------------------------------------------------
(* Types, and the aggregate: a report is as bad as the worst of its targets,
   and blocks whenever a target is quarantined. *)
SupervisionTypeOK ==
  /\ attempts \in [Targets -> 0..MaxAttempts] /\ overall \in DOMAIN Rank
  /\ \A t \in DOMAIN verdicts : \A n \in DOMAIN verdicts[t] :
       /\ Rank[verdicts[t][n].state] <= Rank[overall]
       /\ verdicts[t][n].action = "quarantine" => overall = "block"

(* Between two healthy observations at most two bundles ask for a target's restart,
   with any number of refusals for want of the recovering gate in between, and
   however often a bundle names the target. *)
RestartsAreBounded == \A t \in Targets : restarts[t] <= MaxRestartAttemptsBeforeQuarantine

(* A refusal for want of the gate spends none of opsd's attempts: whatever
   was counted before, only a restart or a real escalation adds to it. *)
CountsTellRestarts == \A t \in Targets : restarts[t] <= attempts[t]
                        /\ (attempts[t] <= MaxRestartAttemptsBeforeQuarantine => attempts[t] = restarts[t])

(* The count a report carries tells the restarts asked for, and bounds them. *)
RestartsAreCounted == RestartsAreBounded /\ CountsTellRestarts
=============================================================================
