--------------------------- MODULE GuardianEmergency ---------------------------
(***************************************************************************)
(* guardian/src/emergency.rs: the out-of-band control process.  Its only   *)
(* state is the set of emergencies it has executed, kept in memory: a      *)
(* process that starts again starts with none.                             *)
(***************************************************************************)
EXTENDS Integers, GateChain

CONSTANTS
  Deployments, Incidents,   \* what an emergency is about
  MaxStarts                 \* how often the process starts again

ASSUME GuardianAssumption == MaxStarts \in Nat

GuardianActions == {"cancel_all_open_orders", "flatten_all_positions"}
EmergencyFacts == {"authorized", "verified", "reachable", "high_priority_lane"}

(* What identifies an emergency: neither the request nor who asks. *)
ExecutionKeys == Deployments \X Incidents \X GuardianActions

VARIABLES
  executedKeys,   \* the keys this process has executed
  issued,         \* key -> how often the action went to the broker, over all processes
  starts,         \* how often the process started again
  lastEvidence    \* the last evidence: its key and its disposition

guardianVars == <<executedKeys, issued, starts, lastEvidence>>

GuardianInit ==
  /\ executedKeys = {} /\ issued = [k \in ExecutionKeys |-> 0] /\ starts = 0
  /\ lastEvidence = [key |-> <<>>, disposition |-> "none"]

(* The refusals, before any trace of the request is kept. *)
RefusalGates(facts) ==
  <<Gate("authorized" \notin facts, "rejected"),
    Gate("verified" \notin facts \/ "reachable" \notin facts, "rejected"),
    Gate("high_priority_lane" \notin facts, "rejected")>>

(* Faulty variant: the request remembered before it is refused. *)
RemembersRefused(key, facts) ==
  LET disposition == FirstClosed(RefusalGates(facts),
                                 IF key \in executedKeys THEN "suppressed_duplicate" ELSE "executed")
  IN  /\ executedKeys' = executedKeys \cup {key}
      /\ issued' = IF disposition = "executed" THEN [issued EXCEPT ![key] = @ + 1] ELSE issued
      /\ lastEvidence' = [key |-> key, disposition |-> disposition]
      /\ UNCHANGED starts

(* EmergencyController::execute *)
Execute(key, facts) ==
  LET disposition == FirstClosed(RefusalGates(facts),
                                 IF key \in executedKeys THEN "suppressed_duplicate" ELSE "executed")
  IN  /\ executedKeys' = IF disposition = "executed" THEN executedKeys \cup {key} ELSE executedKeys
      /\ issued' = IF disposition = "executed" THEN [issued EXCEPT ![key] = @ + 1] ELSE issued
      /\ lastEvidence' = [key |-> key, disposition |-> disposition]
      /\ UNCHANGED starts

(* EmergencyController::new, in a process that starts again *)
StartAgain ==
  /\ starts < MaxStarts
  /\ starts' = starts + 1 /\ executedKeys' = {}
  /\ lastEvidence' = [key |-> <<>>, disposition |-> "none"]
  /\ UNCHANGED issued

GuardianNext ==
  \/ \E key \in ExecutionKeys, facts \in SUBSET EmergencyFacts : Execute(key, facts)
  \/ StartAgain

GuardianSpec == GuardianInit /\ [][GuardianNext]_guardianVars

----------------------------------------------------------------------------
GuardianTypeOK ==
  /\ executedKeys \subseteq ExecutionKeys /\ issued \in [ExecutionKeys -> Nat] /\ starts \in Nat

(* An emergency goes to the broker at most once in the life of a process, whoever
   asks and however often, and an emergency that has not gone to it in this life
   has gone at most once for each life before. *)
IssuedOncePerLife ==
  \A k \in ExecutionKeys : issued[k] <= IF k \in executedKeys THEN starts + 1 ELSE starts

(* A duplicate is suppressed only of what the broker was given, so a request that
   was refused before, for want of a token or of proof, can still be executed. *)
SuppressedWasIssued ==
  /\ \A k \in executedKeys : issued[k] >= 1
  /\ lastEvidence.disposition = "suppressed_duplicate" => lastEvidence.key \in executedKeys

EmergenciesAreIssuedOnce == IssuedOncePerLife /\ SuppressedWasIssued

=============================================================================
