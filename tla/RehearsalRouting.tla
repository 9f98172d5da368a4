-------------------------- MODULE RehearsalRouting --------------------------
(***************************************************************************)
(* rust/opsd/src/route_mode.rs: where a rehearsed broker mutation goes:     *)
(* the paper adapter, a suppression sink, or nowhere.  evaluate_route_mode  *)
(* is pure; the adapter and the sink that act on its report are outside     *)
(* src/, so what they retain is modelled from the report's flags: a paper   *)
(* receipt, a suppression receipt, or the reuse of an earlier one.          *)
(***************************************************************************)
EXTENDS Integers, SequencesExt, GateChain

CONSTANTS
  Intents,     \* order intents rehearsed
  MaxRecords   \* bound: receipts of one kind for one intent

ASSUME RoutingAssumption == MaxRecords \in Nat

Modes == {"paper", "shadow_live", "live_adjacent_rehearsal"}
Actions == {"submit_order_intent", "cancel_open_orders", "flatten_positions"}

(* What a request says of its surroundings: the favourable facts. *)
Facts == {"session_tradeable", "readiness_green", "risk_allows", "paper_adapter",
          "sink", "broker_connected"}

VARIABLES
  paperReceipts,    \* intent -> paper receipts retained
  shadowReceipts,   \* intent -> suppression receipts of the two shadow modes
  fallbackReceipts  \* intent -> suppression receipts of the paper mode

routingVars == <<paperReceipts, shadowReceipts, fallbackReceipts>>

NoReceipts == [i \in Intents |-> 0]

RoutingInit ==
  paperReceipts = NoReceipts /\ shadowReceipts = NoReceipts /\ fallbackReceipts = NoReceipts

----------------------------------------------------------------------------
(* The sink recognises an intent it holds a suppression receipt of: what
   duplicate_suppression_detected reports. *)
DuplicateDetected(intent) == shadowReceipts[intent] + fallbackReceipts[intent] > 0

CommonGates(action, facts) ==
  << Gate("session_tradeable" \notin facts, "blocked"),
     Gate("readiness_green" \notin facts, "blocked"),
     Gate(action = "submit_order_intent" /\ "risk_allows" \notin facts, "blocked") >>

ModeGates(mode, intent, facts) ==
  IF mode = "paper"
  THEN << Gate("paper_adapter" \in facts, "paper"), Gate("sink" \in facts, "fallback") >>
  ELSE << Gate("broker_connected" \notin facts, "blocked"),
          Gate("sink" \notin facts, "blocked"),
          Gate(DuplicateDetected(intent), "reused") >>

ModeOutcome(mode, intent, facts) ==
  FirstClosed(ModeGates(mode, intent, facts), IF mode = "paper" THEN "blocked" ELSE "shadow")

(* Faulty variant: a repeated intent recorded anew. *)
RecordsRepeats(mode, action, intent, facts) ==
  LET outcome == FirstClosed(CommonGates(action, facts), ModeOutcome(mode, intent, facts))
  IN  IF outcome = "reused" THEN "shadow" ELSE outcome

(* evaluate_route_mode.  "paper" records a paper mutation, "fallback" and
   "shadow" a suppression, "reused" reports a duplicate prevented. *)
EvaluateRouteMode(mode, action, intent, facts) ==
  FirstClosed(CommonGates(action, facts), ModeOutcome(mode, intent, facts))

Retain(receipts, intent, outcome, kind) ==
  IF outcome = kind THEN [receipts EXCEPT ![intent] = @ + 1] ELSE receipts

(* One evaluation, and the receipt its report calls for. *)
Route(mode, action, intent, facts) ==
  LET outcome == EvaluateRouteMode(mode, action, intent, facts)
  IN  /\ paperReceipts[intent] < MaxRecords /\ fallbackReceipts[intent] < MaxRecords
      /\ shadowReceipts[intent] < MaxRecords
      /\ paperReceipts' = Retain(paperReceipts, intent, outcome, "paper")
      /\ fallbackReceipts' = Retain(fallbackReceipts, intent, outcome, "fallback")
      /\ shadowReceipts' = Retain(shadowReceipts, intent, outcome, "shadow")

RoutingNext == \E mode \in Modes, action \in Actions, intent \in Intents, facts \in SUBSET Facts :
                 Route(mode, action, intent, facts)

RoutingSpec == RoutingInit /\ [][RoutingNext]_routingVars

----------------------------------------------------------------------------
(* Types of the retained evidence (RouteModeRequest's suppression sink). *)
RoutingTypeOK ==
  /\ paperReceipts \in [Intents -> 0..MaxRecords]
  /\ shadowReceipts \in [Intents -> 0..MaxRecords]
  /\ fallbackReceipts \in [Intents -> 0..MaxRecords]

(* What a rehearsal may add: a shadow receipt is the first suppression of its
   intent; however often it is rehearsed, and however the route mode changes in
   between, the shadow modes reuse what they or the paper fallback retained. *)
EvidenceReused ==
  \A i \in Intents : shadowReceipts'[i] # shadowReceipts[i] =>
    shadowReceipts[i] = 0 /\ fallbackReceipts[i] = 0

=============================================================================
