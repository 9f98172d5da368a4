----------------------------- MODULE OpsdRuntime -----------------------------
(***************************************************************************)
(* rust/opsd/src/runtime.rs: the paths of OpsdRuntime that move messages.  *)
(* A broker mutation first changes the engine, durably, and only then is   *)
(* dispatched to the broker's mailbox; when the lane is full the caller    *)
(* gets a Backpressure error, but the engine keeps what it did.  Operator  *)
(* controls for the other modules, health probes and reconciliation ticks  *)
(* share the same mailboxes.                                               *)
(*                                                                         *)
(* RuntimeMessage::broker_mutation is used by runtime.rs but defined in no *)
(* file of the repository; its target and priority are those the tests of  *)
(* runtime.rs expect of it.                                                *)
(***************************************************************************)
EXTENDS BrokerMutationEngine, BoundedMailboxes, Foundations, FiniteSets

CONSTANT MaxDispatches      \* bound: messages a behaviour dispatches

ASSUME RuntimeAssumption ==
  {"risk", "broker", "reconciliation"} \subseteq Modules /\ MaxDispatches \in Nat

VARIABLES
  dispatchLog,   \* dispatch receipts, oldest first
  drained        \* history: what each module has taken from its mailbox

runtimeVars == <<engineVars, mailboxes, dispatchLog, drained>>

(* Allowed_control_actions of each module boundary. *)
AllowedControlActions(t) ==
  CASE t = "risk"           -> {"halt_new_orders", "assert_kill_switch"}
    [] t = "broker"         -> {"cancel_open_orders", "flatten_positions"}
    [] t = "reconciliation" -> {"mark_session_not_ready", "publish_session_readiness_packet"}
    [] OTHER                -> {}

ControlActions == UNION {AllowedControlActions(t) : t \in {"risk", "broker", "reconciliation"}}
MessageKinds == ControlActions \cup MutationKinds \cup {"health_probe", "reconciliation_tick"}

(* Call 0 stands for the messages that carry no broker mutation; a mutation is
   named after the artifact its call retained. *)
Message(target, priority, kind, call) ==
  [target |-> target, priority |-> priority, kind |-> kind, call |-> call]

ControlAction(t, action) ==
  Message(t, IF action \in {"halt_new_orders", "assert_kill_switch"} THEN "standard" ELSE "high",
          action, 0)

HealthProbe(t) == Message(t, "standard", "health_probe", 0)
ReconciliationTick == Message("reconciliation", "high", "reconciliation_tick", 0)

BrokerMutation(kind) ==
  Message("broker", IF kind = "submit" THEN "standard" ELSE "high", kind, Len(artifacts) + 1)

RuntimeInit ==
  /\ EngineInit
  /\ MailboxInit
  /\ dispatchLog = <<>>
  /\ drained = [t \in Modules |-> <<>>]

----------------------------------------------------------------------------
(* Faulty variant: an attempt is logged before its mailbox answers. *)
LogsEveryAttempt(m) ==
  /\ Accept(m) \/ Refuse(m)
  /\ Len(dispatchLog) < MaxDispatches
  /\ dispatchLog' = Append(dispatchLog, m)
  /\ UNCHANGED drained

(* dispatch_message logs the messages a mailbox accepts and no other. *)
DispatchMessage(m) ==
  /\ \/ /\ Accept(m)
        /\ Len(dispatchLog) < MaxDispatches
        /\ dispatchLog' = Append(dispatchLog, m)
     \/ Refuse(m) /\ UNCHANGED dispatchLog
  /\ UNCHANGED drained

(* Faulty variant: a broker control dispatched without the engine. *)
RelaysOperatorControl(t, action) ==
  /\ action \in AllowedControlActions(t)
  /\ DispatchMessage(ControlAction(t, action))
  /\ UNCHANGED engineVars

(* submit_order_intent: the engine's decision, then its message. *)
RuntimeSubmit(i, request) ==
  SubmitOrderIntent(i, request) /\ DispatchMessage(BrokerMutation("submit"))

(* handle_broker_control_request. *)
RuntimeCancel(i) == CancelOpenOrders(i) /\ DispatchMessage(BrokerMutation("cancel"))
RuntimeFlatten(i) == FlattenPositions(i) /\ DispatchMessage(BrokerMutation("flatten"))

(* record_broker_callback sends no message. *)
RecordBrokerCallback(o, c, kind) ==
  RecordCallback(o, c, kind) /\ UNCHANGED <<mailboxes, dispatchLog, drained>>

(* handle_operator_request turns broker controls away to the governed path. *)
HandleOperatorRequest(t, action) ==
  /\ t # "broker"                          \* else BrokerControlRequiresGoverned...
  /\ action \in AllowedControlActions(t)   \* else UnauthorizedControlAction
  /\ DispatchMessage(ControlAction(t, action))
  /\ UNCHANGED engineVars

EnqueueHealthProbe(t) == DispatchMessage(HealthProbe(t)) /\ UNCHANGED engineVars

PublishReconciliationTick == DispatchMessage(ReconciliationTick) /\ UNCHANGED engineVars

DrainNext(t) ==
  /\ PopNext(t)
  /\ drained' = [drained EXCEPT ![t] = Append(@, Head(Lane(t, NextLane(t))))]
  /\ UNCHANGED <<engineVars, dispatchLog>>

RuntimeNext ==
  \/ \E i \in Intents, request \in OrderRequests : RuntimeSubmit(i, request)
  \/ \E i \in Intents : RuntimeCancel(i)
  \/ \E i \in Intents : RuntimeFlatten(i)
  \/ \E o \in OrderIds, c \in CallbackIds, kind \in CallbackKinds : RecordBrokerCallback(o, c, kind)
  \/ \E t \in Modules, action \in ControlActions : HandleOperatorRequest(t, action)
  \/ \E t \in Modules : EnqueueHealthProbe(t)
  \/ PublishReconciliationTick
  \/ \E t \in Modules : DrainNext(t)

RuntimeSpec == RuntimeInit /\ [][RuntimeNext]_runtimeVars

----------------------------------------------------------------------------
Messages ==
  [target : Modules, priority : Lanes, kind : MessageKinds, call : 0..MaxArtifacts]

(* Types of the runtime's logs; no lane outgrows its capacity (struct
   OpsdRuntime). *)
RuntimeTypeOK ==
  /\ dispatchLog \in Seq(Messages)
  /\ \A t \in Modules :
       /\ drained[t] \in Seq(Messages)
       /\ \A lane \in Lanes :
            Lane(t, lane) \in Seq(Messages) /\ Len(Lane(t, lane)) <= Capacity(t, lane)
       /\ mailboxes[t].rejected \in 0..MaxRejected

OfLane(messages, lane) == Picked(messages, {n \in DOMAIN messages : messages[n].priority = lane})
AcceptedIn(t, lane) ==
  Picked(dispatchLog,
         {n \in DOMAIN dispatchLog : dispatchLog[n].target = t /\ dispatchLog[n].priority = lane})

(* Every accepted message is drained at most once, in the order its lane
   accepted it, and until then it is queued: the dispatch log is exactly what
   each lane has delivered followed by what it still holds. *)
LanesAreLosslessFifo ==
  \A t \in Modules, lane \in Lanes :
    AcceptedIn(t, lane) = OfLane(drained[t], lane) \o Lane(t, lane)

(* Lanes are within their bounds, lossless and ordered. *)
LanesAreSound == RuntimeTypeOK /\ LanesAreLosslessFifo

(* Whatever is sent, refused and drained, and whatever the engine decides in
   between, the queues keep the promise of PriorityMailboxes: seen through the
   log of dispatches and the histories of what was drained, every step of the
   runtime accepts, turns away or hands over at most one message, by its rules
   (the lanes of struct BoundedMailbox are bounded, and drained, apart). *)
AcceptedPerLane == [t \in Modules |-> [lane \in Lanes |-> AcceptedIn(t, lane)]]
TakenPerLane == [t \in Modules |-> [lane \in Lanes |-> Len(OfLane(drained[t], lane))]]
RefusedPerModule == [t \in Modules |-> mailboxes[t].rejected]

Promised == INSTANCE PriorityMailboxes
              WITH accepted <- AcceptedPerLane, taken <- TakenPerLane,
                   received <- drained, refusals <- RefusedPerModule

KeepsThePromise == Promised!PromiseSpec

(* Nothing reaches the broker's mailbox but probes and mutations the engine
   made durable first: the artifact is retained under the message's kind and
   its intent has a record (Plan_1.md, 10.10: persisted before or atomically
   with the submission attempt). *)
BrokerMessagesAreGoverned ==
  \A n \in DOMAIN dispatchLog :
    LET m == dispatchLog[n]
    IN  m.target = "broker" /\ m.kind # "health_probe" =>
          /\ m.call \in DOMAIN artifacts
          /\ artifacts[m.call].kind = m.kind
          /\ Recorded(artifacts[m.call].intent)

DispatchedCalls == {dispatchLog[n].call : n \in DOMAIN dispatchLog} \ {0}

(* A mutation the engine made but the broker's mailbox did not accept was
   refused to its caller: refusals account for every undelivered artifact. *)
UndeliveredMutationsWereRefused ==
  Cardinality(DOMAIN artifacts \ DispatchedCalls) <= mailboxes["broker"].rejected

(* Ordinary traffic never costs an operator a broker control: a cancel or
   flatten the engine made is refused only by a lane full of other control
   messages, and no ordinary message is drained ahead of one. *)
RefusedControl ==
  artifacts' # artifacts /\ dispatchLog' = dispatchLog /\ Last(artifacts').kind # "submit"

DrainedOrdinary(t) == drained'[t] # drained[t] /\ Last(drained'[t]).priority = "standard"

ControlIsReserved ==
  [][/\ RefusedControl => /\ Len(Lane("broker", "high")) = HighCapacity["broker"]
                         /\ \A m \in Range(Lane("broker", "high")) : m.kind \in {"cancel", "flatten"}
     /\ \A t \in Modules : DrainedOrdinary(t) => Lane(t, "high") = <<>>]_runtimeVars

(* Whatever the mailboxes do, the engine inside the runtime is the engine:
   dispatch failures never undo or corrupt what it recorded. *)
EngineUndisturbed == EngineSpec

(* An order drops out of active_open_order_ids because the broker reported on
   it, or because a cancel that names it was accepted for delivery. *)
InactiveOrdersWereClosed ==
  \A i \in Intents :
    Recorded(i) /\ ~intentRecords[i].control /\ ~intentRecords[i].open =>
      \A o \in intentRecords[i].orders :
        \/ \E n \in DOMAIN callbackLog :
             callbackLog[n].order = o /\ callbackLog[n].kind \in {"fill", "cancelled"}
        \/ \E call \in DispatchedCalls :
             artifacts[call].kind = "cancel" /\ o \in artifacts[call].orders
=============================================================================
