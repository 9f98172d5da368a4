------------------------ MODULE BrokerMutationEngine ------------------------
(***************************************************************************)
(* rust/opsd/src/broker.rs: the governed broker mutation engine of opsd.   *)
(*                                                                         *)
(* The engine keeps one durable record per order-intent identity, the map  *)
(* from broker order ids back to the intent that allocated them, and two   *)
(* append-only logs: the retained mutation artifacts and the receipts of   *)
(* the broker's callbacks.  Strategy submits, operator controls and broker *)
(* callbacks arrive in any order, any of them may be repeated, and a       *)
(* request may reuse the identity of any earlier one.                      *)
(*                                                                         *)
(* A request the code answers with an error changes no state, so it is a   *)
(* stuttering step here.  Broker order ids ("<adapter>-order-0001") are    *)
(* their sequence numbers; the trace and manifest ids that only decorate   *)
(* an artifact are left out.                                               *)
(***************************************************************************)
EXTENDS Naturals, Sequences, TLC

CONSTANTS
  Intents,          \* order-intent identities (their deterministic ids)
  CallbackIds,      \* callback ids the broker puts on its events
  OrderRequests,    \* shapes of submit request: order type, TIF and contract
  SupportedRequests,         \* the shapes the descriptor and contract admit
  ModifyCancelSupported,     \* descriptor.modify_cancel_supported
  FlattenSupported,          \* descriptor.flatten_supported
  NoIntent, NoRecord,        \* absent entries of the two maps
  MaxOrders,        \* bound: broker order ids a behaviour allocates
  MaxArtifacts,     \* bound: artifacts a behaviour retains
  MaxCallbacks      \* bound: callbacks a behaviour records

ASSUME EngineAssumption ==
  /\ MaxOrders \in Nat /\ MaxArtifacts \in Nat /\ MaxCallbacks \in Nat
  /\ NoIntent \notin Intents
  /\ SupportedRequests \subseteq OrderRequests
  /\ ModifyCancelSupported \in BOOLEAN /\ FlattenSupported \in BOOLEAN

OrderIds == 1..MaxOrders
MutationKinds == {"submit", "cancel", "flatten"}
CallbackKinds == {"acknowledged", "fill", "cancelled"}

IntentRecord == [orders  : SUBSET OrderIds,
                 ack     : {"unknown", "pending", "acknowledged"},
                 fills   : SUBSET CallbackIds,
                 open    : BOOLEAN,
                 control : BOOLEAN]

ASSUME RecordAssumption == NoRecord \notin IntentRecord

VARIABLES
  intentRecords,        \* intent -> its durable record, or NoRecord
  brokerOrderToIntent,  \* broker order id -> owning intent, or NoIntent
  artifacts,            \* retained mutation artifacts, oldest first
  callbackLog,          \* receipts of processed callbacks, oldest first
  nextBrokerOrder       \* next broker order sequence number

engineVars ==
  <<intentRecords, brokerOrderToIntent, artifacts, callbackLog, nextBrokerOrder>>

Artifact == [kind : MutationKinds, intent : Intents,
             orders : SUBSET OrderIds, control : BOOLEAN]

Receipt == [order : OrderIds, intent : Intents, id : CallbackIds,
            kind : CallbackKinds, deduplicated : BOOLEAN]

EngineInit ==
  /\ intentRecords = [i \in Intents |-> NoRecord]
  /\ brokerOrderToIntent = [o \in OrderIds |-> NoIntent]
  /\ artifacts = <<>>
  /\ callbackLog = <<>>
  /\ nextBrokerOrder = 1

----------------------------------------------------------------------------
Recorded(i) == intentRecords[i] # NoRecord

(* The records active_open_order_ids collects from: open, and not themselves
   the record of a control. *)
Working(i) ==
  Recorded(i) /\ intentRecords[i].open /\ ~intentRecords[i].control

ActiveOpenOrderIds == UNION {intentRecords[i].orders : i \in {j \in Intents : Working(j)}}

NewRecord(orders, isControl) ==
  [orders |-> orders, ack |-> "pending", fills |-> {},
   open |-> ~isControl, control |-> isControl]

RetainArtifact(kind, i, orders, isControl) ==
  /\ Len(artifacts) < MaxArtifacts
  /\ artifacts' = Append(artifacts, [kind |-> kind, intent |-> i,
                                     orders |-> orders, control |-> isControl])

(* Faulty variants of the definitions below, each the trace of a plausible slip
   in broker.rs, show that the properties notice it. *)
AllocatesWithoutAdvancing(i) ==
  /\ nextBrokerOrder <= MaxOrders
  /\ brokerOrderToIntent' = [brokerOrderToIntent EXCEPT ![nextBrokerOrder] = i]
  /\ UNCHANGED nextBrokerOrder

AllocatesUnmapped(i) ==
  /\ nextBrokerOrder <= MaxOrders
  /\ nextBrokerOrder' = nextBrokerOrder + 1
  /\ UNCHANGED brokerOrderToIntent

(* Allocating a broker order id also enters it in the reverse map. *)
AllocateBrokerOrder(i) ==
  /\ nextBrokerOrder <= MaxOrders
  /\ nextBrokerOrder' = nextBrokerOrder + 1
  /\ brokerOrderToIntent' = [brokerOrderToIntent EXCEPT ![nextBrokerOrder] = i]

ReplaysCurrentOrders(kind, i, isControl) ==
  /\ Recorded(i)
  /\ RetainArtifact(kind, i, IF kind = "cancel" THEN ActiveOpenOrderIds ELSE intentRecords[i].orders,
                    isControl)
  /\ UNCHANGED <<intentRecords, brokerOrderToIntent, callbackLog, nextBrokerOrder>>

ReplaysAsNew(kind, i, isControl) ==
  /\ Recorded(i)
  /\ intentRecords' = [intentRecords EXCEPT ![i] = NewRecord(intentRecords[i].orders, isControl)]
  /\ RetainArtifact(kind, i, intentRecords[i].orders, isControl)
  /\ UNCHANGED <<brokerOrderToIntent, callbackLog, nextBrokerOrder>>

(* A repeated identity is answered from its record whatever the request asks:
   neither the kind of the mutation nor the shape of the order is compared. *)
IdempotentReplay(kind, i, isControl) ==
  /\ Recorded(i)
  /\ RetainArtifact(kind, i, intentRecords[i].orders, isControl)
  /\ UNCHANGED <<intentRecords, brokerOrderToIntent, callbackLog, nextBrokerOrder>>

ValidateSubmitRequest(request) == request \in SupportedRequests

SubmitOrderIntent(i, request) ==
  /\ ValidateSubmitRequest(request)
  /\ \/ IdempotentReplay("submit", i, FALSE)
     \/ /\ ~Recorded(i)
        /\ AllocateBrokerOrder(i)
        /\ intentRecords' = [intentRecords EXCEPT ![i] = NewRecord({nextBrokerOrder}, FALSE)]
        /\ RetainArtifact("submit", i, {nextBrokerOrder}, FALSE)
        /\ UNCHANGED callbackLog

CancelsAcknowledgedOnly(i) ==
  LET sweptBy(j) == Working(j) /\ intentRecords[j].ack = "acknowledged"
  IN  /\ ModifyCancelSupported
      /\ \/ IdempotentReplay("cancel", i, TRUE)
         \/ /\ ~Recorded(i)
            /\ intentRecords' =
                 [j \in Intents |->
                    IF j = i THEN NewRecord(ActiveOpenOrderIds, TRUE)
                    ELSE IF sweptBy(j) THEN [intentRecords[j] EXCEPT !.open = FALSE]
                         ELSE intentRecords[j]]
            /\ RetainArtifact("cancel", i, ActiveOpenOrderIds, TRUE)
            /\ UNCHANGED <<brokerOrderToIntent, callbackLog, nextBrokerOrder>>

(* cancel_open_orders closes, through the reverse map, every working order. *)
CancelOpenOrders(i) ==
  LET swept == {brokerOrderToIntent[o] : o \in ActiveOpenOrderIds}
  IN  /\ ModifyCancelSupported
      /\ \/ IdempotentReplay("cancel", i, TRUE)
         \/ /\ ~Recorded(i)
            /\ intentRecords' =
                 [j \in Intents |->
                    IF j = i THEN NewRecord(ActiveOpenOrderIds, TRUE)
                    ELSE IF j \in swept /\ Recorded(j)
                         THEN [intentRecords[j] EXCEPT !.open = FALSE]
                         ELSE intentRecords[j]]
            /\ RetainArtifact("cancel", i, ActiveOpenOrderIds, TRUE)
            /\ UNCHANGED <<brokerOrderToIntent, callbackLog, nextBrokerOrder>>

(* flatten_positions allocates the flattening order; it leaves working orders
   alone. *)
FlattenPositions(i) ==
  /\ FlattenSupported
  /\ \/ IdempotentReplay("flatten", i, TRUE)
     \/ /\ ~Recorded(i)
        /\ AllocateBrokerOrder(i)
        /\ intentRecords' = [intentRecords EXCEPT ![i] = NewRecord({nextBrokerOrder}, TRUE)]
        /\ RetainArtifact("flatten", i, {nextBrokerOrder}, TRUE)
        /\ UNCHANGED callbackLog

----------------------------------------------------------------------------
(* What a callback of each kind does to the record of its order, and when
   the engine calls it a duplicate. *)
CallbackDuplicate(record, c, kind) ==
  CASE kind = "acknowledged" -> record.ack = "acknowledged"
    [] kind = "fill"         -> c \in record.fills
    [] kind = "cancelled"    -> ~record.open

AppliesWithoutRemembering(record, c, kind) ==
  [record EXCEPT !.open = @ /\ kind = "acknowledged",
                 !.ack = IF kind = "acknowledged" THEN "acknowledged" ELSE @]

CallbackApplied(record, c, kind) ==
  CASE kind = "acknowledged" -> [record EXCEPT !.ack = "acknowledged"]
    [] kind = "fill"         -> [record EXCEPT !.fills = @ \cup {c},
                                               !.open = @ /\ c \in record.fills]
    [] kind = "cancelled"    -> [record EXCEPT !.open = FALSE]

LogsUnknownOrders(o, c, kind) ==
  /\ Len(callbackLog) < MaxCallbacks
  /\ callbackLog' =
       Append(callbackLog, [order |-> o, intent |-> brokerOrderToIntent[o], id |-> c,
                            kind |-> kind, deduplicated |-> FALSE])
  /\ UNCHANGED <<intentRecords, brokerOrderToIntent, artifacts, nextBrokerOrder>>

RecordCallback(o, c, kind) ==
  LET i == brokerOrderToIntent[o]
  IN  /\ i # NoIntent                 \* else BROKER_ORDER_UNKNOWN
      /\ Recorded(i)                  \* else BROKER_ORDER_INTENT_MAPPING_CORRUPT
      /\ Len(callbackLog) < MaxCallbacks
      /\ intentRecords' = [intentRecords EXCEPT ![i] = CallbackApplied(@, c, kind)]
      /\ callbackLog' =
           Append(callbackLog,
                  [order |-> o, intent |-> i, id |-> c, kind |-> kind,
                   deduplicated |-> CallbackDuplicate(intentRecords[i], c, kind)])
      /\ UNCHANGED <<brokerOrderToIntent, artifacts, nextBrokerOrder>>

EngineNext ==
  \/ \E i \in Intents, request \in OrderRequests : SubmitOrderIntent(i, request)
  \/ \E i \in Intents : CancelOpenOrders(i)
  \/ \E i \in Intents : FlattenPositions(i)
  \/ \E o \in OrderIds, c \in CallbackIds, kind \in CallbackKinds : RecordCallback(o, c, kind)

EngineSpec == EngineInit /\ [][EngineNext]_engineVars

----------------------------------------------------------------------------
(* Type correctness of the engine's maps, logs and counter (struct
   BrokerMutationEngine). *)
EngineTypeOK ==
  /\ intentRecords \in [Intents -> IntentRecord \cup {NoRecord}]
  /\ brokerOrderToIntent \in [OrderIds -> Intents \cup {NoIntent}]
  /\ artifacts \in Seq(Artifact)
  /\ callbackLog \in Seq(Receipt)
  /\ nextBrokerOrder \in 1..(MaxOrders + 1)

(* An allocated order id leads to the intent whose record lists it, so
   record_callback never meets CorruptIntentMapping, and ids not yet handed
   out lead nowhere. *)
MappingNeverCorrupt ==
  \A o \in OrderIds :
    IF o < nextBrokerOrder
    THEN /\ brokerOrderToIntent[o] # NoIntent
         /\ Recorded(brokerOrderToIntent[o])
         /\ o \in intentRecords[brokerOrderToIntent[o]].orders
    ELSE brokerOrderToIntent[o] = NoIntent

(* The engine's state is well typed and its two maps agree. *)
EngineIsSound == EngineTypeOK /\ MappingNeverCorrupt

(* However often, in whatever order and with whatever kind an identity is
   retried, all the evidence retained for it names the same broker orders
   (the retry_before_ack_reuses_single_order_intent_mapping promise). *)
RetriesNameTheSameOrders ==
  \A m, n \in DOMAIN artifacts :
    artifacts[m].intent = artifacts[n].intent => artifacts[m].orders = artifacts[n].orders

(* Two different strategy intents never share a broker order, so a fill can be
   attributed to one of them only. *)
OrdersHaveOneStrategyIntent ==
  \A i, j \in Intents :
    (/\ i # j /\ Recorded(i) /\ Recorded(j)
     /\ ~intentRecords[i].control /\ ~intentRecords[j].control)
    => intentRecords[i].orders \cap intentRecords[j].orders = {}

(* Under redelivery in any order, a callback id fills an order at most once:
   no two receipts of the same fill are both reported as applied. *)
FillAppliedOnce ==
  \A m, n \in DOMAIN callbackLog :
    (/\ m # n
     /\ callbackLog[m].kind = "fill" /\ callbackLog[n].kind = "fill"
     /\ callbackLog[m].order = callbackLog[n].order
     /\ callbackLog[m].id = callbackLog[n].id)
    => callbackLog[m].deduplicated \/ callbackLog[n].deduplicated

(* An order that was filled, cancelled or swept never counts as working again,
   whatever retries or late callbacks arrive after it. *)
ClosedStayClosed ==
  \A o \in OrderIds :
    o < nextBrokerOrder /\ o \notin ActiveOpenOrderIds => o \notin ActiveOpenOrderIds'

OrdersNeverReopen == [][ClosedStayClosed]_engineVars

(* Seen through its order ids alone, the engine is the abstract order book of
   BrokerOrders: retries, controls and duplicate callbacks are all stutters,
   placements or stops of it. *)
OrderPhase ==
  [o \in OrderIds |->
     IF o >= nextBrokerOrder THEN "unallocated"
     ELSE IF o \in ActiveOpenOrderIds THEN "working" ELSE "inactive"]

Abstract == INSTANCE BrokerOrders WITH owner <- brokerOrderToIntent, phase <- OrderPhase

ImplementsBrokerOrders == Abstract!OrdersSpec

(* A first cancel_open_orders leaves no working order behind, and the evidence
   it retains names exactly the orders that were working. *)
CancelSweeps ==
  \A i \in Intents :
    (/\ ~Recorded(i) /\ Recorded(i)'
     /\ artifacts'[Len(artifacts')].kind = "cancel")
    => /\ ActiveOpenOrderIds' = {}
       /\ artifacts'[Len(artifacts')].orders = ActiveOpenOrderIds

FreshCancelSweepsAll == [][CancelSweeps]_engineVars

(* Identities are compared and nothing else, and so are callback ids: TLC may
   take states that differ in their names only for one. *)
Symmetry == Permutations(Intents) \cup Permutations(CallbackIds)
=============================================================================
