--------------------- MODULE BrokerMutationEngineProofs ---------------------
(***************************************************************************)
(* Theorems about the broker mutation engine, for any number of intents,   *)
(* orders, callbacks and retries.                                          *)
(*                                                                         *)
(* The properties are not inductive: whether a retry can name other orders *)
(* depends on what the artifacts say of the records, and whether a cancel  *)
(* sweeps everything on what the reverse map says of the open ones.        *)
(* EngineInv below relates the two maps and the two logs; everything else  *)
(* follows from it.                                                        *)
(***************************************************************************)
EXTENDS BrokerMutationEngine, SequenceTheorems, TLAPS

(* Every record lists only order ids that were handed out, and one that is
   open belongs to the strategy, not to an operator control. *)
RecordsWellFormed ==
  \A i \in Intents : Recorded(i) =>
    /\ \A o \in intentRecords[i].orders : o < nextBrokerOrder
    /\ intentRecords[i].control => ~intentRecords[i].open

(* A strategy record owns its orders: the reverse map leads back to it. *)
StrategyOwnsOrders ==
  \A i \in Intents : Recorded(i) /\ ~intentRecords[i].control =>
    \A o \in intentRecords[i].orders : brokerOrderToIntent[o] = i

(* Retained evidence repeats the record of its intent. *)
ArtifactsMatchRecords ==
  \A n \in DOMAIN artifacts :
    /\ Recorded(artifacts[n].intent)
    /\ artifacts[n].orders = intentRecords[artifacts[n].intent].orders

(* A logged fill is remembered by the record its order leads to. *)
FillsRemembered ==
  \A n \in DOMAIN callbackLog : callbackLog[n].kind = "fill" =>
    /\ brokerOrderToIntent[callbackLog[n].order] = callbackLog[n].intent
    /\ Recorded(callbackLog[n].intent)
    /\ callbackLog[n].id \in intentRecords[callbackLog[n].intent].fills

EngineInv ==
  /\ EngineTypeOK
  /\ MappingNeverCorrupt
  /\ RecordsWellFormed
  /\ StrategyOwnsOrders
  /\ ArtifactsMatchRecords
  /\ FillsRemembered
  /\ FillAppliedOnce

----------------------------------------------------------------------------
(* What appending does to the entries of a log. *)
LEMMA AppendEntries ==
  ASSUME NEW S, NEW s \in Seq(S), NEW e \in S
  PROVE  /\ Append(s, e) \in Seq(S)
         /\ DOMAIN s = 1..Len(s) /\ Len(s) \in Nat
         /\ DOMAIN Append(s, e) = 1..(Len(s) + 1)
         /\ \A n \in DOMAIN s : Append(s, e)[n] = s[n] /\ s[n] \in S
         /\ Append(s, e)[Len(s) + 1] = e
  OBVIOUS

(* A record is never mistaken for the absence of one. *)
LEMMA RecordIsPresent ==
  ASSUME NEW r \in IntentRecord PROVE r # NoRecord
  BY RecordAssumption

(* An identity is recorded when its record is one, not the placeholder. *)
LEMMA RecordedType ==
  ASSUME EngineTypeOK, NEW i \in Intents
  PROVE  Recorded(i) <=> intentRecords[i] \in IntentRecord
  BY RecordIsPresent DEF EngineTypeOK, Recorded

(* What submit_order_intent and the controls file is of the type of records. *)
LEMMA NewRecordType ==
  ASSUME NEW orders \in SUBSET OrderIds, NEW b \in BOOLEAN
  PROVE  NewRecord(orders, b) \in IntentRecord
  BY DEF NewRecord, IntentRecord

(* What an artifact consists of. *)
LEMMA ArtifactFields ==
  ASSUME NEW a \in Artifact PROVE a.intent \in Intents
  BY DEF Artifact

(* What a receipt consists of. *)
LEMMA ReceiptFields ==
  ASSUME NEW r \in Receipt PROVE r.order \in OrderIds /\ r.intent \in Intents
  BY DEF Receipt

(* What a record consists of. *)
LEMMA RecordFields ==
  ASSUME EngineTypeOK, NEW i \in Intents, Recorded(i)
  PROVE  /\ intentRecords[i] \in IntentRecord
         /\ intentRecords[i].orders \subseteq OrderIds
         /\ intentRecords[i].fills \subseteq CallbackIds
         /\ intentRecords[i].open \in BOOLEAN /\ intentRecords[i].control \in BOOLEAN
<1>1. intentRecords[i] \in IntentRecord  BY RecordedType
<1> QED  BY <1>1 DEF IntentRecord

(* What a callback may do to the record it finds. *)
LEMMA CallbackAppliedFacts ==
  ASSUME NEW q \in IntentRecord, NEW c \in CallbackIds, NEW kind \in CallbackKinds
  PROVE  /\ CallbackApplied(q, c, kind) \in IntentRecord
         /\ CallbackApplied(q, c, kind).orders = q.orders
         /\ CallbackApplied(q, c, kind).control = q.control
         /\ q.fills \subseteq CallbackApplied(q, c, kind).fills
         /\ CallbackApplied(q, c, kind).open => q.open
         /\ kind = "fill" => c \in CallbackApplied(q, c, kind).fills
         /\ CallbackDuplicate(q, c, kind) \in BOOLEAN
<1>1. CASE kind = "acknowledged"
  <2>1. /\ CallbackApplied(q, c, kind) = [q EXCEPT !.ack = "acknowledged"]
        /\ CallbackDuplicate(q, c, kind) = (q.ack = "acknowledged")
    BY <1>1 DEF CallbackApplied, CallbackDuplicate
  <2> QED  BY <1>1, <2>1 DEF IntentRecord
<1>2. CASE kind = "fill"
  <2> DEFINE fills == q.fills \cup {c}
             open == q.open /\ c \in q.fills
  <2>1. /\ CallbackApplied(q, c, kind) = [q EXCEPT !.fills = fills, !.open = open]
        /\ CallbackDuplicate(q, c, kind) = (c \in q.fills)
    BY <1>2 DEF CallbackApplied, CallbackDuplicate
  <2>2. /\ fills \in SUBSET CallbackIds /\ q.fills \subseteq fills /\ c \in fills
        /\ open \in BOOLEAN /\ (open => q.open)
    BY DEF IntentRecord
  <2>3. CallbackDuplicate(q, c, kind) \in BOOLEAN  BY <2>1
  <2> HIDE DEF fills, open
  <2> QED  BY <2>1, <2>2, <2>3 DEF IntentRecord
<1>3. CASE kind = "cancelled"
  <2>1. /\ CallbackApplied(q, c, kind) = [q EXCEPT !.open = FALSE]
        /\ CallbackDuplicate(q, c, kind) = ~q.open
    BY <1>3 DEF CallbackApplied, CallbackDuplicate
  <2> QED  BY <1>3, <2>1 DEF IntentRecord
<1> QED  BY <1>1, <1>2, <1>3 DEF CallbackKinds

(* What is reported as working are order ids. *)
LEMMA ActiveAreOrders ==
  ASSUME EngineTypeOK
  PROVE  ActiveOpenOrderIds \in SUBSET OrderIds
  BY RecordedType DEF ActiveOpenOrderIds, Working, IntentRecord

(* What retaining an artifact for a record does to the evidence, when no
   record that the evidence cites changes its orders. *)
LEMMA RetainedMatches ==
  ASSUME EngineInv, EngineTypeOK',
         NEW kind \in MutationKinds, NEW i \in Intents,
         NEW orders \in SUBSET OrderIds, NEW b \in BOOLEAN,
         RetainArtifact(kind, i, orders, b),
         Recorded(i)', intentRecords'[i].orders = orders,
         \A j \in Intents : Recorded(j) =>
           Recorded(j)' /\ intentRecords'[j].orders = intentRecords[j].orders
  PROVE  ArtifactsMatchRecords'
<1> DEFINE a == [kind |-> kind, intent |-> i, orders |-> orders, control |-> b]
<1>1. a \in Artifact /\ artifacts \in Seq(Artifact) /\ artifacts' = Append(artifacts, a)
  BY DEF Artifact, EngineInv, EngineTypeOK, RetainArtifact
<1>2. ASSUME NEW n \in DOMAIN artifacts'
      PROVE  /\ Recorded(artifacts[n].intent)'
             /\ artifacts'[n].orders = intentRecords'[artifacts'[n].intent].orders
  <2>1. CASE n \in DOMAIN artifacts
    <3>1. artifacts'[n] = artifacts[n] /\ artifacts[n] \in Artifact
      <4> HIDE DEF a
      <4> QED  BY <1>1, <2>1, AppendEntries
    <3>2. /\ Recorded(artifacts[n].intent)
          /\ artifacts[n].orders = intentRecords[artifacts[n].intent].orders
      BY <2>1 DEF EngineInv, ArtifactsMatchRecords
    <3>3. artifacts[n].intent \in Intents  BY <3>1, ArtifactFields
    <3> QED  BY <3>1, <3>2, <3>3 DEF Recorded
  <2>2. CASE n = Len(artifacts) + 1
    <3>1. artifacts'[n] = a  BY <1>1, <2>2, AppendEntries
    <3> QED  BY <3>1 DEF Recorded
  <2> QED  BY <1>1, <2>1, <2>2, AppendEntries
<1> QED  BY <1>2 DEF ArtifactsMatchRecords, Recorded

(* Retained artifacts are typed. *)
LEMMA RetainedType ==
  ASSUME EngineTypeOK,
         NEW kind \in MutationKinds, NEW i \in Intents,
         NEW orders \in SUBSET OrderIds, NEW b \in BOOLEAN,
         RetainArtifact(kind, i, orders, b)
  PROVE  artifacts' \in Seq(Artifact)
<1> DEFINE a == [kind |-> kind, intent |-> i, orders |-> orders, control |-> b]
<1>1. a \in Artifact  BY DEF Artifact
<1> QED  BY <1>1, AppendEntries DEF EngineTypeOK, RetainArtifact

(* The callback log is untouched by requests, and stays explained when no
   logged record is dropped, no fill forgotten and no used id remapped. *)
LEMMA FillsStayRemembered ==
  ASSUME EngineInv, UNCHANGED callbackLog,
         \A j \in Intents : Recorded(j) =>
           Recorded(j)' /\ intentRecords[j].fills \subseteq intentRecords'[j].fills,
         \A o \in OrderIds :
           brokerOrderToIntent[o] # NoIntent => brokerOrderToIntent'[o] = brokerOrderToIntent[o]
  PROVE  FillsRemembered' /\ FillAppliedOnce'
<1>1. ASSUME NEW n \in DOMAIN callbackLog
      PROVE  callbackLog[n].order \in OrderIds /\ callbackLog[n].intent \in Intents
  <2>1. callbackLog \in Seq(Receipt)  BY DEF EngineInv, EngineTypeOK
  <2>2. callbackLog[n] \in Receipt  BY <2>1
  <2> QED  BY <2>2, ReceiptFields
<1>2. NoIntent \notin Intents  BY EngineAssumption
<1>3. FillsRemembered'
  BY <1>1, <1>2 DEF EngineInv, FillsRemembered, Recorded
<1> QED  BY <1>3 DEF EngineInv, FillAppliedOnce

----------------------------------------------------------------------------
(* A new engine is in order. *)
LEMMA EngineInitInv == EngineInit => EngineInv
<1> SUFFICES ASSUME EngineInit PROVE EngineInv  OBVIOUS
<1>1. EngineTypeOK
  BY EngineAssumption DEF EngineInit, EngineTypeOK, OrderIds
<1>2. \A i \in Intents : ~Recorded(i)  BY DEF EngineInit, Recorded
<1>3. MappingNeverCorrupt
  BY DEF EngineInit, MappingNeverCorrupt, OrderIds
<1>4. ArtifactsMatchRecords /\ FillsRemembered /\ FillAppliedOnce
  BY DEF EngineInit, ArtifactsMatchRecords, FillsRemembered, FillAppliedOnce
<1> QED
  BY <1>1, <1>2, <1>3, <1>4 DEF EngineInv, RecordsWellFormed, StrategyOwnsOrders

(* Answering a repeated identity only adds evidence. *)
LEMMA ReplayInv ==
  ASSUME EngineInv, NEW i \in Intents, NEW kind \in MutationKinds, NEW b \in BOOLEAN,
         IdempotentReplay(kind, i, b)
  PROVE  EngineInv'
<1> USE DEF IdempotentReplay
<1>1. intentRecords[i].orders \in SUBSET OrderIds
  BY RecordedType DEF EngineInv, IntentRecord
<1>2. EngineTypeOK'
  BY <1>1, RetainedType DEF EngineInv, EngineTypeOK
<1>3. ArtifactsMatchRecords'
  BY <1>1, <1>2, RetainedMatches DEF Recorded
<1>4. FillsRemembered' /\ FillAppliedOnce'
  BY FillsStayRemembered DEF Recorded
<1> QED
  BY <1>2, <1>3, <1>4
  DEF EngineInv, MappingNeverCorrupt, RecordsWellFormed, StrategyOwnsOrders, Recorded

(* A fresh submit or flatten: the next order id is handed to a new record. *)
LEMMA AllocateInv ==
  ASSUME EngineInv, NEW i \in Intents, NEW kind \in MutationKinds, NEW b \in BOOLEAN,
         ~Recorded(i),
         AllocateBrokerOrder(i),
         intentRecords' = [intentRecords EXCEPT ![i] = NewRecord({nextBrokerOrder}, b)],
         RetainArtifact(kind, i, {nextBrokerOrder}, b),
         UNCHANGED callbackLog
  PROVE  EngineInv'
<1> DEFINE r == NewRecord({nextBrokerOrder}, b)
<1>1. nextBrokerOrder \in OrderIds /\ nextBrokerOrder \in Nat
  BY EngineAssumption DEF EngineInv, EngineTypeOK, AllocateBrokerOrder, OrderIds
<1>2. r \in IntentRecord /\ r # NoRecord
  BY <1>1, NewRecordType, RecordIsPresent
<1>3. /\ intentRecords'[i] = r
      /\ \A j \in Intents \ {i} : intentRecords'[j] = intentRecords[j]
      /\ brokerOrderToIntent'[nextBrokerOrder] = i
      /\ \A o \in OrderIds \ {nextBrokerOrder} : brokerOrderToIntent'[o] = brokerOrderToIntent[o]
      /\ nextBrokerOrder' = nextBrokerOrder + 1
  BY <1>1 DEF EngineInv, EngineTypeOK, AllocateBrokerOrder
<1>4. r.orders = {nextBrokerOrder} /\ r.control = b /\ r.open = ~b
  BY DEF NewRecord
<1>5. \A j \in Intents : Recorded(j)' <=> Recorded(j) \/ j = i
  BY <1>2, <1>3 DEF Recorded
<1>6. \A j \in Intents : Recorded(j) => j # i /\ intentRecords'[j] = intentRecords[j]
  BY <1>3
<1>7. EngineTypeOK'
  <2>1. intentRecords' \in [Intents -> IntentRecord \cup {NoRecord}]
    BY <1>2 DEF EngineInv, EngineTypeOK
  <2>2. brokerOrderToIntent' \in [OrderIds -> Intents \cup {NoIntent}]
    BY DEF EngineInv, EngineTypeOK, AllocateBrokerOrder
  <2>3. artifacts' \in Seq(Artifact)
    BY <1>1, RetainedType DEF EngineInv
  <2>4. nextBrokerOrder' \in 1..(MaxOrders + 1)
    BY EngineAssumption DEF EngineInv, EngineTypeOK, AllocateBrokerOrder
  <2> QED  BY <2>1, <2>2, <2>3, <2>4 DEF EngineInv, EngineTypeOK
<1>8. MappingNeverCorrupt'
  <2> SUFFICES ASSUME NEW o \in OrderIds
               PROVE  IF o < nextBrokerOrder'
                      THEN /\ brokerOrderToIntent'[o] # NoIntent
                           /\ Recorded(brokerOrderToIntent[o])'
                           /\ o \in intentRecords'[brokerOrderToIntent'[o]].orders
                      ELSE brokerOrderToIntent'[o] = NoIntent
    BY DEF MappingNeverCorrupt
  <2>1. CASE o = nextBrokerOrder
    <3>1. brokerOrderToIntent'[o] = i /\ o < nextBrokerOrder'  BY <2>1, <1>1, <1>3
    <3>2. i # NoIntent /\ Recorded(i)'  BY <1>5, EngineAssumption
    <3>3. o \in intentRecords'[i].orders  BY <2>1, <1>3, <1>4
    <3> QED  BY <3>1, <3>2, <3>3 DEF Recorded
  <2>2. CASE o # nextBrokerOrder /\ o < nextBrokerOrder
    <3>1. /\ brokerOrderToIntent[o] \in Intents
          /\ Recorded(brokerOrderToIntent[o])
          /\ o \in intentRecords[brokerOrderToIntent[o]].orders
      BY <2>2 DEF EngineInv, EngineTypeOK, MappingNeverCorrupt
    <3>2. brokerOrderToIntent'[o] = brokerOrderToIntent[o]  BY <2>2, <1>3
    <3>3. brokerOrderToIntent[o] # NoIntent  BY <3>1, EngineAssumption
    <3>4. intentRecords'[brokerOrderToIntent[o]] = intentRecords[brokerOrderToIntent[o]]
      BY <3>1, <1>6
    <3> QED  BY <3>1, <3>2, <3>3, <3>4, <2>2, <1>1, <1>3 DEF OrderIds, Recorded
  <2>3. CASE o > nextBrokerOrder
    BY <2>3, <1>1, <1>3 DEF EngineInv, MappingNeverCorrupt, OrderIds
  <2> QED  BY <2>1, <2>2, <2>3, <1>1 DEF OrderIds
<1>9. RecordsWellFormed'
  <2> SUFFICES ASSUME NEW j \in Intents, Recorded(j)'
               PROVE  /\ \A o \in intentRecords'[j].orders : o < nextBrokerOrder'
                      /\ intentRecords'[j].control => ~intentRecords'[j].open
    BY DEF RecordsWellFormed
  <2>1. CASE j = i
    <3>1. \A o \in intentRecords'[i].orders : o < nextBrokerOrder'
      <4>1. intentRecords'[i].orders = {nextBrokerOrder}  BY <1>3, <1>4
      <4>2. nextBrokerOrder < nextBrokerOrder'  BY <1>1, <1>3
      <4> QED  BY <4>1, <4>2
    <3>2. intentRecords'[i].control => ~intentRecords'[i].open
      BY <1>3, <1>4
    <3> QED  BY <2>1, <3>1, <3>2
  <2>2. CASE j # i
    <3>1. Recorded(j) /\ intentRecords'[j] = intentRecords[j]  BY <2>2, <1>3, <1>5
    <3>2. intentRecords[j].orders \subseteq OrderIds
      BY <3>1, RecordedType DEF EngineInv, IntentRecord
    <3>3. \A o \in intentRecords[j].orders : o < nextBrokerOrder
      BY <3>1 DEF EngineInv, RecordsWellFormed
    <3>4. \A o \in intentRecords'[j].orders : o < nextBrokerOrder'
      BY <3>1, <3>2, <3>3, <1>1, <1>3 DEF OrderIds
    <3>5. intentRecords[j].control => ~intentRecords[j].open
      BY <3>1 DEF EngineInv, RecordsWellFormed
    <3> QED  BY <3>1, <3>4, <3>5
  <2> QED  BY <2>1, <2>2
<1>10. StrategyOwnsOrders'
  <2> SUFFICES ASSUME NEW j \in Intents, Recorded(j)', ~intentRecords'[j].control,
                      NEW o \in intentRecords'[j].orders
               PROVE  brokerOrderToIntent'[o] = j
    BY DEF StrategyOwnsOrders
  <2>1. CASE j = i  BY <2>1, <1>3, <1>4
  <2>2. CASE j # i
    <3>1. Recorded(j) /\ intentRecords'[j] = intentRecords[j]  BY <2>2, <1>3, <1>5
    <3>2. o \in OrderIds /\ o < nextBrokerOrder /\ brokerOrderToIntent[o] = j
      BY <3>1, RecordFields DEF EngineInv, RecordsWellFormed, StrategyOwnsOrders
    <3> QED  BY <3>2, <1>1, <1>3 DEF OrderIds
  <2> QED  BY <2>1, <2>2
<1>11. ArtifactsMatchRecords'
  <2>1. {nextBrokerOrder} \in SUBSET OrderIds  BY <1>1
  <2>2. Recorded(i)' /\ intentRecords'[i].orders = {nextBrokerOrder}  BY <1>3, <1>4, <1>5
  <2>3. \A j \in Intents : Recorded(j) =>
           Recorded(j)' /\ intentRecords'[j].orders = intentRecords[j].orders
    BY <1>5, <1>6
  <2> QED  BY <1>7, <2>1, <2>2, <2>3, RetainedMatches
<1>12. FillsRemembered' /\ FillAppliedOnce'
  <2>1. brokerOrderToIntent[nextBrokerOrder] = NoIntent
    BY <1>1 DEF EngineInv, MappingNeverCorrupt
  <2> QED  BY <2>1, <1>3, <1>5, <1>6, FillsStayRemembered
<1> QED  BY <1>7, <1>8, <1>9, <1>10, <1>11, <1>12 DEF EngineInv

(* A fresh cancel: the working records close, the control's own is added. *)
LEMMA CancelInv ==
  ASSUME EngineInv, NEW i \in Intents, ~Recorded(i), CancelOpenOrders(i)
  PROVE  /\ EngineInv'
         /\ ActiveOpenOrderIds' = {}
         /\ artifacts'[Len(artifacts')].orders = ActiveOpenOrderIds
<1> DEFINE active == ActiveOpenOrderIds
           swept == {brokerOrderToIntent[o] : o \in active}
<1>1. /\ intentRecords' =
            [j \in Intents |->
               IF j = i THEN NewRecord(active, TRUE)
               ELSE IF j \in swept /\ Recorded(j)
                    THEN [intentRecords[j] EXCEPT !.open = FALSE]
                    ELSE intentRecords[j]]
      /\ RetainArtifact("cancel", i, active, TRUE)
      /\ UNCHANGED <<brokerOrderToIntent, callbackLog, nextBrokerOrder>>
  BY DEF CancelOpenOrders, IdempotentReplay
<1>2. EngineTypeOK /\ active \in SUBSET OrderIds
  BY ActiveAreOrders DEF EngineInv
<1> HIDE DEF active
<1>3. NewRecord(active, TRUE) \in IntentRecord
  BY <1>2, NewRecordType
<1>4. /\ NewRecord(active, TRUE).orders = active /\ NewRecord(active, TRUE).control
      /\ ~NewRecord(active, TRUE).open
  BY DEF NewRecord
<1>5. intentRecords'[i] = NewRecord(active, TRUE) /\ Recorded(i)'
  <2>1. intentRecords'[i] = NewRecord(active, TRUE)  BY <1>1
  <2> QED  BY <2>1, <1>3, RecordIsPresent DEF Recorded
<1>6. ASSUME NEW j \in Intents, j # i, Recorded(j)
      PROVE  /\ intentRecords'[j] \in IntentRecord /\ Recorded(j)'
             /\ intentRecords'[j].orders = intentRecords[j].orders
             /\ intentRecords'[j].fills = intentRecords[j].fills
             /\ intentRecords'[j].control = intentRecords[j].control
             /\ intentRecords'[j].open = (intentRecords[j].open /\ j \notin swept)
  <2> HIDE DEF swept
  <2>1. intentRecords[j] \in IntentRecord  BY <1>2, <1>6, RecordFields
  <2>2. intentRecords'[j] = IF j \in swept THEN [intentRecords[j] EXCEPT !.open = FALSE]
                            ELSE intentRecords[j]
    BY <1>1, <1>6
  <2>3. intentRecords'[j] \in IntentRecord
    BY <2>1, <2>2 DEF IntentRecord
  <2>4. Recorded(j)'  BY <2>3, RecordIsPresent DEF Recorded
  <2>5. /\ intentRecords'[j].orders = intentRecords[j].orders
        /\ intentRecords'[j].fills = intentRecords[j].fills
        /\ intentRecords'[j].control = intentRecords[j].control
        /\ intentRecords'[j].open = (intentRecords[j].open /\ j \notin swept)
    BY <2>1, <2>2 DEF IntentRecord
  <2> QED  BY <2>3, <2>4, <2>5
<1>7. \A j \in Intents : Recorded(j)' => Recorded(j) \/ j = i
  <2> SUFFICES ASSUME NEW j \in Intents, j # i, ~Recorded(j) PROVE ~Recorded(j)'
    OBVIOUS
  <2>1. intentRecords'[j] = intentRecords[j]  BY <1>1
  <2> QED  BY <2>1 DEF Recorded
<1>8. EngineTypeOK'
  <2>1. \A j \in Intents : intentRecords'[j] \in IntentRecord \cup {NoRecord}
    <3> SUFFICES ASSUME NEW j \in Intents
                 PROVE  intentRecords'[j] \in IntentRecord \cup {NoRecord}
      OBVIOUS
    <3>1. CASE j = i  BY <3>1, <1>3, <1>5
    <3>2. CASE j # i /\ Recorded(j)  BY <3>2, <1>6
    <3>3. CASE j # i /\ ~Recorded(j)  BY <3>3, <1>7 DEF Recorded
    <3> QED  BY <3>1, <3>2, <3>3
  <2>2. intentRecords' \in [Intents -> IntentRecord \cup {NoRecord}]
    <3>1. /\ intentRecords' = [j \in Intents |-> intentRecords'[j]]
      BY <1>1
    <3> QED  BY <3>1, <2>1
  <2>3. artifacts' \in Seq(Artifact)
    BY <1>1, <1>2, RetainedType DEF MutationKinds
  <2> QED  BY <1>1, <1>2, <2>2, <2>3 DEF EngineTypeOK
<1>9. MappingNeverCorrupt'
  <2> SUFFICES ASSUME NEW o \in OrderIds, o < nextBrokerOrder
               PROVE  /\ brokerOrderToIntent[o] # NoIntent
                      /\ Recorded(brokerOrderToIntent[o])'
                      /\ o \in intentRecords'[brokerOrderToIntent[o]].orders
    BY <1>1 DEF EngineInv, MappingNeverCorrupt, Recorded
  <2>1. /\ brokerOrderToIntent[o] # NoIntent
        /\ brokerOrderToIntent[o] \in Intents
        /\ Recorded(brokerOrderToIntent[o])
        /\ o \in intentRecords[brokerOrderToIntent[o]].orders
    BY DEF EngineInv, EngineTypeOK, MappingNeverCorrupt
  <2>2. brokerOrderToIntent[o] # i  BY <2>1
  <2> QED  BY <1>1, <1>6, <2>1, <2>2 DEF Recorded
<1>10. RecordsWellFormed'
  <2> SUFFICES ASSUME NEW j \in Intents, Recorded(j)'
               PROVE  /\ \A o \in intentRecords'[j].orders : o < nextBrokerOrder
                      /\ intentRecords'[j].control => ~intentRecords'[j].open
    BY <1>1 DEF RecordsWellFormed
  <2>1. CASE j = i
    <3>1. \A o \in active : o < nextBrokerOrder
      BY DEF active, ActiveOpenOrderIds, Working, EngineInv, RecordsWellFormed
    <3> QED  BY <2>1, <3>1, <1>4, <1>5
  <2>2. CASE j # i
    BY <2>2, <1>6, <1>7 DEF EngineInv, RecordsWellFormed
  <2> QED  BY <2>1, <2>2
<1>11. StrategyOwnsOrders'
  <2> SUFFICES ASSUME NEW j \in Intents, Recorded(j)', ~intentRecords'[j].control,
                      NEW o \in intentRecords'[j].orders
               PROVE  brokerOrderToIntent[o] = j
    BY <1>1 DEF StrategyOwnsOrders
  <2>1. j # i  BY <1>4, <1>5
  <2> QED  BY <2>1, <1>6, <1>7 DEF EngineInv, StrategyOwnsOrders
<1>12. ArtifactsMatchRecords'
  <2>1. \A j \in Intents : Recorded(j) =>
           Recorded(j)' /\ intentRecords'[j].orders = intentRecords[j].orders
    BY <1>6
  <2> QED  BY <1>1, <1>2, <1>4, <1>5, <1>8, <2>1, RetainedMatches DEF MutationKinds
<1>13. FillsRemembered' /\ FillAppliedOnce'
  BY <1>1, <1>6, FillsStayRemembered
<1>14. ActiveOpenOrderIds' = {}
  <2> SUFFICES ASSUME NEW j \in Intents, Recorded(j)', intentRecords'[j].open,
                      ~intentRecords'[j].control, NEW o \in intentRecords'[j].orders
               PROVE  FALSE
    BY DEF ActiveOpenOrderIds, Working
  <2>1. j # i /\ Recorded(j)  BY <1>4, <1>5, <1>7
  <2>2. /\ o \in intentRecords[j].orders /\ intentRecords[j].open
        /\ ~intentRecords[j].control /\ j \notin swept
    BY <2>1, <1>6
  <2>3. o \in active  BY <2>1, <2>2 DEF active, ActiveOpenOrderIds, Working
  <2>4. brokerOrderToIntent[o] = j  BY <2>1, <2>2 DEF EngineInv, StrategyOwnsOrders
  <2> QED  BY <2>2, <2>3, <2>4
<1>15. artifacts'[Len(artifacts')].orders = active
  <2>1. artifacts \in Seq(Artifact)  BY <1>2 DEF EngineTypeOK
  <2> QED  BY <1>1, <2>1 DEF RetainArtifact
<1> QED
  BY <1>8, <1>9, <1>10, <1>11, <1>12, <1>13, <1>14, <1>15 DEF EngineInv, active

(* A callback changes one record, never its orders, and remembers its fill. *)
LEMMA CallbackInv ==
  ASSUME EngineInv, NEW o \in OrderIds, NEW c \in CallbackIds, NEW kind \in CallbackKinds,
         RecordCallback(o, c, kind)
  PROVE  EngineInv'
<1>0. PICK i \in Intents : i = brokerOrderToIntent[o]
  BY DEF RecordCallback, EngineInv, EngineTypeOK
<1> DEFINE r == CallbackApplied(intentRecords[i], c, kind)
           e == [order |-> o, intent |-> i, id |-> c, kind |-> kind,
                 deduplicated |-> CallbackDuplicate(intentRecords[i], c, kind)]
<1>1. /\ i \in Intents /\ Recorded(i)
      /\ intentRecords' = [intentRecords EXCEPT ![i] = r]
      /\ callbackLog' = Append(callbackLog, e)
      /\ UNCHANGED <<brokerOrderToIntent, artifacts, nextBrokerOrder>>
  BY <1>0 DEF RecordCallback
<1>2. EngineTypeOK  BY DEF EngineInv
<1>3. intentRecords[i] \in IntentRecord  BY <1>1, <1>2, RecordFields
<1>4. /\ r \in IntentRecord
      /\ r.orders = intentRecords[i].orders /\ r.control = intentRecords[i].control
      /\ intentRecords[i].fills \subseteq r.fills
      /\ r.open => intentRecords[i].open
      /\ kind = "fill" => c \in r.fills
      /\ CallbackDuplicate(intentRecords[i], c, kind) \in BOOLEAN
  BY <1>3, CallbackAppliedFacts
<1>6. /\ e \in Receipt /\ e.kind = kind /\ e.order = o /\ e.intent = i /\ e.id = c
      /\ kind = "fill" => e.deduplicated = (c \in intentRecords[i].fills)
  BY <1>1, <1>4 DEF Receipt, CallbackDuplicate
<1> HIDE DEF r, e
<1>7. /\ intentRecords'[i] = r /\ Recorded(i)'
      /\ \A j \in Intents \ {i} : intentRecords'[j] = intentRecords[j]
      /\ \A j \in Intents : Recorded(j)' <=> Recorded(j)
  <2>1. intentRecords'[i] = r /\ \A j \in Intents \ {i} : intentRecords'[j] = intentRecords[j]
    BY <1>1, <1>2 DEF EngineTypeOK
  <2>2. Recorded(i)'  BY <2>1, <1>4, RecordIsPresent DEF Recorded
  <2> QED  BY <2>1, <2>2, <1>1 DEF Recorded
<1>8. \A j \in Intents : Recorded(j) =>
        /\ intentRecords'[j].orders = intentRecords[j].orders
        /\ intentRecords'[j].control = intentRecords[j].control
        /\ intentRecords[j].fills \subseteq intentRecords'[j].fills
        /\ intentRecords'[j].open => intentRecords[j].open
  BY <1>4, <1>7
<1>9. EngineTypeOK'
  <2>1. intentRecords' \in [Intents -> IntentRecord \cup {NoRecord}]
    BY <1>1, <1>2, <1>4 DEF EngineTypeOK
  <2>2. callbackLog' \in Seq(Receipt)
    BY <1>1, <1>2, <1>6, AppendEntries DEF EngineTypeOK
  <2> QED  BY <1>1, <1>2, <2>1, <2>2 DEF EngineTypeOK
<1>10. MappingNeverCorrupt'
  BY <1>1, <1>2, <1>7, <1>8
  DEF EngineInv, EngineTypeOK, MappingNeverCorrupt, Recorded
<1>11. RecordsWellFormed'
  BY <1>1, <1>7, <1>8 DEF EngineInv, RecordsWellFormed
<1>12. StrategyOwnsOrders'
  BY <1>1, <1>7, <1>8 DEF EngineInv, StrategyOwnsOrders
<1>13. ArtifactsMatchRecords'
  <2>1. \A n \in DOMAIN artifacts : artifacts[n].intent \in Intents
    <3>1. \A n \in DOMAIN artifacts : artifacts[n] \in Artifact
      BY <1>2 DEF EngineTypeOK
    <3> QED  BY <3>1, ArtifactFields
  <2> QED  BY <1>1, <1>7, <1>8, <2>1 DEF EngineInv, ArtifactsMatchRecords, Recorded
<1>14. /\ callbackLog \in Seq(Receipt) /\ Len(callbackLog) \in Nat
       /\ DOMAIN callbackLog = 1..Len(callbackLog)
       /\ DOMAIN callbackLog' = 1..(Len(callbackLog) + 1)
       /\ \A n \in DOMAIN callbackLog : callbackLog'[n] = callbackLog[n] /\ callbackLog[n] \in Receipt
       /\ callbackLog'[Len(callbackLog) + 1] = e
  <2>1. callbackLog \in Seq(Receipt)  BY <1>2 DEF EngineTypeOK
  <2> QED  BY <1>1, <1>6, <2>1, AppendEntries
<1>15. FillsRemembered'
  <2> SUFFICES ASSUME NEW n \in DOMAIN callbackLog', callbackLog'[n].kind = "fill"
               PROVE  /\ brokerOrderToIntent[callbackLog'[n].order] = callbackLog'[n].intent
                      /\ Recorded(callbackLog[n].intent)'
                      /\ callbackLog'[n].id \in intentRecords'[callbackLog'[n].intent].fills
    BY <1>1 DEF FillsRemembered, Recorded
  <2>1. CASE n \in DOMAIN callbackLog
    <3>1. callbackLog'[n] = callbackLog[n] /\ callbackLog[n].intent \in Intents
      BY <2>1, <1>14, ReceiptFields
    <3>2. /\ brokerOrderToIntent[callbackLog[n].order] = callbackLog[n].intent
          /\ Recorded(callbackLog[n].intent)
          /\ callbackLog[n].id \in intentRecords[callbackLog[n].intent].fills
      BY <2>1, <3>1 DEF EngineInv, FillsRemembered
    <3> QED  BY <3>1, <3>2, <1>7, <1>8 DEF Recorded
  <2>2. CASE n = Len(callbackLog) + 1
    <3>1. callbackLog'[n] = e /\ kind = "fill"  BY <2>2, <1>6, <1>14
    <3>2. c \in intentRecords'[i].fills  BY <3>1, <1>4, <1>7
    <3> QED  BY <3>1, <3>2, <1>0, <1>6, <1>7 DEF Recorded
  <2> QED  BY <2>1, <2>2, <1>14
<1>16. FillAppliedOnce'
  (* A fill already logged for this order is remembered, so this one is a
     duplicate. *)
  <2>1. ASSUME NEW m \in DOMAIN callbackLog, callbackLog[m].kind = "fill", kind = "fill",
               callbackLog[m].order = o, callbackLog[m].id = c
        PROVE  e.deduplicated
    <3>1. c \in intentRecords[i].fills
      BY <2>1, <1>0 DEF EngineInv, FillsRemembered
    <3> QED  BY <2>1, <3>1, <1>6
  <2> SUFFICES ASSUME NEW m \in DOMAIN callbackLog', NEW n \in DOMAIN callbackLog', m # n,
                      callbackLog'[m].kind = "fill", callbackLog'[n].kind = "fill",
                      callbackLog'[m].order = callbackLog'[n].order,
                      callbackLog'[m].id = callbackLog'[n].id
               PROVE  callbackLog'[m].deduplicated \/ callbackLog'[n].deduplicated
    BY DEF FillAppliedOnce
  <2>2. CASE m \in DOMAIN callbackLog /\ n \in DOMAIN callbackLog
    BY <2>2, <1>14 DEF EngineInv, FillAppliedOnce
  <2>3. CASE m = Len(callbackLog) + 1
    <3>1. n \in DOMAIN callbackLog  BY <2>3, <1>14
    <3> QED  BY <2>1, <2>3, <3>1, <1>6, <1>14
  <2>4. CASE n = Len(callbackLog) + 1
    <3>1. m \in DOMAIN callbackLog  BY <2>4, <1>14
    <3> QED  BY <2>1, <2>4, <3>1, <1>6, <1>14
  <2> QED  BY <2>2, <2>3, <2>4, <1>14
<1> QED
  BY <1>9, <1>10, <1>11, <1>12, <1>13, <1>15, <1>16 DEF EngineInv

----------------------------------------------------------------------------
(* Every step of the engine keeps it in order. *)
LEMMA EngineStepInv == EngineInv /\ [EngineNext]_engineVars => EngineInv'
<1> SUFFICES ASSUME EngineInv, [EngineNext]_engineVars PROVE EngineInv'
  OBVIOUS
<1>1. ASSUME NEW i \in Intents, NEW request \in OrderRequests, SubmitOrderIntent(i, request)
      PROVE  EngineInv'
  BY <1>1, ReplayInv, AllocateInv DEF SubmitOrderIntent, MutationKinds
<1>2. ASSUME NEW i \in Intents, CancelOpenOrders(i) PROVE EngineInv'
  <2>1. CASE Recorded(i)
    BY <1>2, <2>1, ReplayInv DEF CancelOpenOrders, MutationKinds
  <2>2. CASE ~Recorded(i)  BY <1>2, <2>2, CancelInv
  <2> QED  BY <2>1, <2>2
<1>3. ASSUME NEW i \in Intents, FlattenPositions(i) PROVE EngineInv'
  BY <1>3, ReplayInv, AllocateInv DEF FlattenPositions, MutationKinds
<1>4. ASSUME NEW o \in OrderIds, NEW c \in CallbackIds, NEW kind \in CallbackKinds,
             RecordCallback(o, c, kind)
      PROVE  EngineInv'
  BY <1>4, CallbackInv
<1>5. CASE UNCHANGED engineVars
  BY <1>5 DEF engineVars, EngineInv, EngineTypeOK, MappingNeverCorrupt, RecordsWellFormed,
              StrategyOwnsOrders, ArtifactsMatchRecords, FillsRemembered, FillAppliedOnce, Recorded
<1> QED  BY <1>1, <1>2, <1>3, <1>4, <1>5 DEF EngineNext

(* The engine's maps, logs and counter keep their types and stay in agreement
   under any interleaving of requests, retries and callbacks. *)
THEOREM EngineInvariant == EngineSpec => []EngineInv
BY EngineInitInv, EngineStepInv, PTL DEF EngineSpec

(* The engine is always well typed, and record_callback never finds an order id
   whose intent has no record. *)
THEOREM EngineSoundness == EngineSpec => []EngineIsSound
<1>1. EngineInv => EngineIsSound  BY DEF EngineInv, EngineIsSound
<1> QED  BY <1>1, EngineInvariant, PTL

(* submit_order_intent and apply_control_request are idempotent per identity:
   every retry of it, of any kind, names the orders the first one was given. *)
THEOREM EngineIdempotence == EngineSpec => []RetriesNameTheSameOrders
<1>1. EngineInv => RetriesNameTheSameOrders
  BY DEF EngineInv, ArtifactsMatchRecords, RetriesNameTheSameOrders
<1> QED  BY <1>1, EngineInvariant, PTL

(* No broker order is ever shared by two strategy intents. *)
THEOREM EngineAttribution == EngineSpec => []OrdersHaveOneStrategyIntent
<1>1. EngineInv => OrdersHaveOneStrategyIntent
  <2> SUFFICES ASSUME EngineInv, NEW i \in Intents, NEW j \in Intents, i # j,
                      Recorded(i), Recorded(j),
                      ~intentRecords[i].control, ~intentRecords[j].control,
                      NEW o \in intentRecords[i].orders \cap intentRecords[j].orders
               PROVE  FALSE
    BY DEF OrdersHaveOneStrategyIntent
  <2>1. brokerOrderToIntent[o] = i /\ brokerOrderToIntent[o] = j
    BY DEF EngineInv, StrategyOwnsOrders
  <2> QED  BY <2>1
<1> QED  BY <1>1, EngineInvariant, PTL

(* record_callback applies a fill callback id to an order at most once. *)
THEOREM EngineFills == EngineSpec => []FillAppliedOnce
<1>1. EngineInv => FillAppliedOnce  BY DEF EngineInv
<1> QED  BY <1>1, EngineInvariant, PTL

----------------------------------------------------------------------------
(* Which records count as working changes only in one direction: a record that
   works after a step worked before it with the same orders, or is the new
   record of the order id just allocated. *)
WorkingOnlyShrinks ==
  \A j \in Intents : Working(j)' =>
    \/ Working(j) /\ intentRecords'[j].orders = intentRecords[j].orders
    \/ intentRecords'[j].orders = {nextBrokerOrder}

(* Allocating reopens no order. *)
LEMMA AllocateShrinks ==
  ASSUME EngineInv, NEW i \in Intents, NEW b \in BOOLEAN,
         intentRecords' = [intentRecords EXCEPT ![i] = NewRecord({nextBrokerOrder}, b)]
  PROVE  WorkingOnlyShrinks
<1>1. /\ intentRecords'[i].orders = {nextBrokerOrder}
      /\ \A j \in Intents \ {i} : intentRecords'[j] = intentRecords[j]
  BY DEF NewRecord, EngineInv, EngineTypeOK
<1> QED  BY <1>1 DEF WorkingOnlyShrinks, Working, Recorded

(* Unchanged records reopen no order. *)
LEMMA SameRecordsShrink ==
  ASSUME UNCHANGED intentRecords PROVE WorkingOnlyShrinks
  BY DEF WorkingOnlyShrinks, Working, Recorded

(* No step of the engine reopens an order. *)
LEMMA EngineStepShrinks == EngineInv /\ [EngineNext]_engineVars => WorkingOnlyShrinks
<1> SUFFICES ASSUME EngineInv, [EngineNext]_engineVars PROVE WorkingOnlyShrinks
  OBVIOUS
<1>1. ASSUME NEW i \in Intents, NEW request \in OrderRequests, SubmitOrderIntent(i, request)
      PROVE  WorkingOnlyShrinks
  BY <1>1, AllocateShrinks, SameRecordsShrink DEF SubmitOrderIntent, IdempotentReplay
<1>2. ASSUME NEW i \in Intents, CancelOpenOrders(i) PROVE WorkingOnlyShrinks
  <2>1. CASE Recorded(i)
    BY <1>2, <2>1, SameRecordsShrink DEF CancelOpenOrders, IdempotentReplay
  <2>2. CASE ~Recorded(i)
    <3>1. intentRecords' =
            [j \in Intents |->
               IF j = i THEN NewRecord(ActiveOpenOrderIds, TRUE)
               ELSE IF j \in {brokerOrderToIntent[o] : o \in ActiveOpenOrderIds} /\ Recorded(j)
                    THEN [intentRecords[j] EXCEPT !.open = FALSE]
                    ELSE intentRecords[j]]
      BY <1>2, <2>2 DEF CancelOpenOrders, IdempotentReplay
    <3>2. ~intentRecords'[i].open  BY <3>1 DEF NewRecord
    <3>3. ASSUME NEW j \in Intents, j # i, Working(j)'
          PROVE  intentRecords'[j] = intentRecords[j]
      <4>1. CASE Recorded(j)
        <5>1. intentRecords[j] \in IntentRecord  BY <4>1, RecordFields DEF EngineInv
        <5>2. [intentRecords[j] EXCEPT !.open = FALSE].open = FALSE
          BY <5>1 DEF IntentRecord
        <5> QED  BY <3>1, <3>3, <5>2 DEF Working
      <4>2. CASE ~Recorded(j)  BY <3>1, <3>3, <4>2
      <4> QED  BY <4>1, <4>2
    <3> QED  BY <3>2, <3>3 DEF WorkingOnlyShrinks, Working, Recorded
  <2> QED  BY <2>1, <2>2
<1>3. ASSUME NEW i \in Intents, FlattenPositions(i) PROVE WorkingOnlyShrinks
  BY <1>3, AllocateShrinks, SameRecordsShrink DEF FlattenPositions, IdempotentReplay
<1>4. ASSUME NEW o \in OrderIds, NEW c \in CallbackIds, NEW kind \in CallbackKinds,
             RecordCallback(o, c, kind)
      PROVE  WorkingOnlyShrinks
  <2>1. PICK i \in Intents :
          /\ Recorded(i)
          /\ intentRecords' =
               [intentRecords EXCEPT ![i] = CallbackApplied(intentRecords[i], c, kind)]
    BY <1>4 DEF RecordCallback, EngineInv, EngineTypeOK
  <2> DEFINE r == CallbackApplied(intentRecords[i], c, kind)
  <2>2. intentRecords[i] \in IntentRecord  BY <2>1, RecordFields DEF EngineInv
  <2>3. /\ r.orders = intentRecords[i].orders /\ r.control = intentRecords[i].control
        /\ r.open => intentRecords[i].open
    BY <1>4, <2>2, CallbackAppliedFacts
  <2> HIDE DEF r
  <2>4. intentRecords'[i] = r /\ \A j \in Intents \ {i} : intentRecords'[j] = intentRecords[j]
    BY <2>1 DEF EngineInv, EngineTypeOK, r
  <2> QED  BY <2>1, <2>3, <2>4 DEF WorkingOnlyShrinks, Working, Recorded
<1>5. CASE UNCHANGED engineVars
  BY <1>5, SameRecordsShrink DEF engineVars
<1> QED  BY <1>1, <1>2, <1>3, <1>4, <1>5 DEF EngineNext

(* No retry, control or late callback turns an order that is no longer working
   back into a working one. *)
THEOREM EngineMonotone == EngineSpec => OrdersNeverReopen
<1>1. EngineInv /\ [EngineNext]_engineVars => ClosedStayClosed
  <2> SUFFICES ASSUME EngineInv, [EngineNext]_engineVars, NEW o \in OrderIds,
                      o < nextBrokerOrder,
                      NEW j \in Intents, Working(j)', o \in intentRecords'[j].orders
               PROVE  \E k \in Intents : Working(k) /\ o \in intentRecords[k].orders
    BY DEF ClosedStayClosed, ActiveOpenOrderIds
  <2>1. WorkingOnlyShrinks  BY EngineStepShrinks
  <2>2. o # nextBrokerOrder  BY DEF EngineInv, EngineTypeOK, OrderIds
  <2> QED  BY <2>1, <2>2 DEF WorkingOnlyShrinks
<1> QED  BY <1>1, EngineInvariant, PTL DEF EngineSpec, OrdersNeverReopen

(* A first cancel_open_orders closes every working order and its evidence
   names exactly those. *)
THEOREM EngineCancelSweeps == EngineSpec => FreshCancelSweepsAll
<1>1. EngineInv /\ [EngineNext]_engineVars => CancelSweeps
  <2> SUFFICES ASSUME EngineInv, [EngineNext]_engineVars, NEW i \in Intents,
                      ~Recorded(i), Recorded(i)',
                      artifacts'[Len(artifacts')].kind = "cancel"
               PROVE  /\ ActiveOpenOrderIds' = {}
                      /\ artifacts'[Len(artifacts')].orders = ActiveOpenOrderIds
    BY DEF CancelSweeps
  <2>1. ASSUME NEW j \in Intents, NEW kind \in MutationKinds, NEW orders, NEW b,
               RetainArtifact(kind, j, orders, b)
        PROVE  artifacts'[Len(artifacts')].kind = kind
    <3>1. artifacts \in Seq(Artifact)  BY DEF EngineInv, EngineTypeOK
    <3> QED  BY <2>1, <3>1 DEF RetainArtifact
  <2>2. ASSUME NEW j \in Intents, NEW request \in OrderRequests, SubmitOrderIntent(j, request)
        PROVE  FALSE
    BY <2>1, <2>2 DEF SubmitOrderIntent, IdempotentReplay, MutationKinds
  <2>3. ASSUME NEW j \in Intents, FlattenPositions(j) PROVE FALSE
    BY <2>1, <2>3 DEF FlattenPositions, IdempotentReplay, MutationKinds
  <2>4. ASSUME NEW o \in OrderIds, NEW c \in CallbackIds, NEW kind \in CallbackKinds,
               RecordCallback(o, c, kind)
        PROVE  FALSE
    <3>1. PICK j \in Intents :
            /\ Recorded(j)
            /\ intentRecords' =
                 [intentRecords EXCEPT ![j] = CallbackApplied(intentRecords[j], c, kind)]
      BY <2>4 DEF RecordCallback, EngineInv, EngineTypeOK
    <3>2. j # i  BY <3>1
    <3> QED  BY <3>1, <3>2 DEF Recorded
  <2>5. ASSUME UNCHANGED engineVars PROVE FALSE
    BY <2>5 DEF engineVars, Recorded
  <2>6. PICK j \in Intents : CancelOpenOrders(j)
    BY <2>2, <2>3, <2>4, <2>5 DEF EngineNext
  <2>7. ~Recorded(j)
    <3> SUFFICES ASSUME Recorded(j) PROVE FALSE  OBVIOUS
    <3>1. UNCHANGED intentRecords  BY <2>6 DEF CancelOpenOrders, IdempotentReplay
    <3> QED  BY <3>1 DEF Recorded
  <2> QED  BY <2>6, <2>7, CancelInv
<1> QED  BY <1>1, EngineInvariant, PTL DEF EngineSpec, FreshCancelSweepsAll

----------------------------------------------------------------------------
(* The engine implements the abstract order book.  EngineInv is what makes each
   step a placement, a stop or a stutter of the book: ids listed as working have
   been handed out, so the next id is nobody's. *)

(* The phase of an order in the abstract book. *)
LEMMA PhaseOf ==
  ASSUME NEW o \in OrderIds
  PROVE  OrderPhase[o] = IF o >= nextBrokerOrder THEN "unallocated"
                         ELSE IF o \in ActiveOpenOrderIds THEN "working" ELSE "inactive"
  BY DEF OrderPhase

(* Working orders were allocated. *)
LEMMA ActiveAreAllocated ==
  ASSUME EngineInv, NEW o \in ActiveOpenOrderIds
  PROVE  o \in OrderIds /\ o < nextBrokerOrder /\ nextBrokerOrder \in Nat
  BY ActiveAreOrders DEF ActiveOpenOrderIds, EngineInv, RecordsWellFormed, Working, EngineTypeOK

(* A step that leaves the records and the map alone is a stutter. *)
LEMMA SameOrdersStutter ==
  ASSUME UNCHANGED <<intentRecords, brokerOrderToIntent, nextBrokerOrder>>
  PROVE  UNCHANGED Abstract!ordersVars
  BY DEF Abstract!ordersVars, OrderPhase, ActiveOpenOrderIds, Working, Recorded

(* A step that hands out no id stops the orders that no longer work. *)
LEMMA ShrinkingStops ==
  ASSUME EngineInv, EngineInv', WorkingOnlyShrinks,
         UNCHANGED <<brokerOrderToIntent, nextBrokerOrder>>
  PROVE  Abstract!OrdersNext
<1>1. ActiveOpenOrderIds' \subseteq ActiveOpenOrderIds
  <2> SUFFICES ASSUME NEW o \in ActiveOpenOrderIds' PROVE o \in ActiveOpenOrderIds
    OBVIOUS
  <2>1. PICK j \in Intents : Working(j)' /\ o \in intentRecords'[j].orders
    BY DEF ActiveOpenOrderIds
  <2>2. o < nextBrokerOrder
    BY <2>1 DEF EngineInv, RecordsWellFormed, Working
  <2>3. intentRecords'[j].orders # {nextBrokerOrder}
    BY <2>1, <2>2 DEF EngineInv, EngineTypeOK
  <2> QED  BY <2>1, <2>3 DEF WorkingOnlyShrinks, ActiveOpenOrderIds
<1> DEFINE stopped == ActiveOpenOrderIds \ ActiveOpenOrderIds'
<1>2. stopped \in SUBSET Abstract!Orders
  BY ActiveAreAllocated DEF Abstract!Orders, OrderIds
<1>3. ASSUME NEW o \in stopped PROVE OrderPhase[o] = "working"
  <2>1. o \in ActiveOpenOrderIds  BY <1>3
  <2>2. o \in OrderIds /\ o < nextBrokerOrder /\ nextBrokerOrder \in Nat
    BY <2>1, ActiveAreAllocated
  <2>3. ~(o >= nextBrokerOrder)  BY <2>2 DEF OrderIds
  <2> QED  BY <2>1, <2>2, <2>3, PhaseOf
<1>4. ASSUME NEW o \in OrderIds
      PROVE  OrderPhase'[o] = IF o \in stopped THEN "inactive" ELSE OrderPhase[o]
  <2>1. OrderPhase'[o] = IF o >= nextBrokerOrder THEN "unallocated"
                         ELSE IF o \in ActiveOpenOrderIds' THEN "working" ELSE "inactive"
    BY DEF OrderPhase
  <2>2. CASE o \in stopped
    <3>1. o < nextBrokerOrder /\ nextBrokerOrder \in Nat /\ o \in Nat
      BY <2>2, ActiveAreAllocated DEF OrderIds
    <3>2. ~(o >= nextBrokerOrder)  BY <3>1
    <3> QED  BY <2>1, <2>2, <3>2
  <2>3. CASE o \notin stopped
    BY <1>1, <2>1, <2>3, PhaseOf
  <2> QED  BY <2>2, <2>3
<1> HIDE DEF stopped
<1>5. OrderPhase' = [o \in OrderIds |-> IF o \in stopped THEN "inactive" ELSE OrderPhase[o]]
  BY <1>4 DEF OrderPhase
<1>6. Abstract!Stop(stopped)
  BY <1>3, <1>5 DEF Abstract!Stop, Abstract!Orders, OrderIds
<1> QED  BY <1>2, <1>6 DEF Abstract!OrdersNext

(* Handing out an id places the order it names. *)
LEMMA AllocatingPlaces ==
  ASSUME EngineInv, NEW i \in Intents, NEW b \in BOOLEAN, ~Recorded(i),
         AllocateBrokerOrder(i),
         intentRecords' = [intentRecords EXCEPT ![i] = NewRecord({nextBrokerOrder}, b)]
  PROVE  Abstract!OrdersNext
<1> DEFINE n == nextBrokerOrder
           initial == IF b THEN "inactive" ELSE "working"
<1>1. n \in OrderIds /\ nextBrokerOrder' = n + 1 /\ n \in Nat
  BY DEF AllocateBrokerOrder, EngineInv, EngineTypeOK, OrderIds
<1>2. /\ intentRecords'[i] = NewRecord({n}, b)
      /\ \A j \in Intents \ {i} : intentRecords'[j] = intentRecords[j]
  BY DEF EngineInv, EngineTypeOK
<1>3. /\ ~Working(i)
      /\ Working(i)' <=> ~b
      /\ intentRecords'[i].orders = {n}
      /\ \A j \in Intents \ {i} : Working(j)' <=> Working(j)
  <2>1. NewRecord({n}, b) \in IntentRecord  BY <1>1, NewRecordType
  <2>2. intentRecords'[i] # NoRecord  BY <1>2, <2>1, RecordIsPresent
  <2>3. /\ NewRecord({n}, b).open = ~b /\ NewRecord({n}, b).control = b
        /\ NewRecord({n}, b).orders = {n}
    BY DEF NewRecord
  <2>4. /\ Working(i)' <=> ~b
        /\ intentRecords'[i].orders = {n}
    BY <1>2, <2>2, <2>3, Zenon DEF Working, Recorded
  <2>5. ~Working(i)  BY DEF Working
  <2>6. \A j \in Intents \ {i} : Working(j)' <=> Working(j)
    BY <1>2 DEF Working, Recorded
  <2> QED  BY <2>4, <2>5, <2>6
<1>4. ASSUME NEW o
      PROVE  o \in ActiveOpenOrderIds' <=> o \in ActiveOpenOrderIds \/ (~b /\ o = n)
  <2>1. o \in ActiveOpenOrderIds' <=> \E j \in Intents : Working(j)' /\ o \in intentRecords'[j].orders
    BY DEF ActiveOpenOrderIds
  <2>2. o \in ActiveOpenOrderIds <=> \E j \in Intents : Working(j) /\ o \in intentRecords[j].orders
    BY DEF ActiveOpenOrderIds
  <2> QED  BY <1>2, <1>3, <2>1, <2>2
<1>5. OrderPhase[n] = "unallocated"
  BY <1>1, PhaseOf
<1>6. \A p \in OrderIds : p < n => OrderPhase[p] # "unallocated"
  <2> SUFFICES ASSUME NEW p \in OrderIds, p < n PROVE OrderPhase[p] # "unallocated"
    OBVIOUS
  <2>1. ~(p >= nextBrokerOrder)  BY <1>1 DEF OrderIds
  <2> QED  BY <2>1, PhaseOf
<1>7. ASSUME NEW o \in OrderIds
      PROVE  OrderPhase'[o] = IF o = n THEN initial ELSE OrderPhase[o]
  <2>1. OrderPhase'[o] = IF o >= n + 1 THEN "unallocated"
                         ELSE IF o \in ActiveOpenOrderIds' THEN "working" ELSE "inactive"
    BY <1>1 DEF OrderPhase
  <2>2. CASE o = n
    <3>1. ~(o >= n + 1)  BY <1>1, <2>2
    <3>2. o \notin ActiveOpenOrderIds  BY <1>1, <2>2, ActiveAreAllocated
    <3> QED  BY <1>4, <2>1, <2>2, <3>1, <3>2
  <2>3. CASE o # n
    <3>1. o >= n + 1 <=> o >= nextBrokerOrder  BY <1>1, <2>3 DEF OrderIds
    <3> QED  BY <1>4, <2>1, <2>3, <3>1, PhaseOf
  <2> QED  BY <2>2, <2>3
<1>8. brokerOrderToIntent' = [brokerOrderToIntent EXCEPT ![n] = i]
  BY DEF AllocateBrokerOrder
<1>9. initial \in {"working", "inactive"}
  OBVIOUS
<1> HIDE DEF n, initial
<1>10. OrderPhase' = [OrderPhase EXCEPT ![n] = initial]
  BY <1>7 DEF OrderPhase
<1>11. Abstract!Place(n, i, initial)
  BY <1>5, <1>6, <1>8, <1>10 DEF Abstract!Place, Abstract!Orders, OrderIds
<1> QED  BY <1>1, <1>9, <1>11 DEF Abstract!OrdersNext, Abstract!Orders, OrderIds

(* Every step of the engine is a step of the abstract book, or a stutter. *)
LEMMA EngineStepSimulates ==
  EngineInv /\ [EngineNext]_engineVars => [Abstract!OrdersNext]_(Abstract!ordersVars)
<1> SUFFICES ASSUME EngineInv, [EngineNext]_engineVars
             PROVE  [Abstract!OrdersNext]_(Abstract!ordersVars)
  OBVIOUS
<1>1. EngineInv' /\ WorkingOnlyShrinks  BY EngineStepInv, EngineStepShrinks
<1>2. ASSUME NEW i \in Intents, NEW kind \in MutationKinds, NEW b \in BOOLEAN,
             IdempotentReplay(kind, i, b)
      PROVE  UNCHANGED Abstract!ordersVars
  BY <1>2, SameOrdersStutter DEF IdempotentReplay
<1>3. ASSUME NEW i \in Intents, NEW request \in OrderRequests, SubmitOrderIntent(i, request)
      PROVE  [Abstract!OrdersNext]_(Abstract!ordersVars)
  BY <1>2, <1>3, AllocatingPlaces DEF SubmitOrderIntent, MutationKinds
<1>4. ASSUME NEW i \in Intents, CancelOpenOrders(i)
      PROVE  [Abstract!OrdersNext]_(Abstract!ordersVars)
  BY <1>1, <1>2, <1>4, ShrinkingStops DEF CancelOpenOrders, MutationKinds
<1>5. ASSUME NEW i \in Intents, FlattenPositions(i)
      PROVE  [Abstract!OrdersNext]_(Abstract!ordersVars)
  BY <1>2, <1>5, AllocatingPlaces DEF FlattenPositions, MutationKinds
<1>6. ASSUME NEW o \in OrderIds, NEW c \in CallbackIds, NEW kind \in CallbackKinds,
             RecordCallback(o, c, kind)
      PROVE  Abstract!OrdersNext
  BY <1>1, <1>6, ShrinkingStops DEF RecordCallback
<1>7. CASE UNCHANGED engineVars
  BY <1>7, SameOrdersStutter DEF engineVars
<1> QED  BY <1>3, <1>4, <1>5, <1>6, <1>7 DEF EngineNext

(* The engine implements the order book: whatever is retried, controlled or
   reported, ids are placed in sequence, owned by one intent for good, and
   stop working once. *)
THEOREM EngineImplementsBrokerOrders == EngineSpec => ImplementsBrokerOrders
<1>1. EngineInit => Abstract!OrdersInit
  <2> SUFFICES ASSUME EngineInit PROVE Abstract!OrdersInit
    OBVIOUS
  <2>1. \A o \in OrderIds : o >= nextBrokerOrder  BY DEF EngineInit, OrderIds
  <2>2. OrderPhase = [o \in OrderIds |-> "unallocated"]  BY <2>1 DEF OrderPhase
  <2> QED  BY <2>2 DEF EngineInit, Abstract!OrdersInit, Abstract!Orders, OrderIds
<1> QED
  BY <1>1, EngineInvariant, EngineStepSimulates, PTL
  DEF EngineSpec, ImplementsBrokerOrders, Abstract!OrdersSpec

----------------------------------------------------------------------------
(* Why an order stopped working: the broker reported it filled or cancelled,
   or a cancel that names it was retained. *)
ReportedDone(o) ==
  \E n \in DOMAIN callbackLog : callbackLog[n].order = o /\ callbackLog[n].kind \in {"fill", "cancelled"}

CancelRetained(o) ==
  \E n \in DOMAIN artifacts : artifacts[n].kind = "cancel" /\ o \in artifacts[n].orders

ClosedWithCause ==
  \A i \in Intents : Recorded(i) /\ ~intentRecords[i].control /\ ~intentRecords[i].open =>
    \A o \in intentRecords[i].orders : ReportedDone(o) \/ CancelRetained(o)

(* A callback closes the whole record of its order; that no other order closes
   with it is because a strategy intent was given one order only. *)
OneOrderEach ==
  \A i \in Intents : Recorded(i) /\ ~intentRecords[i].control =>
    \A o, q \in intentRecords[i].orders : o = q

CauseInv == ClosedWithCause /\ OneOrderEach

(* A step keeps the causes if it keeps both logs and each strategy record is an
   old one, closed before unless there is a cause now, or a new open one with
   one order. *)
LEMMA CausesKept ==
  ASSUME CauseInv,
         \A o : ReportedDone(o) => ReportedDone(o)',
         \A o : CancelRetained(o) => CancelRetained(o)',
         \A j \in Intents : Recorded(j)' /\ ~intentRecords'[j].control =>
           \/ /\ Recorded(j) /\ ~intentRecords[j].control
              /\ intentRecords'[j].orders = intentRecords[j].orders
              /\ \/ ~intentRecords'[j].open => ~intentRecords[j].open
                 \/ \A o \in intentRecords[j].orders : ReportedDone(o)' \/ CancelRetained(o)'
           \/ intentRecords'[j].open /\ \E o : intentRecords'[j].orders = {o}
  PROVE  CauseInv'
<1>1. OneOrderEach'
  <2> SUFFICES ASSUME NEW j \in Intents, Recorded(j)', ~intentRecords'[j].control,
                      NEW o \in intentRecords'[j].orders, NEW q \in intentRecords'[j].orders
               PROVE  o = q
    BY DEF OneOrderEach
  <2> QED  BY DEF CauseInv, OneOrderEach
<1>2. ClosedWithCause'
  <2> SUFFICES ASSUME NEW j \in Intents, Recorded(j)', ~intentRecords'[j].control,
                      ~intentRecords'[j].open, NEW o \in intentRecords'[j].orders
               PROVE  ReportedDone(o)' \/ CancelRetained(o)'
    BY DEF ClosedWithCause
  <2> QED  BY DEF CauseInv, ClosedWithCause
<1> QED  BY <1>1, <1>2 DEF CauseInv

(* An artifact that is retained is one cause more. *)
LEMMA RetainedCauses ==
  ASSUME EngineTypeOK,
         NEW kind \in MutationKinds, NEW i \in Intents,
         NEW orders \in SUBSET OrderIds, NEW b \in BOOLEAN,
         RetainArtifact(kind, i, orders, b), UNCHANGED callbackLog
  PROVE  /\ \A o : ReportedDone(o) => ReportedDone(o)'
         /\ \A o : CancelRetained(o) => CancelRetained(o)'
         /\ kind = "cancel" => \A o \in orders : CancelRetained(o)'
<1> DEFINE a == [kind |-> kind, intent |-> i, orders |-> orders, control |-> b]
<1>1. a \in Artifact /\ artifacts \in Seq(Artifact) /\ artifacts' = Append(artifacts, a)
  BY DEF Artifact, EngineTypeOK, RetainArtifact
<1>2. a.kind = kind /\ a.orders = orders  OBVIOUS
<1> HIDE DEF a
<1>3. /\ DOMAIN artifacts = 1..Len(artifacts) /\ Len(artifacts) \in Nat
      /\ DOMAIN artifacts' = 1..(Len(artifacts) + 1)
      /\ \A n \in DOMAIN artifacts : artifacts'[n] = artifacts[n]
      /\ artifacts'[Len(artifacts) + 1] = a
  BY <1>1, AppendEntries
<1>4. \A o : CancelRetained(o) => CancelRetained(o)'  BY <1>3 DEF CancelRetained
<1>5. ASSUME kind = "cancel", NEW o \in orders PROVE CancelRetained(o)'
  BY <1>2, <1>3, <1>5 DEF CancelRetained
<1> QED  BY <1>4, <1>5 DEF ReportedDone

(* An answer to a repeated identity changes no record. *)
LEMMA ReplayCauses ==
  ASSUME EngineInv, CauseInv, NEW i \in Intents, NEW kind \in MutationKinds, NEW b \in BOOLEAN,
         IdempotentReplay(kind, i, b)
  PROVE  CauseInv'
<1>1. intentRecords[i].orders \in SUBSET OrderIds
  BY RecordFields DEF EngineInv, IdempotentReplay
<1>2. /\ \A o : ReportedDone(o) => ReportedDone(o)'
      /\ \A o : CancelRetained(o) => CancelRetained(o)'
  BY <1>1, RetainedCauses DEF EngineInv, IdempotentReplay
<1> QED  BY <1>2, CausesKept DEF IdempotentReplay, Recorded

(* A new record of a submit is open with one order; that of a flatten is a control's. *)
LEMMA AllocateCauses ==
  ASSUME EngineInv, CauseInv, NEW i \in Intents, NEW kind \in MutationKinds, NEW b \in BOOLEAN,
         AllocateBrokerOrder(i),
         intentRecords' = [intentRecords EXCEPT ![i] = NewRecord({nextBrokerOrder}, b)],
         RetainArtifact(kind, i, {nextBrokerOrder}, b),
         UNCHANGED callbackLog
  PROVE  CauseInv'
<1>1. nextBrokerOrder \in OrderIds
  BY EngineAssumption DEF EngineInv, EngineTypeOK, AllocateBrokerOrder, OrderIds
<1>2. /\ \A o : ReportedDone(o) => ReportedDone(o)'
      /\ \A o : CancelRetained(o) => CancelRetained(o)'
  BY <1>1, RetainedCauses DEF EngineInv
<1>3. /\ intentRecords'[i].orders = {nextBrokerOrder} /\ intentRecords'[i].control = b
      /\ intentRecords'[i].open = ~b
      /\ \A j \in Intents \ {i} : intentRecords'[j] = intentRecords[j]
  BY DEF NewRecord, EngineInv, EngineTypeOK
<1>4. ASSUME NEW j \in Intents, Recorded(j)', ~intentRecords'[j].control
      PROVE  \/ /\ Recorded(j) /\ ~intentRecords[j].control
                /\ intentRecords'[j].orders = intentRecords[j].orders
                /\ ~intentRecords'[j].open => ~intentRecords[j].open
             \/ intentRecords'[j].open /\ \E o : intentRecords'[j].orders = {o}
  <2>1. CASE j = i  BY <1>3, <1>4, <2>1
  <2>2. CASE j # i  BY <1>3, <1>4, <2>2 DEF Recorded
  <2> QED  BY <2>1, <2>2
<1> QED  BY <1>2, <1>4, CausesKept

(* A first cancel closes the records whose orders it names, and no other. *)
LEMMA CancelCauses ==
  ASSUME EngineInv, CauseInv, NEW i \in Intents, CancelOpenOrders(i), ~Recorded(i)
  PROVE  CauseInv'
<1> DEFINE swept == {brokerOrderToIntent[o] : o \in ActiveOpenOrderIds}
<1>1. /\ intentRecords' =
           [j \in Intents |->
              IF j = i THEN NewRecord(ActiveOpenOrderIds, TRUE)
              ELSE IF j \in swept /\ Recorded(j)
                   THEN [intentRecords[j] EXCEPT !.open = FALSE]
                   ELSE intentRecords[j]]
      /\ RetainArtifact("cancel", i, ActiveOpenOrderIds, TRUE)
      /\ UNCHANGED callbackLog
  BY DEF CancelOpenOrders, IdempotentReplay
<1>2. EngineTypeOK /\ ActiveOpenOrderIds \in SUBSET OrderIds  BY ActiveAreOrders DEF EngineInv
<1>3. /\ \A o : ReportedDone(o) => ReportedDone(o)'
      /\ \A o : CancelRetained(o) => CancelRetained(o)'
      /\ \A o \in ActiveOpenOrderIds : CancelRetained(o)'
  BY <1>1, <1>2, RetainedCauses DEF MutationKinds
<1>4. intentRecords'[i].control = TRUE  BY <1>1 DEF NewRecord
<1>5. ASSUME NEW j \in Intents, Recorded(j)', ~intentRecords'[j].control
      PROVE  /\ Recorded(j) /\ ~intentRecords[j].control
             /\ intentRecords'[j].orders = intentRecords[j].orders
             /\ \/ ~intentRecords'[j].open => ~intentRecords[j].open
                \/ \A o \in intentRecords[j].orders : ReportedDone(o)' \/ CancelRetained(o)'
  <2>1. j # i  BY <1>4, <1>5
  <2>2. CASE j \in swept /\ Recorded(j)
    <3>1. intentRecords[j] \in IntentRecord  BY <1>2, <2>2, RecordFields
    <3>2. intentRecords'[j] = [intentRecords[j] EXCEPT !.open = FALSE]  BY <1>1, <2>1, <2>2
    <3>3. /\ intentRecords'[j].control = intentRecords[j].control
          /\ intentRecords'[j].orders = intentRecords[j].orders
      BY <3>1, <3>2 DEF IntentRecord
    <3>4. CASE intentRecords[j].open
      <4>1. Working(j)  BY <1>5, <2>2, <3>3, <3>4 DEF Working
      <4>2. intentRecords[j].orders \subseteq ActiveOpenOrderIds  BY <4>1 DEF ActiveOpenOrderIds
      <4> QED  BY <1>3, <1>5, <2>2, <3>3, <4>2
    <3> QED  BY <1>5, <2>2, <3>3, <3>4
  <2>3. CASE ~(j \in swept /\ Recorded(j))
    <3>1. intentRecords'[j] = intentRecords[j]  BY <1>1, <2>1, <2>3
    <3> QED  BY <1>5, <3>1 DEF Recorded
  <2> QED  BY <2>2, <2>3
<1> QED  BY <1>3, <1>5, CausesKept

(* A callback that closes a record is the cause itself: the record's one order
   is the one it reports on. *)
LEMMA CallbackCauses ==
  ASSUME EngineInv, CauseInv, NEW o \in OrderIds, NEW c \in CallbackIds, NEW kind \in CallbackKinds,
         RecordCallback(o, c, kind)
  PROVE  CauseInv'
<1>0. PICK i \in Intents : i = brokerOrderToIntent[o]
  BY DEF RecordCallback, EngineInv, EngineTypeOK
<1> DEFINE q == intentRecords[i]
           r == CallbackApplied(q, c, kind)
           e == [order |-> o, intent |-> i, id |-> c, kind |-> kind,
                 deduplicated |-> CallbackDuplicate(q, c, kind)]
<1>1. /\ Recorded(i)
      /\ intentRecords' = [intentRecords EXCEPT ![i] = r]
      /\ callbackLog' = Append(callbackLog, e)
      /\ UNCHANGED <<brokerOrderToIntent, artifacts, nextBrokerOrder>>
  BY <1>0 DEF RecordCallback
<1>2. EngineTypeOK /\ q \in IntentRecord  BY <1>1, RecordFields DEF EngineInv
<1>3. /\ r.orders = q.orders /\ r.control = q.control
      /\ CallbackDuplicate(q, c, kind) \in BOOLEAN
  BY <1>2, CallbackAppliedFacts
<1>4. kind = "acknowledged" => r.open = q.open
  <2>1. kind = "acknowledged" => r = [q EXCEPT !.ack = "acknowledged"]  BY DEF CallbackApplied
  <2> HIDE DEF q, r
  <2> QED  BY <1>2, <2>1 DEF IntentRecord
<1>5. e \in Receipt /\ e.order = o /\ e.kind = kind  BY <1>3 DEF Receipt
<1> HIDE DEF q, r, e
<1>6. /\ DOMAIN callbackLog = 1..Len(callbackLog) /\ Len(callbackLog) \in Nat
      /\ DOMAIN callbackLog' = 1..(Len(callbackLog) + 1)
      /\ \A n \in DOMAIN callbackLog : callbackLog'[n] = callbackLog[n]
      /\ callbackLog'[Len(callbackLog) + 1] = e
  BY <1>1, <1>2, <1>5, AppendEntries DEF EngineTypeOK
<1>7. \A p : ReportedDone(p) => ReportedDone(p)'  BY <1>6 DEF ReportedDone
<1>8. \A p : CancelRetained(p) => CancelRetained(p)'  BY <1>1 DEF CancelRetained
<1>9. kind \in {"fill", "cancelled"} => ReportedDone(o)'  BY <1>5, <1>6 DEF ReportedDone
<1>10. /\ intentRecords'[i] = r
       /\ \A j \in Intents \ {i} : intentRecords'[j] = intentRecords[j]
  BY <1>1, <1>2 DEF EngineTypeOK
<1>11. ASSUME NEW j \in Intents, Recorded(j)', ~intentRecords'[j].control
       PROVE  /\ Recorded(j) /\ ~intentRecords[j].control
              /\ intentRecords'[j].orders = intentRecords[j].orders
              /\ \/ ~intentRecords'[j].open => ~intentRecords[j].open
                 \/ \A p \in intentRecords[j].orders : ReportedDone(p)' \/ CancelRetained(p)'
  <2>1. CASE j = i
    <3>1. /\ Recorded(j) /\ ~q.control /\ r.orders = q.orders /\ intentRecords'[j] = r
          /\ intentRecords[j] = q
      BY <1>1, <1>3, <1>10, <1>11, <2>1 DEF q
    <3>2. CASE kind = "acknowledged"  BY <1>4, <3>1, <3>2
    <3>3. CASE kind # "acknowledged"
      <4>1. ReportedDone(o)'  BY <1>9, <3>3 DEF CallbackKinds
      <4>2. o \in q.orders
        <5>1. brokerOrderToIntent[o] # NoIntent  BY <1>0, EngineAssumption
        <5> QED  BY <1>0, <5>1 DEF q, EngineInv, MappingNeverCorrupt
      <4>3. \A p \in q.orders : p = o
        BY <2>1, <3>1, <4>2 DEF CauseInv, OneOrderEach
      <4> QED  BY <3>1, <4>1, <4>3
    <3> QED  BY <3>2, <3>3
  <2>2. CASE j # i  BY <1>10, <1>11, <2>2 DEF Recorded
  <2> QED  BY <2>1, <2>2
<1> QED  BY <1>7, <1>8, <1>11, CausesKept

(* No step of the engine closes an order without a cause. *)
LEMMA EngineStepCauses == EngineInv /\ CauseInv /\ [EngineNext]_engineVars => CauseInv'
<1> SUFFICES ASSUME EngineInv, CauseInv, [EngineNext]_engineVars PROVE CauseInv'
  OBVIOUS
<1>1. ASSUME NEW i \in Intents, NEW request \in OrderRequests, SubmitOrderIntent(i, request)
      PROVE  CauseInv'
  BY <1>1, ReplayCauses, AllocateCauses DEF SubmitOrderIntent, MutationKinds
<1>2. ASSUME NEW i \in Intents, CancelOpenOrders(i) PROVE CauseInv'
  <2>1. CASE Recorded(i)
    BY <1>2, <2>1, ReplayCauses DEF CancelOpenOrders, MutationKinds
  <2>2. CASE ~Recorded(i)  BY <1>2, <2>2, CancelCauses
  <2> QED  BY <2>1, <2>2
<1>3. ASSUME NEW i \in Intents, FlattenPositions(i) PROVE CauseInv'
  BY <1>3, ReplayCauses, AllocateCauses DEF FlattenPositions, MutationKinds
<1>4. ASSUME NEW o \in OrderIds, NEW c \in CallbackIds, NEW kind \in CallbackKinds,
             RecordCallback(o, c, kind)
      PROVE  CauseInv'
  BY <1>4, CallbackCauses
<1>5. CASE UNCHANGED engineVars
  BY <1>5 DEF engineVars, CauseInv, ClosedWithCause, OneOrderEach, Recorded, ReportedDone,
              CancelRetained
<1> QED  BY <1>1, <1>2, <1>3, <1>4, <1>5 DEF EngineNext

(* An order only stops working because the broker reported on that very order,
   or because a cancel that names it was retained. *)
THEOREM EngineClosures == EngineSpec => []ClosedWithCause
<1>1. EngineInit => CauseInv
  BY DEF EngineInit, CauseInv, ClosedWithCause, OneOrderEach, Recorded
<1>2. CauseInv => ClosedWithCause  BY DEF CauseInv
<1> QED  BY <1>1, <1>2, EngineInvariant, EngineStepCauses, PTL DEF EngineSpec
=============================================================================
