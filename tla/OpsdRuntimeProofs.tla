--------------------------- MODULE OpsdRuntimeProofs ---------------------------
(***************************************************************************)
(* The runtime around the engine, for any modules and lane capacities:     *)
(* full lanes never disturb the engine, so all that is proved of the       *)
(* engine holds inside the runtime, and nothing reaches the broker's       *)
(* mailbox that the engine did not make durable first.  The lanes deliver  *)
(* what they accepted, in order and within their capacities; a control is  *)
(* refused by other controls only; and what the engine made and the broker *)
(* never got was refused to its caller.                                    *)
(***************************************************************************)
EXTENDS OpsdRuntime, BrokerMutationEngineProofs, FiniteSetTheorems

(* Every step of the runtime is a step of the engine or leaves it alone. *)
LEMMA RuntimeStepIsEngineStep == [RuntimeNext]_runtimeVars => [EngineNext]_engineVars
<1> SUFFICES ASSUME [RuntimeNext]_runtimeVars PROVE [EngineNext]_engineVars
  OBVIOUS
<1>1. ASSUME NEW i \in Intents, NEW request \in OrderRequests, RuntimeSubmit(i, request)
      PROVE  EngineNext
  BY <1>1 DEF RuntimeSubmit, EngineNext
<1>2. ASSUME NEW i \in Intents, RuntimeCancel(i) PROVE EngineNext
  BY <1>2 DEF RuntimeCancel, EngineNext
<1>3. ASSUME NEW i \in Intents, RuntimeFlatten(i) PROVE EngineNext
  BY <1>3 DEF RuntimeFlatten, EngineNext
<1>4. ASSUME NEW o \in OrderIds, NEW c \in CallbackIds, NEW kind \in CallbackKinds,
             RecordBrokerCallback(o, c, kind)
      PROVE  EngineNext
  BY <1>4 DEF RecordBrokerCallback, EngineNext
<1>5. ASSUME NEW t \in Modules, NEW action \in ControlActions, HandleOperatorRequest(t, action)
      PROVE  UNCHANGED engineVars
  BY <1>5 DEF HandleOperatorRequest
<1>6. ASSUME NEW t \in Modules, EnqueueHealthProbe(t) PROVE UNCHANGED engineVars
  BY <1>6 DEF EnqueueHealthProbe
<1>7. ASSUME PublishReconciliationTick PROVE UNCHANGED engineVars
  BY <1>7 DEF PublishReconciliationTick
<1>8. ASSUME NEW t \in Modules, DrainNext(t) PROVE UNCHANGED engineVars
  BY <1>8 DEF DrainNext
<1>9. CASE UNCHANGED runtimeVars
  BY <1>9 DEF runtimeVars
<1> QED  BY <1>1, <1>2, <1>3, <1>4, <1>5, <1>6, <1>7, <1>8, <1>9 DEF RuntimeNext

(* However the mailboxes accept or refuse, the engine inside the runtime
   behaves as the engine alone. *)
THEOREM RuntimeKeepsEngine == RuntimeSpec => EngineUndisturbed
<1>1. RuntimeInit => EngineInit  BY DEF RuntimeInit
<1> QED  BY <1>1, RuntimeStepIsEngineStep, PTL DEF RuntimeSpec, EngineSpec, EngineUndisturbed

(* The engine's invariant, and with it each of the engine's theorems, carries
   over to the runtime. *)
THEOREM RuntimeEngineInvariant == RuntimeSpec => []EngineInv
BY RuntimeKeepsEngine, EngineInvariant, PTL DEF EngineUndisturbed

----------------------------------------------------------------------------
(* A broker mutation in the dispatch log is the trace of a retained artifact. *)
Retained(m) ==
  m.target = "broker" /\ m.kind # "health_probe" =>
    m.call \in DOMAIN artifacts /\ artifacts[m.call].kind = m.kind

DispatchInv ==
  /\ dispatchLog \in Seq(Messages)
  /\ \A n \in DOMAIN dispatchLog : Retained(dispatchLog[n])

(* Retained evidence is never taken back, so what was retained stays so. *)
LEMMA RetainedForGood ==
  ASSUME EngineInv, [EngineNext]_engineVars, NEW m, Retained(m)
  PROVE  Retained(m)'
<1>1. ASSUME NEW i \in Intents, NEW kind \in MutationKinds, NEW orders, NEW b,
             RetainArtifact(kind, i, orders, b)
      PROVE  Retained(m)'
  <2> DEFINE e == [kind |-> kind, intent |-> i, orders |-> orders, control |-> b]
  <2>1. artifacts \in Seq(Artifact) /\ artifacts' = Append(artifacts, e)
    BY <1>1 DEF RetainArtifact, EngineInv, EngineTypeOK
  <2> HIDE DEF e
  <2>2. \A n \in DOMAIN artifacts : n \in DOMAIN artifacts' /\ artifacts'[n] = artifacts[n]
    BY <2>1
  <2> QED  BY <2>2 DEF Retained
<1>2. ASSUME UNCHANGED artifacts PROVE Retained(m)'
  BY <1>2 DEF Retained
<1> QED
  BY <1>1, <1>2 DEF EngineNext, SubmitOrderIntent, CancelOpenOrders, FlattenPositions,
     RecordCallback, IdempotentReplay, MutationKinds, engineVars

(* The message of a mutation names the artifact its own call retains. *)
LEMMA MutationIsRetained ==
  ASSUME EngineInv, NEW i \in Intents, NEW kind \in MutationKinds, NEW orders, NEW b,
         RetainArtifact(kind, i, orders, b), NEW m, m = BrokerMutation(kind)
  PROVE  m \in Messages /\ Retained(m)'
<1> DEFINE e == [kind |-> kind, intent |-> i, orders |-> orders, control |-> b]
<1>1. /\ artifacts \in Seq(Artifact) /\ artifacts' = Append(artifacts, e)
      /\ Len(artifacts) < MaxArtifacts /\ MaxArtifacts \in Nat
  BY EngineAssumption DEF RetainArtifact, EngineInv, EngineTypeOK
<1>2. Len(artifacts) + 1 \in 0..MaxArtifacts  BY <1>1
<1>3. "broker" \in Modules  BY RuntimeAssumption
<1>4. m \in Messages
  BY <1>2, <1>3 DEF BrokerMutation, Message, Messages, Lanes, MessageKinds
<1>5. m.call = Len(artifacts) + 1 /\ m.kind = kind
  BY DEF BrokerMutation, Message
<1>6. e.kind = kind  OBVIOUS
<1> HIDE DEF e
<1>7. m.call \in DOMAIN artifacts' /\ artifacts'[m.call] = e
  BY <1>1, <1>5
<1> QED  BY <1>4, <1>5, <1>6, <1>7 DEF Retained

(* Dispatching a mutation that is retained keeps every dispatched mutation
   retained. *)
LEMMA DispatchKeepsInv ==
  ASSUME EngineInv, [EngineNext]_engineVars, DispatchInv,
         NEW m \in Messages, Retained(m)', DispatchMessage(m)
  PROVE  DispatchInv'
<1>1. CASE dispatchLog' = Append(dispatchLog, m)
  <2>1. /\ dispatchLog' \in Seq(Messages)
        /\ DOMAIN dispatchLog' = 1..(Len(dispatchLog) + 1)
        /\ \A n \in DOMAIN dispatchLog : dispatchLog'[n] = dispatchLog[n]
        /\ dispatchLog'[Len(dispatchLog) + 1] = m
        /\ DOMAIN dispatchLog = 1..Len(dispatchLog) /\ Len(dispatchLog) \in Nat
    BY <1>1, AppendEntries DEF DispatchInv
  <2>2. ASSUME NEW n \in DOMAIN dispatchLog' PROVE Retained(dispatchLog[n])'
    <3>1. CASE n = Len(dispatchLog) + 1
      BY <2>1, <3>1 DEF Retained
    <3>2. CASE n # Len(dispatchLog) + 1
      <4>1. n \in DOMAIN dispatchLog  BY <2>1, <2>2, <3>2
      <4>2. PICK q : q = dispatchLog[n]  OBVIOUS
      <4>3. Retained(q)  BY <4>1, <4>2 DEF DispatchInv
      <4>4. Retained(q)'  BY <4>3, RetainedForGood
      <4> QED  BY <2>1, <4>1, <4>2, <4>4 DEF Retained
    <3> QED  BY <3>1, <3>2
  <2> QED  BY <2>1, <2>2 DEF DispatchInv
<1>2. CASE UNCHANGED dispatchLog
  BY <1>2, RetainedForGood DEF DispatchInv
<1> QED  BY <1>1, <1>2 DEF DispatchMessage

(* A message that carries no broker mutation is nothing the engine owes an
   artifact for. *)
LEMMA OrdinaryMessages ==
  ASSUME NEW t \in Modules
  PROVE  /\ HealthProbe(t) \in Messages /\ Retained(HealthProbe(t))'
         /\ ReconciliationTick \in Messages /\ Retained(ReconciliationTick)'
         /\ \A action \in ControlActions : t # "broker" =>
              ControlAction(t, action) \in Messages /\ Retained(ControlAction(t, action))'
<1>1. 0 \in 0..MaxArtifacts  BY EngineAssumption
<1> QED
  BY <1>1, RuntimeAssumption
  DEF HealthProbe, ReconciliationTick, ControlAction, Message, Messages, Lanes, MessageKinds,
      Retained

(* No step of the runtime dispatches a mutation that was not retained first. *)
LEMMA RuntimeStepDispatchInv ==
  EngineInv /\ DispatchInv /\ [RuntimeNext]_runtimeVars => DispatchInv'
<1> SUFFICES ASSUME EngineInv, DispatchInv, [RuntimeNext]_runtimeVars PROVE DispatchInv'
  OBVIOUS
<1>0. [EngineNext]_engineVars  BY RuntimeStepIsEngineStep
<1>1. ASSUME NEW i \in Intents, NEW kind \in MutationKinds, NEW orders, NEW b,
             RetainArtifact(kind, i, orders, b), DispatchMessage(BrokerMutation(kind))
      PROVE  DispatchInv'
  <2>1. PICK m : m = BrokerMutation(kind)  OBVIOUS
  <2>2. m \in Messages /\ Retained(m)'  BY <1>1, <2>1, MutationIsRetained
  <2>3. DispatchMessage(m)  BY <1>1, <2>1
  <2> QED  BY <1>0, <2>2, <2>3, DispatchKeepsInv
<1>2. ASSUME UNCHANGED dispatchLog PROVE DispatchInv'
  BY <1>0, <1>2, RetainedForGood DEF DispatchInv
<1>3. ASSUME NEW i \in Intents, NEW request \in OrderRequests, RuntimeSubmit(i, request)
      PROVE  DispatchInv'
  BY <1>1, <1>3 DEF RuntimeSubmit, SubmitOrderIntent, IdempotentReplay, MutationKinds
<1>4. ASSUME NEW i \in Intents, RuntimeCancel(i) PROVE DispatchInv'
  BY <1>1, <1>4 DEF RuntimeCancel, CancelOpenOrders, IdempotentReplay, MutationKinds
<1>5. ASSUME NEW i \in Intents, RuntimeFlatten(i) PROVE DispatchInv'
  BY <1>1, <1>5 DEF RuntimeFlatten, FlattenPositions, IdempotentReplay, MutationKinds
<1>6. ASSUME NEW o \in OrderIds, NEW c \in CallbackIds, NEW kind \in CallbackKinds,
             RecordBrokerCallback(o, c, kind)
      PROVE  DispatchInv'
  BY <1>2, <1>6 DEF RecordBrokerCallback
<1>7. ASSUME NEW t \in Modules, NEW action \in ControlActions, HandleOperatorRequest(t, action)
      PROVE  DispatchInv'
  BY <1>0, <1>7, OrdinaryMessages, DispatchKeepsInv DEF HandleOperatorRequest
<1>8. ASSUME NEW t \in Modules, EnqueueHealthProbe(t) PROVE DispatchInv'
  BY <1>0, <1>8, OrdinaryMessages, DispatchKeepsInv DEF EnqueueHealthProbe
<1>9. ASSUME PublishReconciliationTick PROVE DispatchInv'
  BY <1>0, <1>9, OrdinaryMessages, DispatchKeepsInv, RuntimeAssumption
  DEF PublishReconciliationTick
<1>10. ASSUME NEW t \in Modules, DrainNext(t) PROVE DispatchInv'
  BY <1>2, <1>10 DEF DrainNext
<1>11. CASE UNCHANGED runtimeVars
  BY <1>2, <1>11 DEF runtimeVars
<1> QED
  BY <1>3, <1>4, <1>5, <1>6, <1>7, <1>8, <1>9, <1>10, <1>11 DEF RuntimeNext

(* Nothing but probes and mutations whose artifact and intent record the
   engine made durable first is ever dispatched to the broker. *)
THEOREM RuntimeGoverns == RuntimeSpec => []BrokerMessagesAreGoverned
<1>1. RuntimeInit => DispatchInv
  BY DEF RuntimeInit, DispatchInv
<1>2. EngineInv /\ DispatchInv => BrokerMessagesAreGoverned
  BY DEF EngineInv, ArtifactsMatchRecords, DispatchInv, Retained, BrokerMessagesAreGoverned
<1> QED
  BY <1>1, <1>2, RuntimeEngineInvariant, RuntimeStepDispatchInv, PTL DEF RuntimeSpec

----------------------------------------------------------------------------
(* What one step does to the mailboxes and the logs: an engine mutation is
   retained and dispatched, a message without a mutation is dispatched, a
   callback is recorded, or a mailbox is drained. *)
OrdinaryMessage(m) ==
  /\ m \in Messages /\ m.call = 0
  /\ m.target = "broker" => m.priority = "standard"

Retains(kind) ==
  /\ Len(artifacts) \in Nat /\ Len(artifacts) < MaxArtifacts
  /\ DOMAIN artifacts = 1..Len(artifacts)
  /\ artifacts' # artifacts
  /\ DOMAIN artifacts' = 1..(Len(artifacts) + 1)
  /\ Last(artifacts').kind = kind

MutationStep ==
  \E kind \in MutationKinds : Retains(kind) /\ DispatchMessage(BrokerMutation(kind))

OrdinaryStep == UNCHANGED artifacts /\ \E m \in Messages : OrdinaryMessage(m) /\ DispatchMessage(m)

(* What a step of the runtime does to mailboxes and logs: it retains and
   dispatches a mutation, dispatches an ordinary message, drains, or does
   nothing. *)
LEMMA RuntimeSteps ==
  [RuntimeNext]_runtimeVars /\ EngineInv =>
    \/ MutationStep
    \/ OrdinaryStep
    \/ \E t \in Modules : DrainNext(t)
    \/ UNCHANGED <<artifacts, mailboxes, dispatchLog, drained>>
<1> SUFFICES ASSUME [RuntimeNext]_runtimeVars, EngineInv
             PROVE  \/ MutationStep
                    \/ OrdinaryStep
                    \/ \E t \in Modules : DrainNext(t)
                    \/ UNCHANGED <<artifacts, mailboxes, dispatchLog, drained>>
  OBVIOUS
<1>0. 0 \in 0..MaxArtifacts  BY EngineAssumption
<1>r. ASSUME NEW i \in Intents, NEW kind \in MutationKinds, NEW orders, NEW b,
             RetainArtifact(kind, i, orders, b), DispatchMessage(BrokerMutation(kind))
      PROVE  MutationStep
  <2> DEFINE e == [kind |-> kind, intent |-> i, orders |-> orders, control |-> b]
  <2>1. artifacts \in Seq(Artifact) /\ artifacts' = Append(artifacts, e) /\ Len(artifacts) < MaxArtifacts
    BY <1>r DEF RetainArtifact, EngineInv, EngineTypeOK
  <2>2. e.kind = kind  OBVIOUS
  <2> HIDE DEF e
  <2>3. /\ Len(artifacts) \in Nat /\ DOMAIN artifacts = 1..Len(artifacts)
        /\ DOMAIN artifacts' = 1..(Len(artifacts) + 1) /\ Len(artifacts') = Len(artifacts) + 1
        /\ artifacts'[Len(artifacts) + 1] = e
    BY <2>1
  <2>4. artifacts' # artifacts  BY <2>3
  <2> QED  BY <1>r, <2>1, <2>2, <2>3, <2>4 DEF MutationStep, Retains, Last
<1>1. ASSUME NEW i \in Intents, NEW request \in OrderRequests, RuntimeSubmit(i, request)
      PROVE  MutationStep
  BY <1>r, <1>1 DEF RuntimeSubmit, SubmitOrderIntent, IdempotentReplay, MutationKinds
<1>2. ASSUME NEW i \in Intents, RuntimeCancel(i) PROVE MutationStep
  BY <1>r, <1>2 DEF RuntimeCancel, CancelOpenOrders, IdempotentReplay, MutationKinds
<1>3. ASSUME NEW i \in Intents, RuntimeFlatten(i) PROVE MutationStep
  BY <1>r, <1>3 DEF RuntimeFlatten, FlattenPositions, IdempotentReplay, MutationKinds
<1>4. ASSUME NEW o \in OrderIds, NEW c \in CallbackIds, NEW kind \in CallbackKinds,
             RecordBrokerCallback(o, c, kind)
      PROVE  UNCHANGED <<artifacts, mailboxes, dispatchLog, drained>>
  BY <1>4 DEF RecordBrokerCallback, RecordCallback
<1>5. ASSUME NEW t \in Modules, NEW action \in ControlActions, HandleOperatorRequest(t, action)
      PROVE  OrdinaryStep
  <2>1. OrdinaryMessage(ControlAction(t, action))
    BY <1>0, <1>5, RuntimeAssumption
    DEF HandleOperatorRequest, OrdinaryMessage, ControlAction, Message, Messages, Lanes, MessageKinds
  <2> QED  BY <1>5, <2>1 DEF HandleOperatorRequest, OrdinaryStep, OrdinaryMessage, engineVars
<1>6. ASSUME NEW t \in Modules, EnqueueHealthProbe(t) PROVE OrdinaryStep
  <2>1. OrdinaryMessage(HealthProbe(t))
    BY <1>0 DEF OrdinaryMessage, HealthProbe, Message, Messages, Lanes, MessageKinds
  <2> QED  BY <1>6, <2>1 DEF EnqueueHealthProbe, OrdinaryStep, OrdinaryMessage, engineVars
<1>7. ASSUME PublishReconciliationTick PROVE OrdinaryStep
  <2>1. OrdinaryMessage(ReconciliationTick)
    BY <1>0, RuntimeAssumption DEF OrdinaryMessage, ReconciliationTick, Message, Messages, Lanes, MessageKinds
  <2> QED  BY <1>7, <2>1 DEF PublishReconciliationTick, OrdinaryStep, OrdinaryMessage, engineVars
<1>8. CASE UNCHANGED runtimeVars
  BY <1>8 DEF runtimeVars, engineVars
<1> QED  BY <1>1, <1>2, <1>3, <1>4, <1>5, <1>6, <1>7, <1>8 DEF RuntimeNext

(* The mailboxes as records, whatever lane a message names. *)
Mailbox == [standard : Seq(Messages), high : Seq(Messages), rejected : 0..MaxRejected]

MailboxTypeOK == mailboxes \in [Modules -> Mailbox]

(* A lane is a queue of messages. *)
LEMMA LaneType ==
  ASSUME MailboxTypeOK, NEW t \in Modules, NEW lane \in Lanes
  PROVE  Lane(t, lane) \in Seq(Messages) /\ mailboxes[t].rejected \in 0..MaxRejected
BY DEF MailboxTypeOK, Mailbox, Lane, Lanes

(* An accepted message enters its own lane at the end; no other lane moves. *)
LEMMA AcceptedLanes ==
  ASSUME MailboxTypeOK, NEW m \in Messages, Accept(m)
  PROVE  /\ MailboxTypeOK'
         /\ \A t \in Modules, lane \in Lanes :
              Lane(t, lane)' = IF t = m.target /\ lane = m.priority THEN Append(Lane(t, lane), m)
                               ELSE Lane(t, lane)
         /\ \A t \in Modules : mailboxes'[t].rejected = mailboxes[t].rejected
<1>1. m.target \in Modules /\ m.priority \in Lanes  BY DEF Messages
<1>2. CASE m.priority = "high"
  <2>1. mailboxes' = [mailboxes EXCEPT ![m.target].high = Append(@, m)]
    BY <1>2 DEF Accept
  <2>2. PICK u \in Modules : u = m.target  BY <1>1
  <2>3. mailboxes[u].high \in Seq(Messages) /\ mailboxes[u] \in Mailbox  BY DEF MailboxTypeOK, Mailbox
  <2>4. PICK q : q = Append(mailboxes[u].high, m)  OBVIOUS
  <2>5. q \in Seq(Messages)  BY <2>3, <2>4
  <2>6. mailboxes' = [mailboxes EXCEPT ![u].high = q]  BY <2>1, <2>2, <2>4
  <2>7. MailboxTypeOK'  BY <2>5, <2>6 DEF MailboxTypeOK, Mailbox
  <2>8. /\ mailboxes'[u].high = q
        /\ mailboxes'[u].standard = mailboxes[u].standard
        /\ mailboxes'[u].rejected = mailboxes[u].rejected
        /\ \A t \in Modules : t # u => mailboxes'[t] = mailboxes[t]
    BY <2>6 DEF MailboxTypeOK, Mailbox
  <2> QED  BY <1>2, <2>2, <2>4, <2>7, <2>8 DEF Lane, Lanes
<1>3. CASE m.priority = "standard"
  <2>1. mailboxes' = [mailboxes EXCEPT ![m.target].standard = Append(@, m)]
    BY <1>3 DEF Accept
  <2>2. PICK u \in Modules : u = m.target  BY <1>1
  <2>3. mailboxes[u].standard \in Seq(Messages) /\ mailboxes[u] \in Mailbox  BY DEF MailboxTypeOK, Mailbox
  <2>4. PICK q : q = Append(mailboxes[u].standard, m)  OBVIOUS
  <2>5. q \in Seq(Messages)  BY <2>3, <2>4
  <2>6. mailboxes' = [mailboxes EXCEPT ![u].standard = q]  BY <2>1, <2>2, <2>4
  <2>7. MailboxTypeOK'  BY <2>5, <2>6 DEF MailboxTypeOK, Mailbox
  <2>8. /\ mailboxes'[u].standard = q
        /\ mailboxes'[u].high = mailboxes[u].high
        /\ mailboxes'[u].rejected = mailboxes[u].rejected
        /\ \A t \in Modules : t # u => mailboxes'[t] = mailboxes[t]
    BY <2>6 DEF MailboxTypeOK, Mailbox
  <2> QED  BY <1>3, <2>2, <2>4, <2>7, <2>8 DEF Lane, Lanes
<1> QED  BY <1>1, <1>2, <1>3 DEF Lanes

(* A refused message moves no lane and is counted. *)
LEMMA RefusedLanes ==
  ASSUME MailboxTypeOK, NEW m \in Messages, Refuse(m)
  PROVE  /\ MailboxTypeOK'
         /\ \A t \in Modules, lane \in Lanes : Lane(t, lane)' = Lane(t, lane)
         /\ \A t \in Modules :
              mailboxes'[t].rejected = IF t = m.target THEN mailboxes[t].rejected + 1
                                       ELSE mailboxes[t].rejected
<1>1. m.target \in Modules  BY DEF Messages
<1>2. MaxRejected \in Nat  BY MailboxAssumption
<1>3. mailboxes[m.target].rejected + 1 \in 0..MaxRejected
  BY <1>1, <1>2 DEF MailboxTypeOK, Mailbox, Refuse
<1> QED  BY <1>1, <1>3 DEF MailboxTypeOK, Mailbox, Lane, Lanes, Refuse

(* pop_next takes the head of one lane that has a message. *)
LEMMA PoppedLanes ==
  ASSUME MailboxTypeOK, NEW u \in Modules, PopNext(u)
  PROVE  /\ MailboxTypeOK'
         /\ NextLane(u) \in Lanes /\ Lane(u, NextLane(u)) # <<>>
         /\ \A t \in Modules, lane \in Lanes :
              Lane(t, lane)' = IF t = u /\ lane = NextLane(u) THEN Tail(Lane(t, lane)) ELSE Lane(t, lane)
         /\ \A t \in Modules : mailboxes'[t].rejected = mailboxes[t].rejected
<1>1. NextLane(u) \in Lanes /\ Lane(u, NextLane(u)) # <<>>
  BY DEF NextLane, Lanes, PopNext
<1>2. CASE NextLane(u) = "high"
  <2>1. mailboxes' = [mailboxes EXCEPT ![u].high = Tail(@)]
    BY <1>2 DEF PopNext
  <2>2. mailboxes[u].high # <<>> /\ mailboxes[u].high \in Seq(Messages)
    BY <1>1, <1>2 DEF Lane, MailboxTypeOK, Mailbox
  <2>3. Tail(mailboxes[u].high) \in Seq(Messages)  BY <2>2
  <2> QED  BY <1>1, <1>2, <2>1, <2>3 DEF MailboxTypeOK, Mailbox, Lane, Lanes
<1>3. CASE NextLane(u) = "standard"
  <2>1. mailboxes' = [mailboxes EXCEPT ![u].standard = Tail(@)]
    BY <1>3 DEF PopNext
  <2>2. mailboxes[u].standard # <<>> /\ mailboxes[u].standard \in Seq(Messages)
    BY <1>1, <1>3 DEF Lane, MailboxTypeOK, Mailbox
  <2>3. Tail(mailboxes[u].standard) \in Seq(Messages)  BY <2>2
  <2> QED  BY <1>1, <1>3, <2>1, <2>3 DEF MailboxTypeOK, Mailbox, Lane, Lanes
<1> QED  BY <1>1, <1>2, <1>3 DEF Lanes

----------------------------------------------------------------------------
(* A queue grows at its back, and hands its front to what was delivered. *)
LEMMA QueueTail ==
  ASSUME NEW S, NEW s \in Seq(S), NEW q \in Seq(S), NEW e \in S,
         NEW r, r = Append(q, e), NEW t, t = s \o q
  PROVE  s \o r = Append(t, e)
OBVIOUS

(* Moving the head of a queue to the end of what came before it changes nothing
   of the two together. *)
LEMMA QueueHead ==
  ASSUME NEW S, NEW s \in Seq(S), NEW q \in Seq(S), q # <<>>
  PROVE  s \o q = Append(s, Head(q)) \o Tail(q)
<1> DEFINE r == Append(s, Head(q)) \o Tail(q)
<1>1. /\ Head(q) = q[1] /\ Head(q) \in S /\ Tail(q) \in Seq(S) /\ Len(q) \in Nat \ {0}
      /\ Len(Tail(q)) = Len(q) - 1
      /\ \A i \in 1..(Len(q) - 1) : Tail(q)[i] = q[i + 1]
      /\ Len(s) \in Nat
  OBVIOUS
<1>h. PICK h \in S : h = Head(q)  BY <1>1
<1>a. Append(s, h) \in Seq(S)  OBVIOUS
<1>2. PICK t \in Seq(S) : t = Append(s, Head(q))  BY <1>a, <1>h, Zenon
<1>3. Len(t) = Len(s) + 1 /\ t[Len(s) + 1] = q[1] /\ \A i \in 1..Len(s) : t[i] = s[i]
  BY <1>1, <1>2
<1>4. /\ r = t \o Tail(q) /\ r \in Seq(S) /\ Len(r) = Len(s) + Len(q)
      /\ \A i \in 1..Len(r) : r[i] = IF i <= Len(t) THEN t[i] ELSE Tail(q)[i - Len(t)]
  BY <1>1, <1>2, <1>3, ConcatProperties
<1>5. /\ s \o q \in Seq(S) /\ Len(s \o q) = Len(s) + Len(q)
      /\ \A i \in 1..Len(s \o q) : (s \o q)[i] = IF i <= Len(s) THEN s[i] ELSE q[i - Len(s)]
  BY <1>1, ConcatProperties
<1> HIDE DEF r
<1>6. \A i \in 1..Len(r) : (s \o q)[i] = r[i]
  <2> SUFFICES ASSUME NEW i \in 1..Len(r) PROVE (s \o q)[i] = r[i]  OBVIOUS
  <2>1. CASE i <= Len(s)  BY <1>1, <1>3, <1>4, <1>5, <2>1
  <2>2. CASE i = Len(s) + 1  BY <1>1, <1>3, <1>4, <1>5, <2>2
  <2>3. CASE i > Len(s) + 1
    <3>1. i - Len(t) \in 1..(Len(q) - 1)  BY <1>1, <1>3, <1>4, <2>3
    <3>2. r[i] = q[(i - Len(t)) + 1]  BY <1>1, <1>3, <1>4, <2>3, <3>1
    <3> QED  BY <1>1, <1>3, <1>4, <1>5, <2>3, <3>2
  <2> QED  BY <1>1, <1>4, <2>1, <2>2, <2>3
<1> QED  BY <1>4, <1>5, <1>6, SeqEqual DEF r

(* A message appended to a log is appended to what its lane says of the log. *)
LEMMA OfLaneAppend ==
  ASSUME NEW q \in Seq(Messages), NEW m \in Messages, NEW lane
  PROVE  OfLane(Append(q, m), lane) =
           IF m.priority = lane THEN Append(OfLane(q, lane), m) ELSE OfLane(q, lane)
<1> DEFINE r == Append(q, m)
           P == {n \in DOMAIN r : r[n].priority = lane}
           Q == {n \in DOMAIN q : q[n].priority = lane}
<1>1. /\ DOMAIN r = 1..(Len(q) + 1) /\ DOMAIN q = 1..Len(q) /\ Len(q) \in Nat
      /\ \A n \in DOMAIN q : r[n] = q[n] /\ r[Len(q) + 1] = m
      /\ r[Len(q) + 1] = m
  OBVIOUS
<1>2. Picked(r, P) = IF Len(q) + 1 \in P THEN Append(Picked(q, P), m) ELSE Picked(q, P)
  <2> HIDE DEF P
  <2> QED  BY PickedAppend
<1>3. Picked(q, P) = Picked(q, Q)
  <2> HIDE DEF r
  <2>1. \A n \in DOMAIN q : n \in P <=> n \in Q  BY <1>1
  <2> HIDE DEF P, Q
  <2> QED  BY <2>1, PickedSame
<1>4. Len(q) + 1 \in P <=> m.priority = lane
  <2> HIDE DEF r
  <2> QED  BY <1>1
<1> QED  BY <1>2, <1>3, <1>4 DEF OfLane

(* A dispatched message is appended to what its lane accepted. *)
LEMMA AcceptedInAppend ==
  ASSUME dispatchLog \in Seq(Messages), NEW m \in Messages, dispatchLog' = Append(dispatchLog, m),
         NEW t, NEW lane
  PROVE  AcceptedIn(t, lane)' =
           IF m.target = t /\ m.priority = lane THEN Append(AcceptedIn(t, lane), m)
           ELSE AcceptedIn(t, lane)
<1> DEFINE q == dispatchLog
           r == Append(q, m)
           P == {n \in DOMAIN r : r[n].target = t /\ r[n].priority = lane}
           Q == {n \in DOMAIN q : q[n].target = t /\ q[n].priority = lane}
<1>1. /\ DOMAIN r = 1..(Len(q) + 1) /\ DOMAIN q = 1..Len(q) /\ Len(q) \in Nat
      /\ \A n \in DOMAIN q : r[n] = q[n]
      /\ r[Len(q) + 1] = m
  OBVIOUS
<1>2. Picked(r, P) = IF Len(q) + 1 \in P THEN Append(Picked(q, P), m) ELSE Picked(q, P)
  <2> HIDE DEF P
  <2> QED  BY PickedAppend
<1>3. Picked(q, P) = Picked(q, Q)
  <2> HIDE DEF r
  <2>1. \A n \in DOMAIN q : n \in P <=> n \in Q  BY <1>1
  <2> HIDE DEF P, Q
  <2> QED  BY <2>1, PickedSame
<1>4. Len(q) + 1 \in P <=> m.target = t /\ m.priority = lane
  <2> HIDE DEF r
  <2> QED  BY <1>1
<1>5. AcceptedIn(t, lane)' = Picked(r, P)  BY DEF AcceptedIn
<1> QED  BY <1>2, <1>3, <1>4, <1>5 DEF AcceptedIn

(* Lossless order is not inductive by itself: that a drained message goes to
   the history of its own lane needs every queued message to be where its
   priority put it, and the broker's reserved lane to hold nothing but
   cancels and flattens. *)
RoutedTo(t, lane, m) ==
  /\ m.priority = lane
  /\ t = "broker" /\ lane = "high" => m.kind \in {"cancel", "flatten"}

LanesInv ==
  /\ MailboxTypeOK
  /\ dispatchLog \in Seq(Messages)
  /\ drained \in [Modules -> Seq(Messages)]
  /\ \A t \in Modules, lane \in Lanes :
       /\ Len(Lane(t, lane)) <= Capacity(t, lane)
       /\ \A n \in DOMAIN Lane(t, lane) : RoutedTo(t, lane, Lane(t, lane)[n])
  /\ LanesAreLosslessFifo

(* Accepting keeps each lane equal to what was accepted less what was drained. *)
LEMMA AcceptKeepsLanes ==
  ASSUME LanesInv, NEW m \in Messages, RoutedTo(m.target, m.priority, m),
         Accept(m), dispatchLog' = Append(dispatchLog, m), UNCHANGED drained
  PROVE  LanesInv'
<1>1. /\ MailboxTypeOK'
      /\ \A t \in Modules, lane \in Lanes :
           Lane(t, lane)' = IF t = m.target /\ lane = m.priority THEN Append(Lane(t, lane), m)
                            ELSE Lane(t, lane)
  BY AcceptedLanes DEF LanesInv
<1>2. dispatchLog' \in Seq(Messages)  BY DEF LanesInv
<1>3. ASSUME NEW t \in Modules, NEW lane \in Lanes
      PROVE  /\ Len(Lane(t, lane)') <= Capacity(t, lane)
             /\ \A n \in DOMAIN Lane(t, lane)' : RoutedTo(t, lane, Lane(t, lane)'[n])
  <2>1. CASE t = m.target /\ lane = m.priority
    <3>1. PICK q \in Seq(Messages) : q = Lane(t, lane)  BY LaneType DEF LanesInv
    <3>2. Lane(t, lane)' = Append(q, m)  BY <1>1, <2>1, <3>1
    <3>3. Len(q) < Capacity(t, lane)  BY <2>1, <3>1 DEF Accept, Fits
    <3>4. Capacity(t, lane) \in Nat  BY MailboxAssumption DEF Capacity
    <3>5. /\ Len(Append(q, m)) = Len(q) + 1 /\ Len(q) \in Nat
          /\ DOMAIN Append(q, m) = 1..(Len(q) + 1) /\ DOMAIN q = 1..Len(q)
          /\ \A n \in DOMAIN q : Append(q, m)[n] = q[n]
          /\ Append(q, m)[Len(q) + 1] = m
      BY <3>1
    <3>6. \A n \in DOMAIN q : RoutedTo(t, lane, q[n])  BY <3>1 DEF LanesInv
    <3>7. ASSUME NEW n \in DOMAIN Append(q, m) PROVE RoutedTo(t, lane, Append(q, m)[n])
      <4>1. CASE n = Len(q) + 1  BY <2>1, <3>5, <4>1
      <4>2. CASE n \in DOMAIN q  BY <3>5, <3>6, <4>2
      <4> QED  BY <3>5, <4>1, <4>2
    <3>8. Len(Append(q, m)) <= Capacity(t, lane)  BY <3>3, <3>4, <3>5
    <3> QED  BY <3>2, <3>7, <3>8
  <2>2. CASE ~(t = m.target /\ lane = m.priority)
    BY <1>1, <2>2 DEF LanesInv
  <2> QED  BY <2>1, <2>2
<1>4. ASSUME NEW t \in Modules, NEW lane \in Lanes
      PROVE  AcceptedIn(t, lane)' = OfLane(drained[t], lane) \o Lane(t, lane)'
  <2>1. /\ AcceptedIn(t, lane) = OfLane(drained[t], lane) \o Lane(t, lane)
        /\ OfLane(drained[t], lane) \in Seq(Messages)
        /\ Lane(t, lane) \in Seq(Messages)
    BY PickedType, LaneType DEF LanesInv, LanesAreLosslessFifo, OfLane
  <2>2. AcceptedIn(t, lane)' = IF m.target = t /\ m.priority = lane THEN Append(AcceptedIn(t, lane), m)
                               ELSE AcceptedIn(t, lane)
    BY AcceptedInAppend DEF LanesInv
  <2>3. CASE m.target = t /\ m.priority = lane
    <3>1. Lane(t, lane)' = Append(Lane(t, lane), m)  BY <1>1, <2>3
    <3>2. OfLane(drained[t], lane) \o Lane(t, lane)' = Append(AcceptedIn(t, lane), m)
      BY <2>1, <3>1, QueueTail
    <3> QED  BY <2>2, <2>3, <3>2, Zenon
  <2>4. CASE ~(m.target = t /\ m.priority = lane)
    <3>1. Lane(t, lane)' = Lane(t, lane)  BY <1>1, <2>4
    <3> QED  BY <2>1, <2>2, <2>4, <3>1
  <2> QED  BY <2>3, <2>4
<1>5. LanesAreLosslessFifo'
  <2>1. ASSUME NEW t \in Modules, NEW lane \in Lanes
        PROVE  AcceptedIn(t, lane)' = OfLane(drained[t], lane)' \o Lane(t, lane)'
    BY <1>4 DEF OfLane
  <2> QED  BY <2>1 DEF LanesAreLosslessFifo, Lanes
<1> QED  BY <1>1, <1>2, <1>3, <1>5 DEF LanesInv, Capacity

(* Draining keeps it as well. *)
LEMMA DrainKeepsLanes ==
  ASSUME LanesInv, NEW u \in Modules, DrainNext(u)
  PROVE  LanesInv'
<1>1. /\ MailboxTypeOK'
      /\ NextLane(u) \in Lanes /\ Lane(u, NextLane(u)) # <<>>
      /\ \A t \in Modules, lane \in Lanes :
           Lane(t, lane)' = IF t = u /\ lane = NextLane(u) THEN Tail(Lane(t, lane)) ELSE Lane(t, lane)
  BY PoppedLanes DEF LanesInv, DrainNext
<1>2. PICK q \in Seq(Messages) : q = Lane(u, NextLane(u))  BY <1>1, LaneType DEF LanesInv
<1>3. PICK m \in Messages : m = Head(q)  BY <1>1, <1>2
<1>4. /\ q # <<>> /\ m = q[1] /\ Tail(q) \in Seq(Messages) /\ Len(q) \in Nat \ {0}
      /\ DOMAIN q = 1..Len(q)
      /\ Len(Tail(q)) = Len(q) - 1 /\ DOMAIN Tail(q) = 1..(Len(q) - 1)
      /\ \A i \in 1..(Len(q) - 1) : Tail(q)[i] = q[i + 1]
  BY <1>1, <1>2, <1>3
<1>5. /\ drained' = [drained EXCEPT ![u] = Append(drained[u], m)]
      /\ UNCHANGED dispatchLog
  BY <1>2, <1>3 DEF DrainNext
<1>6. drained' \in [Modules -> Seq(Messages)] /\ dispatchLog' \in Seq(Messages)
  BY <1>5 DEF LanesInv
<1>7. ASSUME NEW t \in Modules, NEW lane \in Lanes
      PROVE  /\ Len(Lane(t, lane)') <= Capacity(t, lane)
             /\ \A n \in DOMAIN Lane(t, lane)' : RoutedTo(t, lane, Lane(t, lane)'[n])
  <2>1. CASE t = u /\ lane = NextLane(u)
    <3>1. Lane(t, lane)' = Tail(q)  BY <1>1, <1>2, <2>1
    <3>2. Len(q) <= Capacity(t, lane) /\ \A n \in DOMAIN q : RoutedTo(t, lane, q[n])
      BY <1>2, <2>1 DEF LanesInv
    <3>3. Capacity(t, lane) \in Nat  BY MailboxAssumption DEF Capacity
    <3>4. ASSUME NEW n \in DOMAIN Tail(q) PROVE RoutedTo(t, lane, Tail(q)[n])
      <4>1. n + 1 \in DOMAIN q /\ Tail(q)[n] = q[n + 1]  BY <1>4
      <4> QED  BY <3>2, <4>1
    <3>5. Len(Tail(q)) <= Capacity(t, lane)  BY <1>4, <3>2, <3>3
    <3> QED  BY <3>1, <3>4, <3>5
  <2>2. CASE ~(t = u /\ lane = NextLane(u))
    BY <1>1, <2>2 DEF LanesInv
  <2> QED  BY <2>1, <2>2
<1>8. m.priority = NextLane(u)
  <2>1. 1 \in DOMAIN q  BY <1>4
  <2> QED  BY <1>1, <1>2, <1>4, <2>1 DEF LanesInv, RoutedTo
<1>9. ASSUME NEW t \in Modules, NEW lane \in Lanes
      PROVE  AcceptedIn(t, lane) = OfLane(drained'[t], lane) \o Lane(t, lane)'
  <2>1. /\ AcceptedIn(t, lane) = OfLane(drained[t], lane) \o Lane(t, lane)
        /\ drained[t] \in Seq(Messages) /\ OfLane(drained[t], lane) \in Seq(Messages)
    BY PickedType DEF LanesInv, LanesAreLosslessFifo, OfLane
  <2>2. OfLane(Append(drained[t], m), lane) =
          IF m.priority = lane THEN Append(OfLane(drained[t], lane), m) ELSE OfLane(drained[t], lane)
    BY <2>1, OfLaneAppend
  <2>3. CASE t = u /\ lane = NextLane(u)
    <3>1. drained'[t] = Append(drained[t], m)  BY <1>5, <2>3 DEF LanesInv
    <3>2. OfLane(drained'[t], lane) = Append(OfLane(drained[t], lane), m)
      BY <1>8, <2>2, <2>3, <3>1
    <3>3. Lane(t, lane)' = Tail(q) /\ Lane(t, lane) = q  BY <1>1, <1>2, <2>3
    <3>4. OfLane(drained[t], lane) \o q = Append(OfLane(drained[t], lane), Head(q)) \o Tail(q)
      BY <1>4, <2>1, QueueHead
    <3> QED  BY <1>3, <2>1, <3>2, <3>3, <3>4, Zenon
  <2>4. CASE t = u /\ lane # NextLane(u)
    <3>1. drained'[t] = Append(drained[t], m)  BY <1>5, <2>4 DEF LanesInv
    <3>2. OfLane(drained'[t], lane) = OfLane(drained[t], lane)
      BY <1>8, <2>2, <2>4, <3>1
    <3>3. Lane(t, lane)' = Lane(t, lane)  BY <1>1, <2>4
    <3> QED  BY <2>1, <3>2, <3>3, Zenon
  <2>5. CASE t # u
    <3>1. drained'[t] = drained[t]  BY <1>5, <2>5 DEF LanesInv
    <3>2. Lane(t, lane)' = Lane(t, lane)  BY <1>1, <2>5
    <3> QED  BY <2>1, <3>1, <3>2, Zenon
  <2> QED  BY <2>3, <2>4, <2>5
<1>10. LanesAreLosslessFifo'
  <2>1. ASSUME NEW t \in Modules, NEW lane \in Lanes
        PROVE  AcceptedIn(t, lane)' = OfLane(drained[t], lane)' \o Lane(t, lane)'
    BY <1>5, <1>9 DEF OfLane, AcceptedIn
  <2> QED  BY <2>1 DEF LanesAreLosslessFifo, Lanes
<1> QED  BY <1>1, <1>6, <1>7, <1>10 DEF LanesInv, Capacity

(* The broker's mutations are its controls, but for submits. *)
LEMMA MutationRoute ==
  ASSUME NEW kind \in MutationKinds, Retains(kind)
  PROVE  /\ BrokerMutation(kind) \in Messages
         /\ BrokerMutation(kind).target = "broker"
         /\ BrokerMutation(kind).call = Len(artifacts) + 1
         /\ BrokerMutation(kind).kind = kind
         /\ BrokerMutation(kind).priority = IF kind = "submit" THEN "standard" ELSE "high"
         /\ RoutedTo("broker", BrokerMutation(kind).priority, BrokerMutation(kind))
<1>1. Len(artifacts) + 1 \in 0..MaxArtifacts  BY EngineAssumption DEF Retains
<1>2. "broker" \in Modules  BY RuntimeAssumption
<1> QED
  BY <1>1, <1>2 DEF BrokerMutation, Message, Messages, Lanes, MessageKinds, MutationKinds, RoutedTo

(* So does dispatching, accepted or refused. *)
LEMMA DispatchKeepsLanes ==
  ASSUME LanesInv, NEW m \in Messages, RoutedTo(m.target, m.priority, m), DispatchMessage(m)
  PROVE  LanesInv'
<1>1. CASE Accept(m) /\ dispatchLog' = Append(dispatchLog, m)
  BY <1>1, AcceptKeepsLanes DEF DispatchMessage
<1>2. CASE Refuse(m) /\ UNCHANGED dispatchLog
  <2>1. MailboxTypeOK' /\ \A t \in Modules, lane \in Lanes : Lane(t, lane)' = Lane(t, lane)
    BY <1>2, RefusedLanes DEF LanesInv
  <2>2. UNCHANGED <<dispatchLog, drained>>  BY <1>2 DEF DispatchMessage
  <2>3. LanesAreLosslessFifo'
    BY <2>1, <2>2 DEF LanesInv, LanesAreLosslessFifo, OfLane, AcceptedIn, Lanes
  <2>4. ASSUME NEW t \in Modules, NEW lane \in Lanes
        PROVE  (/\ Len(Lane(t, lane)) <= Capacity(t, lane)
                /\ \A n \in DOMAIN Lane(t, lane) : RoutedTo(t, lane, Lane(t, lane)[n]))'
    BY <2>1 DEF LanesInv, Capacity, RoutedTo
  <2> QED  BY <2>1, <2>2, <2>3, <2>4 DEF LanesInv, Lanes
<1> QED  BY <1>1, <1>2 DEF DispatchMessage

(* So does every step of the runtime. *)
LEMMA RuntimeStepLanesInv ==
  EngineInv /\ LanesInv /\ [RuntimeNext]_runtimeVars => LanesInv'
<1> SUFFICES ASSUME EngineInv, LanesInv, [RuntimeNext]_runtimeVars PROVE LanesInv'
  OBVIOUS
<1>1. CASE MutationStep
  <2>1. PICK kind \in MutationKinds : Retains(kind) /\ DispatchMessage(BrokerMutation(kind))
    BY <1>1 DEF MutationStep
  <2>2. PICK m : m = BrokerMutation(kind)  OBVIOUS
  <2>3. m \in Messages /\ RoutedTo(m.target, m.priority, m)  BY <2>1, <2>2, MutationRoute
  <2> QED  BY <2>1, <2>2, <2>3, DispatchKeepsLanes
<1>2. CASE OrdinaryStep
  <2>1. PICK m \in Messages : OrdinaryMessage(m) /\ DispatchMessage(m)
    BY <1>2 DEF OrdinaryStep
  <2>2. RoutedTo(m.target, m.priority, m)  BY <2>1 DEF OrdinaryMessage, RoutedTo
  <2> QED  BY <2>1, <2>2, DispatchKeepsLanes
<1>3. ASSUME NEW t \in Modules, DrainNext(t) PROVE LanesInv'
  BY <1>3, DrainKeepsLanes
<1>4. CASE UNCHANGED <<artifacts, mailboxes, dispatchLog, drained>>
  BY <1>4 DEF LanesInv, MailboxTypeOK, Lane, Capacity, LanesAreLosslessFifo, OfLane, AcceptedIn
<1> QED  BY <1>1, <1>2, <1>3, <1>4, RuntimeSteps

(* And it holds of empty mailboxes. *)
LEMMA RuntimeInitLanesInv == RuntimeInit => LanesInv
<1> SUFFICES ASSUME RuntimeInit PROVE LanesInv  OBVIOUS
<1>1. /\ mailboxes = [t \in Modules |-> [standard |-> <<>>, high |-> <<>>, rejected |-> 0]]
      /\ dispatchLog = <<>> /\ drained = [t \in Modules |-> <<>>]
  BY DEF RuntimeInit, MailboxInit
<1>2. MailboxTypeOK
  <2>1. 0 \in 0..MaxRejected  BY MailboxAssumption
  <2> QED  BY <1>1, <2>1 DEF MailboxTypeOK, Mailbox
<1>3. ASSUME NEW t \in Modules, NEW lane \in Lanes
      PROVE  /\ Lane(t, lane) = <<>> /\ Capacity(t, lane) \in Nat
             /\ AcceptedIn(t, lane) = <<>> /\ OfLane(drained[t], lane) = <<>>
  <2>1. Lane(t, lane) = <<>>  BY <1>1 DEF Lane, Lanes
  <2>2. AcceptedIn(t, lane) = <<>>  BY <1>1, PickedFromNone DEF AcceptedIn
  <2>3. OfLane(<<>>, lane) = <<>>  BY PickedFromNone DEF OfLane
  <2>4. drained[t] = <<>>  BY <1>1
  <2> QED  BY <2>1, <2>2, <2>3, <2>4, MailboxAssumption DEF Capacity
<1>4. <<>> = <<>> \o <<>>  OBVIOUS
<1>5. LanesAreLosslessFifo  BY <1>3, <1>4, Zenon DEF LanesAreLosslessFifo
<1>6. dispatchLog \in Seq(Messages) /\ drained \in [Modules -> Seq(Messages)]
  BY <1>1
<1> QED  BY <1>2, <1>3, <1>5, <1>6 DEF LanesInv

(* Every lane is within its capacity, loses nothing and keeps its order, for
   any modules and capacities. *)
THEOREM RuntimeLanes == RuntimeSpec => []LanesAreSound
<1>1. ASSUME LanesInv PROVE LanesAreSound
  <2>1. ASSUME NEW t \in Modules
        PROVE  /\ drained[t] \in Seq(Messages)
               /\ mailboxes[t].rejected \in 0..MaxRejected
               /\ \A lane \in Lanes :
                    Lane(t, lane) \in Seq(Messages) /\ Len(Lane(t, lane)) <= Capacity(t, lane)
    <3>1. "high" \in Lanes  BY DEF Lanes
    <3>2. \A lane \in Lanes :
            Lane(t, lane) \in Seq(Messages) /\ mailboxes[t].rejected \in 0..MaxRejected
      BY <1>1, LaneType DEF LanesInv
    <3> QED  BY <1>1, <3>1, <3>2 DEF LanesInv
  <2> QED  BY <1>1, <2>1 DEF LanesInv, LanesAreSound, RuntimeTypeOK
<1> QED
  BY <1>1, RuntimeInitLanesInv, RuntimeEngineInvariant, RuntimeStepLanesInv, PTL DEF RuntimeSpec

(* A broker control that the engine made is refused only by a reserved lane
   full of broker controls, and no ordinary message is drained ahead of a
   control, whatever the traffic. *)
THEOREM RuntimeReservesControl == RuntimeSpec => ControlIsReserved
<1> DEFINE Reserved ==
      /\ RefusedControl => /\ Len(Lane("broker", "high")) = HighCapacity["broker"]
                           /\ \A m \in Range(Lane("broker", "high")) : m.kind \in {"cancel", "flatten"}
      /\ \A t \in Modules : DrainedOrdinary(t) => Lane(t, "high") = <<>>
<1>1. ASSUME EngineInv, LanesInv, [RuntimeNext]_runtimeVars PROVE [Reserved]_runtimeVars
  <2>0. "broker" \in Modules /\ "high" \in Lanes  BY RuntimeAssumption DEF Lanes
  <2>1. CASE MutationStep
    <3>1. PICK kind \in MutationKinds : Retains(kind) /\ DispatchMessage(BrokerMutation(kind))
      BY <2>1 DEF MutationStep
    <3>2. PICK m : m = BrokerMutation(kind)  OBVIOUS
    <3>3. m \in Messages /\ m.target = "broker" /\ m.priority = IF kind = "submit" THEN "standard" ELSE "high"
      BY <3>1, <3>2, MutationRoute
    <3>4. \A t \in Modules : ~DrainedOrdinary(t)
      BY <3>1 DEF DispatchMessage, DrainedOrdinary
    <3>5. ASSUME RefusedControl
          PROVE  /\ Len(Lane("broker", "high")) = HighCapacity["broker"]
                 /\ \A n \in Range(Lane("broker", "high")) : n.kind \in {"cancel", "flatten"}
      <4>1. Refuse(m)
        <5>1. Append(dispatchLog, m) # dispatchLog
          BY <1>1, <3>3 DEF LanesInv
        <5> QED  BY <3>1, <3>2, <3>5, <5>1 DEF DispatchMessage, RefusedControl
      <4>2. m.priority = "high"
        BY <3>1, <3>3, <3>5 DEF Retains, RefusedControl
      <4>3. ~(Len(Lane("broker", "high")) < HighCapacity["broker"])
        BY <3>3, <4>1, <4>2 DEF Refuse, Fits, Capacity
      <4>4. /\ Lane("broker", "high") \in Seq(Messages)
            /\ Len(Lane("broker", "high")) <= HighCapacity["broker"]
            /\ \A n \in DOMAIN Lane("broker", "high") : RoutedTo("broker", "high", Lane("broker", "high")[n])
        BY <1>1, <2>0, LaneType DEF LanesInv, Capacity
      <4>5. HighCapacity["broker"] \in Nat  BY <2>0, MailboxAssumption
      <4>6. Len(Lane("broker", "high")) \in Nat  BY <4>4
      <4>7. Len(Lane("broker", "high")) = HighCapacity["broker"]  BY <4>3, <4>4, <4>5, <4>6
      <4> QED  BY <4>4, <4>7 DEF RoutedTo, Range
    <3> QED  BY <3>4, <3>5
  <2>2. CASE OrdinaryStep
    <3>1. UNCHANGED <<artifacts, drained>>
      BY <2>2 DEF OrdinaryStep, DispatchMessage
    <3> QED  BY <3>1 DEF RefusedControl, DrainedOrdinary
  <2>3. ASSUME NEW u \in Modules, DrainNext(u) PROVE Reserved
    <3>1. UNCHANGED artifacts  BY <2>3 DEF DrainNext, engineVars
    <3>2. ASSUME NEW t \in Modules, DrainedOrdinary(t) PROVE Lane(t, "high") = <<>>
      <4>1. drained \in [Modules -> Seq(Messages)]  BY <1>1 DEF LanesInv
      <4>2. t = u /\ drained'[u] = Append(drained[u], Head(Lane(u, NextLane(u))))
        BY <2>3, <3>2, <4>1 DEF DrainNext, DrainedOrdinary
      <4>3. PICK q \in Seq(Messages) : q = Lane(u, NextLane(u)) /\ q # <<>> /\ NextLane(u) \in Lanes
        BY <1>1, <2>3, PoppedLanes, LaneType DEF LanesInv, DrainNext
      <4>4. 1 \in DOMAIN q /\ Head(q) = q[1] /\ Head(q) \in Messages  BY <4>3
      <4>5. Head(q).priority = NextLane(u)
        BY <1>1, <4>3, <4>4 DEF LanesInv, RoutedTo
      <4>6. PICK s \in Seq(Messages) : s = drained[u]  BY <4>1
      <4>7. PICK h \in Messages : h = Head(q)  BY <4>4
      <4>8. drained'[u] = Append(s, h)  BY <4>2, <4>3, <4>6, <4>7
      <4>9. Append(s, h)[Len(Append(s, h))] = h  OBVIOUS
      <4>10. h.priority = "standard"  BY <3>2, <4>2, <4>8, <4>9 DEF DrainedOrdinary, Last
      <4> QED  BY <4>2, <4>5, <4>7, <4>10 DEF NextLane
    <3> QED  BY <3>1, <3>2 DEF RefusedControl
  <2>4. CASE UNCHANGED <<artifacts, mailboxes, dispatchLog, drained>>
    BY <2>4 DEF RefusedControl, DrainedOrdinary
  <2> QED  BY <1>1, <2>1, <2>2, <2>3, <2>4, RuntimeSteps
<1>2. RuntimeSpec => []LanesInv
  BY RuntimeInitLanesInv, RuntimeEngineInvariant, RuntimeStepLanesInv, PTL DEF RuntimeSpec
<1> QED
  BY <1>1, <1>2, RuntimeEngineInvariant, PTL DEF RuntimeSpec, ControlIsReserved

----------------------------------------------------------------------------
(* What a lane accepted is what was handed over of it and then what it holds,
   so what waits is its length, and what comes next is its head. *)
LEMMA WhatWaits ==
  ASSUME LanesInv, NEW t \in Modules, NEW lane \in Lanes
  PROVE  /\ AcceptedPerLane[t][lane] = AcceptedIn(t, lane)
         /\ TakenPerLane[t][lane] = Len(OfLane(drained[t], lane))
         /\ Promised!Waiting(t, lane) = Len(Lane(t, lane))
         /\ Promised!Granted(t, lane) = Capacity(t, lane)
         /\ AcceptedIn(t, lane) \in Seq(Messages)
         /\ OfLane(drained[t], lane) \in Seq(Messages)
         /\ Lane(t, lane) # <<>> =>
              AcceptedIn(t, lane)[Len(OfLane(drained[t], lane)) + 1] = Head(Lane(t, lane))
<1>1. AcceptedPerLane[t][lane] = AcceptedIn(t, lane)  BY DEF AcceptedPerLane
<1>2. TakenPerLane[t][lane] = Len(OfLane(drained[t], lane))  BY DEF TakenPerLane
<1>3. PICK q \in Seq(Messages) : q = Lane(t, lane)  BY LaneType DEF LanesInv
<1>4. PICK s \in Seq(Messages) : s = OfLane(drained[t], lane)
  BY PickedType DEF LanesInv, OfLane
<1>5. AcceptedIn(t, lane) = s \o q  BY <1>3, <1>4 DEF LanesInv, LanesAreLosslessFifo
<1>6. /\ s \o q \in Seq(Messages) /\ Len(s \o q) = Len(s) + Len(q)
      /\ Len(s) \in Nat /\ Len(q) \in Nat
  OBVIOUS
<1>7. ASSUME q # <<>> PROVE (s \o q)[Len(s) + 1] = Head(q)
  <2>1. Len(q) >= 1 /\ Head(q) = q[1]  BY <1>7
  <2>2. Len(s) + 1 \in 1..(Len(s) + Len(q)) /\ ~(Len(s) + 1 <= Len(s)) /\ (Len(s) + 1) - Len(s) = 1
    BY <1>6, <2>1
  <2> QED  BY <2>1, <2>2, ConcatProperties
<1>8. Promised!Waiting(t, lane) = Len(q)
  <2>1. Promised!Waiting(t, lane) = Len(s \o q) - Len(s)
    BY <1>1, <1>2, <1>4, <1>5 DEF Promised!Waiting
  <2> QED  BY <1>6, <2>1
<1>9. Promised!Granted(t, lane) = Capacity(t, lane)  BY DEF Promised!Granted, Capacity
<1> QED  BY <1>1, <1>2, <1>3, <1>4, <1>5, <1>6, <1>7, <1>8, <1>9

(* Accepting a message is taking it in. *)
LEMMA AcceptTakesIn ==
  ASSUME LanesInv, NEW m \in Messages,
         Accept(m), dispatchLog' = Append(dispatchLog, m), UNCHANGED drained
  PROVE  Promised!TakeIn(m.target, m.priority)
<1> DEFINE u == m.target
           l == m.priority
<1>1. u \in Modules /\ l \in Lanes  BY DEF Messages
<1>2. RefusedPerModule' = RefusedPerModule  BY AcceptedLanes DEF LanesInv, RefusedPerModule
<1>3. TakenPerLane' = TakenPerLane  BY DEF TakenPerLane, OfLane
<1>4. Promised!Waiting(u, l) < Promised!Granted(u, l)
  BY <1>1, WhatWaits DEF Accept, Fits
<1>5. ASSUME NEW t \in Modules, NEW lane \in Lanes
      PROVE  AcceptedIn(t, lane)' = IF t = u /\ lane = l THEN Append(AcceptedIn(t, lane), m)
                                    ELSE AcceptedIn(t, lane)
  BY AcceptedInAppend DEF LanesInv
<1> HIDE DEF u, l
<1>6. AcceptedPerLane' = [AcceptedPerLane EXCEPT ![u][l] = Append(@, m)]
  <2>1. AcceptedPerLane' = [t \in Modules |-> [lane \in Lanes |-> AcceptedIn(t, lane)']]
    BY DEF AcceptedPerLane, Lanes
  <2> QED  BY <1>1, <1>5, <2>1 DEF AcceptedPerLane
<1>7. Len(AcceptedPerLane'[u][l]) = Len(AcceptedPerLane[u][l]) + 1
  <2>1. PICK s \in Seq(Messages) : s = AcceptedPerLane[u][l]  BY <1>1, WhatWaits
  <2>2. AcceptedPerLane'[u][l] = Append(s, m)
    BY <1>1, <1>5, <2>1 DEF AcceptedPerLane, Lanes
  <2> QED  BY <2>1, <2>2
<1>8. Promised!Arrives(u, l, m)  BY <1>6 DEF Promised!Arrives, u, l
<1> QED  BY <1>2, <1>3, <1>4, <1>7, <1>8 DEF Promised!TakeIn, u, l

(* Refusing one is turning it away from a full lane. *)
LEMMA RefuseTurnsAway ==
  ASSUME LanesInv, NEW m \in Messages, Refuse(m), UNCHANGED <<dispatchLog, drained>>
  PROVE  Promised!TurnAway(m.target, m.priority)
<1>1. m.target \in Modules /\ m.priority \in Lanes  BY DEF Messages
<1>2. PICK u \in Modules, l \in Lanes : u = m.target /\ l = m.priority  BY <1>1
<1>3. PICK n \in Nat : n = Len(Lane(u, l))
  <2>1. Lane(u, l) \in Seq(Messages)  BY LaneType DEF LanesInv
  <2> QED  BY <2>1
<1>4. Capacity(u, l) \in Nat /\ n <= Capacity(u, l) /\ ~(n < Capacity(u, l))
  BY <1>2, <1>3, MailboxAssumption DEF LanesInv, Capacity, Refuse, Fits
<1>5. Promised!Waiting(u, l) = Promised!Granted(u, l)
  <2>1. n = Capacity(u, l)  BY <1>4
  <2> QED  BY <1>3, <2>1, WhatWaits
<1>6. RefusedPerModule' = [RefusedPerModule EXCEPT ![u] = @ + 1]
  BY <1>2, RefusedLanes DEF LanesInv, RefusedPerModule
<1>7. AcceptedPerLane' = AcceptedPerLane /\ TakenPerLane' = TakenPerLane /\ drained' = drained
  BY DEF AcceptedPerLane, AcceptedIn, TakenPerLane, OfLane
<1> QED  BY <1>2, <1>5, <1>6, <1>7 DEF Promised!TurnAway

(* Draining hands over the next message of the lane that is served. *)
LEMMA DrainHandsOver ==
  ASSUME LanesInv, NEW u \in Modules, DrainNext(u)
  PROVE  Promised!HandOver(u, NextLane(u))
<1>1. PICK l \in Lanes : l = NextLane(u) /\ Lane(u, l) # <<>>
  BY PoppedLanes DEF LanesInv, DrainNext
<1>2. PICK q \in Seq(Messages) : q = Lane(u, l)  BY LaneType DEF LanesInv
<1>3. PICK m \in Messages : m = Head(q)  BY <1>1, <1>2
<1>4. drained' = [drained EXCEPT ![u] = Append(drained[u], m)] /\ dispatchLog' = dispatchLog
  BY <1>1, <1>2, <1>3 DEF DrainNext
<1>5. m.priority = l
  <2>1. 1 \in DOMAIN q /\ Head(q) = q[1]  BY <1>1, <1>2
  <2> QED  BY <1>2, <1>3, <2>1 DEF LanesInv, RoutedTo
<1>6. RefusedPerModule' = RefusedPerModule
  BY PoppedLanes DEF LanesInv, DrainNext, RefusedPerModule
<1>7. AcceptedPerLane' = AcceptedPerLane  BY <1>4 DEF AcceptedPerLane, AcceptedIn
<1>8. Promised!Waiting(u, l) > 0
  <2>1. Len(q) > 0  BY <1>1, <1>2
  <2> QED  BY <1>2, <2>1, WhatWaits
<1>9. l = "standard" => Promised!Waiting(u, "high") = 0
  <2> SUFFICES ASSUME l = "standard" PROVE Promised!Waiting(u, "high") = 0  OBVIOUS
  <2>1. Lane(u, "high") = <<>>  BY <1>1 DEF NextLane
  <2>2. "high" \in Lanes  BY DEF Lanes
  <2> QED  BY <2>1, <2>2, WhatWaits
<1>10. AcceptedPerLane[u][l][TakenPerLane[u][l] + 1] = m
  BY <1>1, <1>2, <1>3, WhatWaits
<1>11. TakenPerLane' = [TakenPerLane EXCEPT ![u][l] = @ + 1]
  <2>1. ASSUME NEW t \in Modules, NEW lane \in Lanes
        PROVE  Len(OfLane(drained'[t], lane)) =
                 IF t = u /\ lane = l THEN Len(OfLane(drained[t], lane)) + 1
                 ELSE Len(OfLane(drained[t], lane))
    <3>1. drained[t] \in Seq(Messages)  BY DEF LanesInv
    <3>2. drained'[t] = IF t = u THEN Append(drained[t], m) ELSE drained[t]
      BY <1>4 DEF LanesInv
    <3>3. OfLane(Append(drained[t], m), lane) =
            IF m.priority = lane THEN Append(OfLane(drained[t], lane), m) ELSE OfLane(drained[t], lane)
      BY <3>1, OfLaneAppend
    <3>4. PICK s \in Seq(Messages) : s = OfLane(drained[t], lane)  BY WhatWaits
    <3>5. Len(Append(s, m)) = Len(s) + 1  OBVIOUS
    <3> QED  BY <1>5, <3>2, <3>3, <3>4, <3>5
  <2>2. TakenPerLane' = [t \in Modules |-> [lane \in Lanes |-> Len(OfLane(drained'[t], lane))]]
    BY DEF TakenPerLane, OfLane, Lanes
  <2> QED  BY <2>1, <2>2 DEF TakenPerLane
<1> QED  BY <1>1, <1>4, <1>6, <1>7, <1>8, <1>9, <1>10, <1>11 DEF Promised!HandOver

(* Every step of the runtime is one of the promise, or changes nothing of it. *)
LEMMA RuntimeStepKeepsThePromise ==
  ASSUME EngineInv, LanesInv, [RuntimeNext]_runtimeVars
  PROVE  [Promised!PromiseNext]_(Promised!promiseVars)
<1>1. ASSUME NEW m \in Messages, DispatchMessage(m)
      PROVE  Promised!PromiseNext
  <2>1. m.target \in Modules /\ m.priority \in Promised!Lanes  BY DEF Messages, Lanes, Promised!Lanes
  <2>2. CASE Accept(m) /\ dispatchLog' = Append(dispatchLog, m)
    <3>1. Promised!TakeIn(m.target, m.priority)  BY <1>1, <2>2, AcceptTakesIn DEF DispatchMessage
    <3> QED  BY <2>1, <3>1 DEF Promised!PromiseNext
  <2>3. CASE Refuse(m) /\ UNCHANGED dispatchLog
    <3>1. Promised!TurnAway(m.target, m.priority)  BY <1>1, <2>3, RefuseTurnsAway DEF DispatchMessage
    <3> QED  BY <2>1, <3>1 DEF Promised!PromiseNext
  <2> QED  BY <1>1, <2>2, <2>3 DEF DispatchMessage
<1>2. CASE MutationStep
  <2>1. PICK kind \in MutationKinds : Retains(kind) /\ DispatchMessage(BrokerMutation(kind))
    BY <1>2 DEF MutationStep
  <2>2. BrokerMutation(kind) \in Messages  BY <2>1, MutationRoute
  <2> QED  BY <1>1, <2>1, <2>2
<1>3. CASE OrdinaryStep
  <2>1. PICK m \in Messages : DispatchMessage(m)  BY <1>3 DEF OrdinaryStep
  <2> QED  BY <1>1, <2>1
<1>4. ASSUME NEW u \in Modules, DrainNext(u) PROVE Promised!PromiseNext
  <2>1. NextLane(u) \in Promised!Lanes  BY DEF NextLane, Promised!Lanes
  <2> QED  BY <1>4, <2>1, DrainHandsOver DEF Promised!PromiseNext
<1>5. CASE UNCHANGED <<artifacts, mailboxes, dispatchLog, drained>>
  BY <1>5 DEF Promised!promiseVars, AcceptedPerLane, AcceptedIn, TakenPerLane, OfLane, RefusedPerModule
<1> QED  BY <1>2, <1>3, <1>4, <1>5, RuntimeSteps

(* Seen through its log of dispatches, the runtime keeps the promise of
   PriorityMailboxes: for any modules, capacities and traffic a message is
   received once and in the order of its lane, is turned away by a full lane
   only, and waits for controls alone. *)
THEOREM RuntimeKeepsThePromise == RuntimeSpec => KeepsThePromise
<1>1. RuntimeInit => Promised!PromiseInit
  <2> SUFFICES ASSUME RuntimeInit PROVE Promised!PromiseInit  OBVIOUS
  <2>1. /\ mailboxes = [t \in Modules |-> [standard |-> <<>>, high |-> <<>>, rejected |-> 0]]
        /\ dispatchLog = <<>> /\ drained = [t \in Modules |-> <<>>]
    BY DEF RuntimeInit, MailboxInit
  <2>2. RefusedPerModule = [t \in Modules |-> 0]  BY <2>1 DEF RefusedPerModule
  <2>3. ASSUME NEW t \in Modules, NEW lane \in Lanes
        PROVE  AcceptedIn(t, lane) = <<>> /\ Len(OfLane(drained[t], lane)) = 0
    <3>1. AcceptedIn(t, lane) = <<>>  BY <2>1, PickedFromNone DEF AcceptedIn
    <3>2. OfLane(<<>>, lane) = <<>>  BY PickedFromNone DEF OfLane
    <3>3. drained[t] = <<>>  BY <2>1
    <3> QED  BY <3>1, <3>2, <3>3
  <2>4. /\ AcceptedPerLane = [t \in Modules |-> [lane \in Lanes |-> <<>>]]
        /\ TakenPerLane = [t \in Modules |-> [lane \in Lanes |-> 0]]
    BY <2>3 DEF AcceptedPerLane, TakenPerLane
  <2> QED  BY <2>1, <2>2, <2>4 DEF Promised!PromiseInit, Promised!Lanes, Lanes
<1>2. EngineInv /\ LanesInv /\ [RuntimeNext]_runtimeVars => [Promised!PromiseNext]_(Promised!promiseVars)
  BY RuntimeStepKeepsThePromise
<1> QED
  BY <1>1, <1>2, RuntimeInitLanesInv, RuntimeEngineInvariant, RuntimeStepLanesInv, PTL
  DEF RuntimeSpec, KeepsThePromise, Promised!PromiseSpec

----------------------------------------------------------------------------
(* The artifacts that never reached the broker's mailbox are counted by its
   refusals: an artifact is undelivered from the step that retains it or not
   at all, and that step refuses its message. *)
Undelivered == DOMAIN artifacts \ DispatchedCalls

RefusalsInv ==
  /\ DOMAIN artifacts = 1..Len(artifacts) /\ Len(artifacts) \in Nat
  /\ IsFiniteSet(Undelivered) /\ Cardinality(Undelivered) <= mailboxes["broker"].rejected

(* A dispatched message adds its call to those dispatched. *)
LEMMA LoggedCalls ==
  ASSUME dispatchLog \in Seq(Messages), NEW m \in Messages, dispatchLog' = Append(dispatchLog, m)
  PROVE  DispatchedCalls' = DispatchedCalls \cup ({m.call} \ {0})
<1>1. /\ DOMAIN dispatchLog = 1..Len(dispatchLog) /\ Len(dispatchLog) \in Nat
      /\ DOMAIN dispatchLog' = 1..(Len(dispatchLog) + 1)
      /\ \A n \in DOMAIN dispatchLog : dispatchLog'[n] = dispatchLog[n]
      /\ dispatchLog'[Len(dispatchLog) + 1] = m
  BY AppendEntries
<1>2. DOMAIN dispatchLog' = DOMAIN dispatchLog \cup {Len(dispatchLog) + 1}  BY <1>1
<1>3. {dispatchLog'[n].call : n \in DOMAIN dispatchLog'} =
        {dispatchLog[n].call : n \in DOMAIN dispatchLog} \cup {m.call}
  BY <1>1, <1>2
<1> QED  BY <1>3 DEF DispatchedCalls

(* A mutation that is not in the log of dispatches costs its broker mailbox a
   refusal, step by step. *)
LEMMA RefusalsStep ==
  ASSUME EngineInv, LanesInv, RefusalsInv, [RuntimeNext]_runtimeVars
  PROVE  RefusalsInv'
<1>0. "broker" \in Modules  BY RuntimeAssumption
<1>1. mailboxes["broker"].rejected \in Nat  BY <1>0, MailboxAssumption DEF LanesInv, MailboxTypeOK, Mailbox
<1>2. ASSUME UNCHANGED artifacts, Undelivered' \subseteq Undelivered,
             mailboxes'["broker"].rejected \in Nat,
             mailboxes["broker"].rejected <= mailboxes'["broker"].rejected
      PROVE  RefusalsInv'
  <2>1. /\ IsFiniteSet(Undelivered')
        /\ Cardinality(Undelivered') \in Nat /\ Cardinality(Undelivered) \in Nat
        /\ Cardinality(Undelivered') <= Cardinality(Undelivered)
    BY <1>2, FS_Subset, FS_CardinalityType DEF RefusalsInv
  <2> QED  BY <1>1, <1>2, <2>1 DEF RefusalsInv
<1>3. CASE MutationStep
  <2>1. PICK kind \in MutationKinds : Retains(kind) /\ DispatchMessage(BrokerMutation(kind))
    BY <1>3 DEF MutationStep
  <2>2. PICK m : m = BrokerMutation(kind)  OBVIOUS
  <2>3. m \in Messages /\ m.target = "broker" /\ m.call = Len(artifacts) + 1
    BY <2>1, <2>2, MutationRoute
  <2>4. /\ Len(artifacts) \in Nat /\ Len(artifacts') = Len(artifacts) + 1
        /\ DOMAIN artifacts' = DOMAIN artifacts \cup {Len(artifacts) + 1}
        /\ DOMAIN artifacts' = 1..Len(artifacts')
    BY <2>1 DEF Retains
  <2>5. CASE Accept(m) /\ dispatchLog' = Append(dispatchLog, m)
    <3>1. DispatchedCalls' = DispatchedCalls \cup {Len(artifacts) + 1}
      BY <2>3, <2>4, <2>5, LoggedCalls DEF LanesInv
    <3>2. Undelivered' \subseteq Undelivered  BY <2>4, <3>1 DEF Undelivered
    <3>3. mailboxes'["broker"].rejected = mailboxes["broker"].rejected
      BY <1>0, <2>3, <2>5, AcceptedLanes DEF LanesInv
    <3>4. /\ IsFiniteSet(Undelivered')
          /\ Cardinality(Undelivered') \in Nat /\ Cardinality(Undelivered) \in Nat
          /\ Cardinality(Undelivered') <= Cardinality(Undelivered)
      BY <3>2, FS_Subset, FS_CardinalityType DEF RefusalsInv
    <3> QED  BY <1>1, <2>4, <3>3, <3>4 DEF RefusalsInv
  <2>6. CASE Refuse(m) /\ UNCHANGED dispatchLog
    <3>1. DispatchedCalls' = DispatchedCalls  BY <2>6 DEF DispatchedCalls
    <3>2. Undelivered' \subseteq Undelivered \cup {Len(artifacts) + 1}
      BY <2>4, <3>1 DEF Undelivered
    <3>3. mailboxes'["broker"].rejected = mailboxes["broker"].rejected + 1
      BY <1>0, <2>3, <2>6, RefusedLanes DEF LanesInv
    <3>4. /\ IsFiniteSet(Undelivered \cup {Len(artifacts) + 1})
          /\ Cardinality(Undelivered) \in Nat
          /\ Cardinality(Undelivered \cup {Len(artifacts) + 1}) <= Cardinality(Undelivered) + 1
      <4>1. PICK U : U = Undelivered  OBVIOUS
      <4>2. PICK x : x = Len(artifacts) + 1  OBVIOUS
      <4>3. IsFiniteSet(U) /\ Cardinality(U) \in Nat  BY <4>1, FS_CardinalityType DEF RefusalsInv
      <4>4. /\ IsFiniteSet(U \cup {x})
            /\ Cardinality(U \cup {x}) = IF x \in U THEN Cardinality(U) ELSE Cardinality(U) + 1
        BY <4>3, FS_AddElement
      <4>5. Cardinality(U \cup {x}) <= Cardinality(U) + 1  BY <4>3, <4>4
      <4> QED  BY <4>1, <4>2, <4>3, <4>4, <4>5
    <3>5. /\ IsFiniteSet(Undelivered')
          /\ Cardinality(Undelivered') \in Nat
          /\ Cardinality(Undelivered') <= Cardinality(Undelivered \cup {Len(artifacts) + 1})
      BY <3>2, <3>4, FS_Subset, FS_CardinalityType
    <3>6. Cardinality(Undelivered \cup {Len(artifacts) + 1}) \in Nat  BY <3>4, FS_CardinalityType
    <3> QED  BY <1>1, <2>4, <3>3, <3>4, <3>5, <3>6 DEF RefusalsInv
  <2> QED  BY <2>1, <2>2, <2>5, <2>6 DEF DispatchMessage
<1>4. CASE OrdinaryStep
  <2>1. PICK m \in Messages : OrdinaryMessage(m) /\ DispatchMessage(m)
    BY <1>4 DEF OrdinaryStep
  <2>2. UNCHANGED artifacts  BY <1>4 DEF OrdinaryStep
  <2>3. CASE Accept(m) /\ dispatchLog' = Append(dispatchLog, m)
    <3>1. Undelivered' \subseteq Undelivered
      BY <2>1, <2>2, <2>3, LoggedCalls DEF LanesInv, Undelivered
    <3>2. mailboxes'["broker"].rejected = mailboxes["broker"].rejected
      BY <1>0, <2>3, AcceptedLanes DEF LanesInv
    <3> QED  BY <1>1, <1>2, <2>2, <3>1, <3>2
  <2>4. CASE Refuse(m) /\ UNCHANGED dispatchLog
    <3>1. Undelivered' \subseteq Undelivered
      BY <2>2, <2>4 DEF Undelivered, DispatchedCalls
    <3>2. \/ mailboxes'["broker"].rejected = mailboxes["broker"].rejected
          \/ mailboxes'["broker"].rejected = mailboxes["broker"].rejected + 1
      BY <1>0, <2>4, RefusedLanes DEF LanesInv
    <3> QED  BY <1>1, <1>2, <2>2, <3>1, <3>2
  <2> QED  BY <2>1, <2>3, <2>4 DEF DispatchMessage
<1>5. ASSUME NEW t \in Modules, DrainNext(t) PROVE RefusalsInv'
  <2>1. mailboxes'["broker"].rejected = mailboxes["broker"].rejected
    BY <1>0, <1>5, PoppedLanes DEF LanesInv, DrainNext
  <2>2. UNCHANGED <<artifacts, dispatchLog>>  BY <1>5 DEF DrainNext, engineVars
  <2> QED  BY <1>1, <1>2, <2>1, <2>2 DEF Undelivered, DispatchedCalls
<1>6. CASE UNCHANGED <<artifacts, mailboxes, dispatchLog, drained>>
  BY <1>1, <1>2, <1>6 DEF Undelivered, DispatchedCalls
<1> QED  BY <1>3, <1>4, <1>5, <1>6, RuntimeSteps

(* Nothing is undelivered before anything was made. *)
LEMMA RefusalsInitially == RuntimeInit => RefusalsInv
<1> SUFFICES ASSUME RuntimeInit PROVE RefusalsInv  OBVIOUS
<1>1. artifacts = <<>>  BY DEF RuntimeInit, EngineInit
<1>2. "broker" \in Modules  BY RuntimeAssumption
<1>3. mailboxes["broker"].rejected = 0  BY <1>2 DEF RuntimeInit, MailboxInit
<1>4. DOMAIN artifacts = 1..Len(artifacts) /\ Len(artifacts) = 0 /\ DOMAIN artifacts = {}  BY <1>1
<1>5. Undelivered = {}  BY <1>4 DEF Undelivered
<1> QED  BY <1>3, <1>4, <1>5, FS_EmptySet DEF RefusalsInv

(* The refusals count the undelivered artifacts at all times. *)
LEMMA RefusalsAlways == RuntimeSpec => []RefusalsInv
<1>1. EngineInv /\ LanesInv /\ RefusalsInv /\ [RuntimeNext]_runtimeVars => RefusalsInv'
  BY RefusalsStep
<1> QED
  BY <1>1, RefusalsInitially, RuntimeInitLanesInv, RuntimeEngineInvariant, RuntimeStepLanesInv, PTL
  DEF RuntimeSpec

(* A mutation the engine made and the broker's mailbox did not accept was
   refused to its caller: refusals account for every undelivered artifact. *)
THEOREM RuntimeRefusals == RuntimeSpec => []UndeliveredMutationsWereRefused
<1>1. RefusalsInv => UndeliveredMutationsWereRefused
  BY DEF RefusalsInv, Undelivered, UndeliveredMutationsWereRefused
<1> QED  BY <1>1, RefusalsAlways, PTL

(* What the finding about undelivered cancels needs: as long as the broker's
   mailbox has refused nothing, an order that no longer works was reported on
   by the broker, or a cancel that names it was accepted for delivery. *)
THEOREM RuntimeClosures ==
  RuntimeSpec => [](mailboxes["broker"].rejected = 0 => InactiveOrdersWereClosed)
<1>1. RuntimeInit => CauseInv
  BY DEF RuntimeInit, EngineInit, CauseInv, ClosedWithCause, OneOrderEach, Recorded
<1>2. EngineInv /\ CauseInv /\ [RuntimeNext]_runtimeVars => CauseInv'
  BY RuntimeStepIsEngineStep, EngineStepCauses
<1>3. ASSUME RefusalsInv, CauseInv, mailboxes["broker"].rejected = 0
      PROVE  InactiveOrdersWereClosed
  <2>1. Undelivered = {}
    <3>1. IsFiniteSet(Undelivered) /\ Cardinality(Undelivered) \in Nat /\ Cardinality(Undelivered) <= 0
      BY <1>3, FS_CardinalityType DEF RefusalsInv
    <3>2. Cardinality(Undelivered) = 0  BY <3>1
    <3> QED  BY <3>1, <3>2, FS_EmptySet
  <2>2. DOMAIN artifacts \subseteq DispatchedCalls  BY <2>1 DEF Undelivered
  <2> QED
    BY <1>3, <2>2
    DEF CauseInv, ClosedWithCause, ReportedDone, CancelRetained, InactiveOrdersWereClosed
<1> QED
  BY <1>1, <1>2, <1>3, RefusalsAlways, RuntimeEngineInvariant, PTL DEF RuntimeSpec
=============================================================================
