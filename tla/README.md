# A TLA+ model of the backtesting engine's runtime and policies

This directory specifies, model-checks and proves properties of the parts of the
repository that have to be right while money is at stake: the operational
runtime in `rust/opsd`, the watchdog and the guardian beside it, and the policies
in `shared/policy` that decide what may be researched, released, deployed and
traded.  Every definition is translated from the source; `PROJECT.json` gives the
file and lines behind each of them.

Contents: [the system](#1-the-system), [modules](#2-modules),
[runs](#3-runs), [disagreements found](#4-where-the-code-and-its-documents-disagree),
[proofs](#5-proofs), [what is not modelled](#6-what-is-not-modelled),
[plan](#7-plan), [running it](#8-running-it).

## 1. The system

The repository has three planes.  *Research* (Python, offline) produces
candidate strategies; *policy* (Python, `shared/policy`) is a set of contracts
that say which candidate may be tuned, evaluated, released, deployed and traded on
which evidence; *operations* (Rust) runs one promoted candidate on a broker.

**Operations.**  `opsd` is one process and one thread.  Its modules (market data,
bars, strategy runner, risk, broker, state store, reconciliation, operations
control) exchange messages through bounded mailboxes owned by `OpsdRuntime`; what
interleaves is not threads but *calls*: submits of the strategy runner, operator
controls, callbacks of the broker, retries of all of these after a refusal, and
the drains of the modules that own the mailboxes.  Whatever the runtime learns
about its session (schedule, readiness, reconciliation, risk) is evaluated from
one request at a time and retained as the latest artifact.  The watchdog is a
separate process without state: its memory is what its last report said.  The
guardian is a third process, whose only memory is the emergencies it executed.

| Component (source) | State it keeps | Operations | What makes it hard | Correct when |
|---|---|---|---|---|
| Broker mutation engine (`opsd/src/broker.rs`) | intent records, order -> intent map, artifacts, callback log, order counter | submit, cancel, flatten, replay of a known identity, callback | retries under any identity; callbacks repeated, late, before the acknowledgement; sweeping cancels | one owner per order, a fill applied once, retries name the same orders, a cancel sweeps everything |
| Bounded mailboxes (`mailbox.rs`, `topology.rs`) | two queues and a refusal counter per module | `try_send`, `pop_next` | full lanes, priority, starvation | lossless and ordered per lane; control reserved and served |
| Runtime (`runtime.rs`) | all of the above, dispatch log | governed and operator entry points, probes, ticks, drains | the engine decides before the mailbox answers | nothing ungoverned reaches the broker; refusals are accounted for |
| Accounting ledger (`ledger.rs`) | events, receipts by callback, sequence | `append_event`, session close | redelivery across sessions, restatements, closes in between | booked once; a close can be recomputed from its trace |
| Reconciliation (`reconciliation.rs`) | latest intraday and daily artifact | `reconcile_intraday`, `reconcile_daily_close` | a close built earlier meets events booked since | eligible only when ledger and statement agree |
| Session readiness (`readiness.rs`) | latest packet, history | assemble, publish | requests that bring a history of their own | history append-only; a worse report never helps |
| Schedule (`schedule.rs`) | compiled slices | compile, install, evaluate | touching, nested and crossing windows | the slices say of each instant what the inputs say |
| Risk (`risk.rs`) | none | `evaluate_runtime_risk` | fourteen controls combined | no breach relaxes the answer to another |
| Recovery (`recovery.rs`) | none | shutdown barrier, recovery fence | a chain of twelve gates | no gate hides a more severe one |
| Route modes (`route_mode.rs`) | evidence, in an external sink | `evaluate_route_mode` | repeated rehearsals, changing modes | shadow evidence recorded once |
| Watchdog supervision (`watchdog/src/supervision.rs`) | attempts, fed back through observations | `evaluate_supervision_bundle` | restart loops, refusals in between | restarts bounded, escalation sticks |
| Live bars (`bar_builder.rs`) | none; the artifacts of the last report | `build_live_bar` | late, corrected, crossed and foreign updates between good ones; trades mixed with quotes | what was left out moves no bar, no quote moves a bar of trades |
| Guardian (`guardian/src/emergency.rs`) | keys of executed emergencies | `execute`, a new process | repeated and refused requests, restarts | issued once per life; what was refused can still be done |

    operator ---> handle_operator_request --+           +--> broker adapter (external)
                                            v           |
    strategy ---> submit_order_intent --> ENGINE --> dispatch_message --> MAILBOXES --> drain_next
                                            ^
    broker callbacks --> record_callback ---+

    broker callbacks --> LEDGER --session close--> DAILY CLOSE --eligibility--> health report
    schedule, readiness, reconciliation, risk, recovery --> may the session trade?
    health report --> WATCHDOG --> restart or quarantine of opsd, guardian, gateway
    operator, out of band --> GUARDIAN --> cancel all, flatten all

**Policies.**  A policy evaluator is a pure function from a request to a report.
What makes these hard is not one evaluation but the *sequence*: reports and
records pile up between calls, age, are superseded, are about another candidate
or instant than the question, or are asked for in an order nobody wrote a test
for.  The evaluators keep nothing (the research store, the session packets and
the certified version vector are the exceptions); who keeps the records is outside
`src/`, and is modelled from how the evaluators use them: a campaign, a programme,
a desk, a runtime or a lane that accumulates documents and obeys them.  These
users are marked external in the map.

| Policies (source under `shared/policy`) | What accumulates between calls | Correct when |
|---|---|---|
| lifecycle machines, compatibility (`lifecycle_*.py`) | the state of a subject, the certified vector | every rung is climbed again; drift was declared |
| release governance, revocation (`release_*.py`, `readiness_revocation.py`) | releases, bindings, readiness records, a live deployment | weaker evidence never helps; a fault reaches everything that depends on it |
| research store (`research_state.py`) | runs, family decisions, audit log | references resolve; the log rebuilds the store |
| deployment packets (`deployment_packets.py`) | bundles, packets, deployments, promotions | what replays is what was frozen; lanes are earned; entries rest on the current packet |
| candidate evaluation (`evaluation_protocol.py`, `lockbox_policy.py`, `promotable_tuning.py`) | accesses, incidents, batches, runs | contamination is final; a run answers for one batch |
| research funding (`family_preregistration.py`, `discovery_accounting.py`, `program_closure.py`) | spending, authorisations | deep budget is earned; closures are coherent |
| viability screens, features, rolls (`viability_gate.py`, `fast_screening.py`, `feature_availability.py`) | the last report | worse never milder; no look-ahead |
| certification evidence (`replay_certification.py`, `bar_parity.py`, `fidelity_calibration.py`, `paper_shadow_stage_policy.py`) | certificates, studies, objective records | evidence precedes trading |
| selection (`account_fit_gate.py`, `absolute_dollar_viability.py`, `selection_hard_gates.py`) | reports on symbols and candidates | a candidate advances on one symbol |
| controls, waivers, lane, governance (`policy_engine.py`, `artifact_classes.py`, `baseline_risk_controls.py`, `operating_envelope.py`, `overnight_candidate.py`, `solo_governance.py`) | waivers, attestation steps, a position | risk is permitted, and exceptions are reviewed |
| runtime recovery and authority (`runtime_recovery.py`, `operational_runtime.py`) | an assessment, fences, an authorised action, a trace | entries rest on evidence; a path that passed is whole |
| ledger auditor (`accounting_ledger.py`) | none | agrees with the closes of the Rust ledger |

`PROJECT.json` lists every component with its files, and under `hazards` each
place in the code where something can go wrong that a test would hardly reach,
with the property that would notice.

## 2. Modules

Each component is a module with its constants, variables, `Init`, one action per
operation, `Next`, `Spec`, and its properties.  A call the code answers with an
error and no change of state is a stuttering step and has no action.  Each
module also holds a few *faulty variants* of its definitions, the trace of a
plausible slip in the code; they are used by no action, and each property of a
run is shown to fail under one of them (`mutants` in `PROJECT.json`).

* **BrokerMutationEngine** -- `intentRecords` and `brokerOrderToIntent` are the two
  maps of `struct BrokerMutationEngine`, `artifacts` and `callbackLog` its two
  logs, `nextBrokerOrder` its counter.  Order ids are their sequence numbers.
  `IdempotentReplay` is the branch for a known identity: like the code, it
  compares neither the kind of the mutation nor the shape of the order.
  The checks of contract, session and adapter reduce to the set
  `SupportedRequests`; a fill for an order that was already closed still counts
  as a fill, as in the code.
* **BrokerOrders** -- the abstract order book the engine implements: ids in
  sequence, each with one owner for good; an order that stopped working never
  works again.  `Abstract` in the engine is the refinement mapping.
* **BoundedMailboxes** -- queues per module and lane; `Accept` and `Refuse` are
  the two outcomes of `try_send`, `PopNext` serves the high lane first.
  **MCMailboxService** puts endless senders and a fair owner around them.
* **PriorityMailboxes** -- what the mailboxes promise, without queues: per module and
  lane the messages accepted and how many of them were handed over, per module what was
  received and how many messages were turned away.  `Promised` in the runtime is the
  refinement mapping: the dispatch log of a lane is what it accepted, the drains from it
  are what was handed over.
* **OpsdRuntime** -- composes engine and mailboxes by `EXTENDS`.  A submit, cancel or flatten
  is the engine's step and the dispatch of its message in one action, as
  `runtime.rs` does both before it returns; the dispatch may be refused *after*
  the engine has changed.  `HandleOperatorRequest` is the ungoverned entry point
  with its table of allowed control actions.  `RuntimeMessage::broker_mutation`
  is external: `runtime.rs:380` and `:403` call it, but no file of the tree defines it.
  What it must do follows from its arguments and from the runtime's tests: a message
  to the broker's mailbox, in the high lane for a control, with the kind of the
  mutation and the caller's correlation id; the number of the artifact stands for
  the latter.
* **AccountingLedger** -- events with an amount per metric; a receipt per callback
  over all sessions; session closes with trace, totals, snapshots and open
  discrepancies, folded over the events of the scope.
* **LedgerReconciliation** -- extends the ledger with the daily close.  The
  statement meets the totals of the session close *as built*, but the fills *as
  booked now*: the two moments are separate actions, with bookings in between.  The
  Python auditor is the second half of the module: a second implementation of the
  arithmetic, applied to the events each session close traces.
* **IntradayReconciliation** -- two views, their differences, the action required.
* **GateChain** -- the shape of the evaluators that answer at the first closed
  gate, shared by the recovery fence (shutdown barrier and fence, each
  gate in source order with its answer) and **RehearsalRouting** (route modes; the
  receipts retained by the external adapter and sink follow from the report).
* **ReadinessPackets**, **SessionSchedule**, **RuntimeRisk** -- one evaluator each,
  with what the runtime retains of it.  The schedule keeps a slice's *sources*
  (the entry and windows that decide it), from which labels and reason codes
  follow; `InOrder` is the order in which the code's `BTreeSet` yields the boundaries,
  and merging is a recursive function over the raw slices.  In the risk module the threshold comparisons of a control are a
  *breach*, except for positions and scaled limits, which are computed, each from a
  multiplier of its own as in `risk.rs:1132`.
* **GuardianEmergency** -- `executedKeys` is the set of `EmergencyController`; `issued`
  counts what went to the broker over all processes, and `StartAgain` is a new
  process with an empty set.  As in the code the key enters the set after every
  refusal, so that a refused request leaves no trace.
* **LiveBars** -- one request, from the entitlement and session gates over normalisation to
  the bar, its staleness and its parity with a reference.  Prices are integers in half
  units, so that midpoints are exact, or no number at all (`NaN`), which every comparison
  of the code answers with false; a missing number is 0, which no check admits.
* **WatchdogSupervision** -- the feedback of a report into the next observation is
  the variable `attempts`; `restarts` counts what was asked for.  A bundle may name a
  target more than once, and every sighting is answered from the count the target came
  with; it is the last report that the next bundle carries on.  That carrying on is the
  collector's, outside `src/`, and so is the assumption that the sightings of one bundle
  agree on whether the recovering gate is supported.
* **RecoveryFence** keeps the artifact a shutdown leaves, because the process that comes
  back sees no more of it than two booleans, whether its barriers were verified;
  `RestartsOver` is that relation between the two requests.

The policies:

* **LifecycleMachines** -- the six transition tables of `lifecycle_specs.py` with
  guards; `MoveSubject` evaluates and applies a transition.  The catalog of
  `lifecycle_compatibility.py` has the same tables but calls a withdrawn deployment
  terminal as well (`CompatibilityTerminals`).  **ReleaseGovernance** (with the
  compatibility checks of `lifecycle_compatibility.py`), **ResearchState** and
  **DeploymentPackets** extend it, as their sources import it;
  **DependencyPropagation** extends the releases.
* **ResearchState** -- the store with its audit log; a refused attempt is logged too.
* **DeploymentPackets** -- one deployment from the frozen bundle to session
  tradeability; a clock, a bound on packets kept, and promotions that replace one
  another.  An issued packet may bear timestamps without a zone, and be asked about at an
  instant without one: both are refused as the code does.
* **CandidateEvaluation** -- the protocol's stages, the lockbox and the tuning
  batches.  `EvaluateTuning` writes the run to the store *before* its checks decide,
  as `promotable_tuning.py:823` does; `RunTraceable` is what the store asks of it, seeds,
  outputs, digests and parents of its family.
* **ResearchFunding** -- registration, budgets, accounting, closure; amounts are
  small naturals.
* **ViabilityScreens** -- tables from checks to the facts each asks for; a reading is
  the set of facts that hold.  **EarlyScreens** asks them of any reading, and holds the
  feature gate and the roll policy of one surface; **SelectionGates** keeps the reports and
  combines them with account fit and dollars, comparing candidates and families where
  the code does and nowhere else.
* **CertificationEvidence** -- replay certificates, ageing parity studies, calibration,
  stage objectives with their overnight evidence.
* **PolicyWaivers**, **TradingLane**, **SoloGovernance** -- the policy engine and the
  baseline controls; the envelope, the overnight qualification and a lane that obeys
  them over time; and the reviews that hand waivers to the engine.  A waiver names reason
  codes, so the gates and reports answer with those of the code.  Limits are looked up by
  symbol: for a symbol the account has none for the code raises a `KeyError`, and the lane is
  left without an answer (`Limited`).
* **RuntimeRecovery**, **RuntimeAuthority** -- the documents a runtime must produce, and
  who may take which control action over which lane.

* **Foundations** -- what the iterators of the code collect from a log: `Picked`, the
  entries at some positions (a filter), and `SumOf`.  The models use them where a proof
  has to reason about what was collected; the module's lemmas are in section 5.

The modules `MC*` give the constants values and, where components share no state,
put them side by side: in **MCDecisions** and **MCPolicyGates** each behaviour runs
one component and leaves the others at their initial state.  This checks each of
them completely and nothing twice; their product would add no behaviour, because
no action of one reads a variable of another.

## 3. Runs

| Run | Question | Instance and why it is enough |
|---|---|---|
| `engine` | Do identity, attribution and fills survive every interleaving? Does the engine implement `BrokerOrders`? | 3 intents, 2 callback ids, 2 orders, 4 artifacts, 3 callbacks: two orders are the least for a sweep and a mix-up, three intents leave one for the control that sweeps, four artifacts allow a retry after it, three callbacks a redelivery after a close. Symmetric in intents and callbacks. |
| `mailboxes` | Is what was accepted served? | 8 messages over two mailboxes with lanes of one and two, no bound on length. |
| `runtime` | What do full mailboxes do to the engine, and the engine to mailboxes? Do the queues keep the promise of `PriorityMailboxes`? | Lanes of one and two slots in three modules, 2 intents, 3 dispatches, 1 refusal per module: each lane is full, refuses and is drained in some behaviour. |
| `books` | Do ledger, session closes, daily close and auditor agree at any time? | 2 sessions, 4 events from 9 kinds of request, 2 closes, 1 daily close from 4 statements: the closes can surround a booking, a restatement or a settlement, and a callback can hit both sessions. |
| `decisions` | Is the answer to each request right, and do the records of those components that keep a few stand? | Eighteen components side by side. Schedule: up to two entries and three windows over four instants, empty, inverted and unapproved ones too, so that every relation of two intervals occurs. Recovery: all sets of facts. Risk: all pairs of breaches with positions on both sides of limits of one and three contracts (pairs suffice, dominance is a maximum over controls) under two multipliers that scale them apart. Supervision: all sequences of bundles over two targets, each named up to twice: `opsd`, which alone needs the recovering gate, and another; two sightings are enough for a restart to precede or follow a healthy one. Research: two runs, two families, one decision, four audit events: enough for a parent, a successor and a revocation below a reference. Deployment: two payloads, three promotions, two instants: a paper, a shadow and a live lane, and a packet of the one before. Guardian: two deployments, both actions, two restarts. Bars: all sequences of three updates from two trades, a fresh and a stale quote and a late print above them all; crossed, foreign, corrected and empty ones, and those without a number for a price, in pairs. |
| `policy_gates` | Do the gates hold over the records that pile up between their calls? | Seven components side by side. Two candidates, two accesses, three batches (a failed one, its repair, another); two families, limits of one and a continuation of two; all signal sets of four signals; three reporters and two events for each path; traces of up to two entries; two records per objective and two instants, so that a record can turn bad and a study can expire; two symbols, two fit reports and one instant between them; two waivers, two instants and three attestation steps. |
| `undelivered_cancel`, `stale_session_close`, `holding_restart`, `hard_stop`, `live_without_waiver`, `borrowed_evidence` | See section 4. | The instances of the runs above. |

Some properties join several statements about components that run side by side, so
that each can be read alone in its module:

| Property | Its parts |
|---|---|
| `EngineIsSound` | types; the two maps of the engine agree |
| `LanesAreSound` | types; lanes are lossless queues |
| `BooksAreSound` | types; closes are reproducible from their traces; the auditor agrees |
| `SlicesFollowTheSchedule` | partition; every instant is answered with the state, the session and the sources the inputs give for it; no needless cut |
| `WorseIsNeverMilder` | risk breaches, intraday differences, provider reports, screen readings, release submissions, surfaces, quotes of a bar: each never relaxes the answer when it gets worse; what the bar builder left out moves no bar |
| `EmergenciesFailSafe` | recovery keeps an exit and halts on unknown state; no process comes back over a shutdown whose barriers were not verified, which takes both evaluators; the guardian issues each emergency once per life |
| `RecordsStand` | the packet history grows; shadow evidence is recorded once |
| `FaultsArePropagated` | degradation is answered; no alarm without cause |
| `SpendingIsGoverned` | deep budget is earned; closures are coherent |
| `EvidencePrecedesTrading` | certified is reproduced; stages are climbed |
| `RiskIsGoverned` | an order was permitted by every control or a waiver in force; a waiver came from a review whose steps were attested |
| `DecisionsTypeOK`, `GatesTypeOK` | types of the components; the tables of the machines; the cap of each budget decision |

`CHECK_DEADLOCK FALSE` is set where a behaviour ends at a bound of the instance
(orders, artifacts, events, evaluations, records); `mailboxes` has no such bound and
is checked for deadlock.

Bounds: `MaxOrders`, `MaxArtifacts`, `MaxCallbacks` (engine), `MaxDispatches`,
`MaxRejected` (runtime and mailboxes: the counter of the code is unbounded),
`MaxEvents`, `MaxCloses`, `MaxDailyCloses` (books), `MaxPackets`, `MaxRecords`,
`MaxAttempts`, `MaxSightings`, `MaxStarts`, `MaxAudit`, `MaxPacketTime`, `MaxHeldPackets`,
`MaxPromotions` (decisions), `MaxBatches`, `MaxAccesses`, `MaxSpend`, `MaxDecisions`,
`MaxPathEvents`, `MaxEvidence`, `MaxEvidenceTime`, `MaxFitReports`, `MaxFitTime`,
`MaxLaneWaivers`, `MaxLaneTime`, `MaxLanePosition`, `MaxSteps` (policy gates).  They
occur in guards only.  `MaxAttempts` cuts off histories of more than four failed
attempts; a third attempt already escalates, and the fourth shows that the
escalation stays.

**Fairness.**  Only `mailboxes` needs it: weak fairness of `PopNext` for each
owner.  `drain_next` is the one way out of a mailbox and the code documents it as
the owner's loop; within `src/` only the scenarios of `main.rs` call it, so that
owners keep calling it is an assumption about the deployment, not something
checked.  No fairness is assumed of senders: `StandardServedOnceControlStops`
says that ordinary traffic may starve, but only while control keeps arriving.
Nothing else in the code runs by itself: policies answer when asked.

**Properties worth a second look.**

* `RetriesNameTheSameOrders`: all evidence for one identity names the same
  orders, though the retry may be of another kind and come after a sweep.
* `FreshCancelSweepsAll`: a first cancel leaves nothing working and names exactly
  what was.  It relates the reverse map, by which the code closes, to the records,
  from which it collects.
* `BooksAreSound`: a session close can be recomputed from the events its trace
  lists, whatever was booked since, by two implementations of the arithmetic.
* `AuditRebuildsTheStore`: the audit log alone tells the state of every record,
  refused attempts among its events.
* `LadderIsClimbedAgain`: wherever a bundle stands from replay up, it was on every rung
  of that stretch since it last fell back.  It says so of each rung, `PAPER_PASSED` as
  well as `LIVE_ELIGIBLE`; a recertification may resume at replay, so portability may be
  inherited.
* `DriftIsDeclared`: however often a vector is certified again, it differs from the
  first only in domains somebody declared; small drifts do not add up.
* `LanesAreEarned` and `EntriesAreCurrent`: live rests on a paper and a shadow
  deployment that finished, and an entry on a packet issued since the promotion
  that is in force.
* `ContaminationIsFinal`: once an incident was recorded, no later review freezes a
  candidate, whatever was handled since.
* `PassedPathsAreWhole`: the lane may fill between the authorisation of an action
  and the action; a path whose trace passes took the reserved lane all the same.

**Readings of the code that a reviewer may question.**  These follow from the code
as it is and no document contradicts them; the models do as the code does.

* Empty traces certify: a replay with nothing to compare is reproduced.
* Of the records of an objective the last one counts; of overnight scenarios any
  one that passed (`paper_shadow_stage_policy.py:241`).  Paper is always permitted.
* A dimension nobody measured fails no check of the screens.
* A reading that is not a number lies outside no band and matches the first, green
  (`operating_envelope.py:756`).
* The empty lists of a waiver narrow nothing, so a waiver without lists waives
  anything of its category (`policy_engine.py:130`).
* An artifact without freshness evidence is admissible.
* The trace validator compares no event's emitter with the owner of the surface.
* The lockbox review reads its own incidents, whatever the protocol decided about
  the same candidate; the selection asks the protocol again.
* The continuation cap bounds one budget decision, not the sum of them, and the
  entry of a family in the programme's ledger is not compared with its own ledger.
  `SpendingIsGoverned` says nothing of that difference.
* The attestation steps of a review are not bound to the exception they are
  presented with (`solo_governance.py:447`).
* The overnight qualification is not evaluated again when the account fit it was
  given expires.
* The latest daily close, of whichever account, symbol and session, decides the
  eligibility health reports (`reconciliation.rs:291`).
* A retry answered as a replay is dispatched again, and a cancel in the high lane
  overtakes the submit it cancels.
* The bar builder takes updates in the order of the request and compares no event time
  with the interval of the bar: open and close are the first and last admitted ones.
* A trade or a quote whose price is not a number passes every check of the normalisation
  (`bar_builder.rs:377`, `:392`) and enters the bar; the parity check, whose differences
  then compare false, stays silent (`:487`).
* One catalog of lifecycle machines calls a withdrawn deployment terminal, and its table
  lets it close (`lifecycle_compatibility.py:449`).
* The guardian forgets its executed emergencies when its process ends; the drill of
  `guardian/src/main.rs` runs one request per process.

## 4. Where the code and its documents disagree

Each of these is a run that TLC ends with a counterexample; what holds all the same is
proved ([section 5](#5-proofs), "What the findings leave").

1. **`undelivered_cancel`** -- a cancel closes the working records in the engine
   before its message is dispatched (`broker.rs:595`).  If the broker's mailbox
   refuses the message, `active_open_order_ids` no longer lists orders that are
   still working, and a retry is answered as a replay of the same record.
2. **`stale_session_close`** -- the daily close takes open discrepancies from a
   session close that may predate them (`reconciliation.rs:769`), and can declare
   a session eligible that `Plan_1.md:1523` says is blocked.
3. **`holding_restart`** -- `restore_recovery.md:33` promises exit-only after a
   restart while holding; `recovery.rs:618` does so for supervised restarts only.
4. **`hard_stop`** -- the diagnostic of the hard-stop control says the runtime must
   flatten immediately; a halt of the margin or data-quality control outranks the
   flatten, and `require_flatten` is false (`risk.rs:630`).
5. **`live_without_waiver`** -- `readiness_revocation.py:483` says that no live
   deployment continues through a degraded dependency without a reviewed waiver.
   The evaluator looks at the deployment only when the readiness record changes
   (`:451`): a dependency that degrades further, propagated onto a record that was
   already set back, passes with no action and no waiver.
6. **`borrowed_evidence`** -- `selection_hard_gates.py:554` says that all upstream
   reports refer to the same candidate.  The account-fit decision is compared by the
   candidate of its first report only, and the protocol report carries none
   (`:540`), so a candidate may advance on another's.

Two observations have no run, because the text leaves room for them.  The review
gate of the recovery fence (`recovery.rs:575`) answers `resume_exit_only` before
local state is known to be restored, where `Plan_1.md:1455` lists the restore
among what happens while still `RECOVERING`.  And a provider that is not
`required_for_green` may fail although its kind is required, with the packet
still green and its summary saying that all required providers passed
(`readiness.rs:409` and `:461`).

## 5. Proofs

tlapm checks every leaf of every proof; what is proved holds for all values of the
constants that satisfy the named assumptions of the modules, and for behaviours of any
length.  Every invariant and every action property of a passing run is the conclusion
of a theorem; the two liveness properties are not (see the end of this section).

| Module | Specifications | Runs whose properties it proves |
|---|---|---|
| `BrokerMutationEngineProofs` | the engine, and its refinement of `BrokerOrders` | `engine` |
| `OpsdRuntimeProofs` | engine, mailboxes and dispatch log together | `runtime` |
| `LedgerProofs` | the books, from the bookings to the daily close | `books` |
| `ResearchStateProofs` | the research store | `decisions` |
| `PromotionProofs` | deployment, readiness ladder, compatibility, dependencies | `decisions` |
| `DecisionsProofs` | the other components, and all of them side by side | `decisions` |
| `GateProofs` | the policies, and all of them side by side | `policy_gates` |
| `Foundations` | lemmas about logs, sums and chains of gates | |

**Foundations: induction over logs.**  The induction theorems of the library take a
predicate as a parameter, which the provers cannot instantiate.  `Induction` says the
same of a *set* of naturals: a set that holds 0 and, with each number below a bound, the
next one, holds all up to the bound.  It rests on `LeastNatural`, which rests on the
well-foundedness of `<`.  Every statement about a log is then proved by collecting the
lengths for which it is true in a set.  `KeptUnfolds`, `SumUnfolds` and, for the
schedule, `MergedUnfolds` show that a recursive function over positions is defined at
all; the lemmas on `Picked` say what a filter keeps, misses, and does when the log grows,
is filtered again (`PickedTwice`) or has entries replaced (`PickedMapped`).

**Foundations: chains of gates.**  Nearly every evaluator answers at its first closed
gate.  `ChainAnswers` says that the answer is that of some closed gate before which all
are open, or the default; `ChainOpen` that an answer which no gate gives leaves all gates
open; `ChainRefuses` and `ChainPasses` are the two halves for evaluators that only refuse
or pass.  `ChainCloses` is the one that monotonicity needs: close more gates of a chain,
and it answers at the same gate or an earlier one.  The lemma of an evaluator names its
chain, applies one of these, and states what the answer says of the request.

**BrokerMutationEngineProofs.**  None of the engine's properties is inductive.
Whether a retry names the same orders depends on what the artifacts say of the
records (`ArtifactsMatchRecords`); whether a cancel sweeps everything depends on
the reverse map leading from an order to the strategy record that lists it
(`StrategyOwnsOrders`); that no order is allocated twice depends on no record
listing an id not yet handed out (`RecordsWellFormed`); that a redelivered fill is
recognised depends on the record of its order remembering it (`FillsRemembered`).
`EngineInv` is the conjunction of these with the types, `MappingNeverCorrupt` and
`FillAppliedOnce`, and is shown to be preserved action by action
(`ReplayInv`, `AllocateInv`, `CancelInv`, `CallbackInv`).  From it follow
`EngineSoundness`, `EngineIdempotence`, `EngineAttribution`, `EngineFills`, the action property `EngineMonotone` (an order that stopped working
never works again) and `EngineCancelSweeps`.  `EngineImplementsBrokerOrders`: each step
of the engine is a `Place`, a `Stop` or a stutter of the abstract book under the mapping
that derives an order's phase from the counter and the open records.

**OpsdRuntimeProofs.**  `RuntimeKeepsEngine`: projected to the engine's variables,
the runtime behaves as the engine alone, so dispatch failures corrupt nothing and
`EngineInv` carries over.  `RuntimeGoverns`: each mutation in the dispatch log has its
retained artifact (`DispatchInv`); the induction needs that artifacts are never removed.
`RuntimeLanes` and `RuntimeReservesControl` rest on `LanesInv`: each lane is what the log
sent to it less what was drained from it, is within its capacity, and holds only what
may be routed there, which is why a control of the broker is refused by other controls
only.  `RuntimeRefusals` counts: the artifacts that never reached the broker's mailbox
are no more than its refusals (`RefusalsInv`), because an artifact is dispatched by the
step that retains it or not at all.  `RuntimeKeepsThePromise` is the refinement of
`PriorityMailboxes`: under `LanesInv`, an accepted dispatch is a `TakeIn`, a refused one a
`TurnAway`, a drain a `HandOver`, and every other step a stutter.  It carries the safety
half of what is otherwise a liveness property: the position of a message in its lane only
falls, every drain of the lane lowers it, and ordinary messages are passed over by waiting
controls alone.

**LedgerProofs.**  `LedgerBooksOnce` is inductive with the receipts: a callback without a
receipt has no event.  The rest of the books follows from one fact, `CloseInv`: a session
close is a function of the events it traces, and those are told by their numbers, which
are their places in a book that only grows.  So a close can be recomputed at any later
time, and the Python auditor, a second implementation, finds its figures again
(`ReconciliationBooks`); the trace of a later close of the same session contains that of
an earlier one, so a discrepancy disappears only by a booking that resolves it
(`ReconciliationKeepsDiscrepancies`); and an eligible daily close agrees with the close it
was built on (`ReconciliationEligibility`).

**ResearchStateProofs.**  `ReferencesResolve` is not inductive: a parent that is
recorded today could be recorded again under another family tomorrow.  `ResearchInv`
carries the types with it (a record keeps the id it is filed under), and is preserved
because no operation removes a record or changes its family, and because a record is only
accepted when the gates of its chain are all open.  `ResearchAudit` replays the log: a
step that moves one record logs the move as its last entry, and refused attempts are told
from applied ones by their status, so the last applied entry about a record is its state.

**PromotionProofs.**  Freezing and replaying compare digests, so what is ready for replay
agrees with the one registration there is (`FrozenInv`).  Lanes are earned and entries are
current together (`ServiceInv`): every session packet kept was issued at an instant of the
promotion it names and of no later one.  `SubjectInv` carries the rungs passed since the
last setback: each rung is entered from the one below it, so a state on the ladder has all
those up to it (`LadderHasNoShortcut`).  `DriftInv` carries the domains declared so far.  A dependency's fault is answered
because each degraded state and each material correction closes a gate whose answer is a
setback (`ResultingCases`), and no other gate moves the record.

**DecisionsProofs: the components side by side.**  `DecisionsRunEach`: a behaviour of
`MCDecisions` is one of each component, so a component's theorem holds of the composition
and is proved of the component alone.  `CountsInv` ties attempts to restarts: of the sightings
of a target in one bundle the unhealthy ones are answered alike (`UnhealthyAlike`), so the
last one, if unhealthy, tells whether any of them asked for a restart.
`GuardianInv` keeps the counts of issued emergencies within the lives of the process; the
fence is read off its chain.  That no process comes back over an unverified shutdown joins
two chains: a shutdown whose two barriers are verified is not one of its own halted or
invalid answers (`VerifiedShutdownStands`), and the fence opens on both barriers only
(`ComesBackOverBarriers`).

**DecisionsProofs: worse is never milder.**  `DecisionsNeverRelax` compares two
evaluations, the one that happened and the one that would have on a worse request.  The
invariants say only that an answer is kept with its request (`EarlyAnswered`, `Submitted`,
`SurfaceAnswered`, `BarAnswered`); the work is the monotonicity of the seven evaluators:

* the chain of the envelope and each of the fourteen controls are monotone in the
  breaches, and the dominant decision is a maximum (`BreachesStand`); the action required
  by a difference rises with the differences (`DifferencesStand`);
* a worse provider report hides no other (`ReportsStand`);
* a reading of which more holds fails fewer checks, and the outcome rises with the set of
  failed ones (`AnsweredNeverSoftens`);
* one more finding, one field less or one reference less closes one more gate of the
  submission (`SubmittedNeverHelps`);
* a surface passes only blocks that were complete before it decided, and a later decision
  accepts what an earlier one did (`AnsweredNeverLooksAhead`);
* a bar is the same when what it left out is left out beforehand: filtering a filtered log
  by the same test keeps it all (`PickedTwice`), and making quotes fresh changes no field
  the bar is computed from (`AnsweredMovesNoBar`).

**DecisionsProofs: the schedule.**  `ScheduleIsFollowed` shows the slicing and merging
correct for every finite calendar and every finite set of windows.  Ordering the
boundaries puts each instant at the position given by how many precede it; every position
is taken because an injection between finite sets of one size is onto (`InOrderIsOrdered`).
Between neighbouring boundaries nothing begins or ends, so what covers the interval is
what is in force at each of its instants (`NothingChangesBetween`), and a slice answers for
all of them (`SliceAnswers`).  Merging is an induction over the raw slices with `Schedules`
as its hypothesis: the slices so far partition the range so far, differ from their
neighbours and answer for their instants.

**GateProofs.**  Each policy has an invariant that says what its records rest on:
`RecoveryInv` (an ambiguity is only known while recovering; an assessment that is kept
passed), `EvaluationInv` (the runs of the store are those the batches recorded),
`AuthorityInv` (what was granted is the owner's, and a judged path no longer changes),
`SelectionInv` (an allowed symbol has a report that passed), `FundingInv` (every decision
is under the cap, and screened when it is deep), `EvidenceInv` (what was certified or
granted stays justified by the records kept, of which the last one counts), and `RiskInv`
(a waiver was reviewed in two sittings and was in force when the lane leaned on it; the
lane and its governance share the waivers, so this one is over the whole composition).
`GatesRunEach` and `GatesKeepTheirWord` put the policies together.

**What the findings leave.**  A counterexample says that a statement is false, not how
false.  For each disagreement of section 4 a theorem says what does hold, and so bounds
the cases a repair has to treat:

| Disagreement | Theorem | What holds all the same |
|---|---|---|
| `undelivered_cancel` | `EngineClosures`, `RuntimeClosures` | An order is closed in the engine only by a broker report on it or by a retained cancel that names it; as long as the broker's mailbox has refused nothing, that cancel was accepted for delivery. |
| `stale_session_close` | `ReconciliationOverlooks` | What an eligible daily close overlooks was opened by an event its session close does not trace: never by one it was built from. |
| `holding_restart` | `RecoveryClosesTheLastGate` | A supervised restart that holds exposure never resumes tradeable. |
| `hard_stop` | `RiskHardStops` | An open exposure below the hard stop is flattened, or halted for its margin or a severe loss of data quality; nothing milder answers. |
| `live_without_waiver` | `PropagationSparesSetbacksOnly` | Only a record that was set back already, and is set back no further, lets a live deployment continue without a waiver. |
| `borrowed_evidence` | `SelectionOwnsEvidence` | The certificate, the dollars and at least one account-fit report of a candidate that advances are its own. |

Two of these need an invariant of their own.  `EngineClosures` rests on `OneOrderEach`: a
callback closes the whole record of its order, so it takes that a strategy intent was
given one order to know that nothing else closed with it.  `SelectionOwnsEvidence` rests on
`OwnEvidenceInv`: the decision about an account fit carries the candidate of one of the
reports it was made of.  `ReconciliationOverlooks` follows from `CloseInv`, and
`RuntimeClosures` from `EngineClosures` and `RefusalsInv`: with no refusal, no retained artifact is missing from
the dispatch log.  The others read the answer off the gates or controls.

**What the proofs changed.**  An attempt that failed was often about the model.
Evaluators were written as `CASE` with arms that overlap where the code takes the first
one; they are `IF` chains now.  Filters, sums and merges are recursive functions where a
proof unfolds them.  The requests got the shape the source parses as assumptions: the
typing of labels, traces, bindings, audit records, waivers and a lane's risk profile, and
that the value for "none" is none of the records.  And the pointwise reference of the
schedule was too weak: it let the sources of a closed slice be any entries that had ended,
and asks now for the early close that the instant follows.

**Assumptions.**  Those named `ASSUME` in the modules: bounds are naturals, inputs have the
shape the source parses, calendars and windows are finite, `None`-like values lie outside
their sets.  TLC evaluates each of them in a passing run.

**Only model-checked.**  `ControlIsServed` and `StandardServedOnceControlStops`, the
liveness of the mailboxes: they need fairness and `ENABLED`, which tlapm does not reason
about.  That the violations of section 4 occur is shown by their counterexamples.

## 6. What is not modelled

* *Validation of fields*, reason codes, diagnostics, manifests, trace ids, digests and
  rendering: no property is about them.  A request that fails validation changes
  nothing; where a policy only tests that a field is filled, the model keeps that it is.
* *Arithmetic widths*: amounts are integers.  Sums of `i64` cents do not come near
  an overflow in a legal session.
* *The consumer of the broker's mailbox*, the paper adapter, the suppression sink, the
  broker the guardian talks to: they are not in `src/`.
* *Evidence archive* (`evidence_archive.rs`), *watchdog health* and *restore drills*
  (`health.rs`, `recovery.rs`): evaluators of one document whose verdicts are inputs of
  modules that are here.
* *Kernels*: numeric code with equivalence tests.
* *Policies that judge one document for completeness* (explanations, resolved contexts,
  the strategy contract, notebook quarantine), *that are tables* (economics, products,
  broker semantics, clocks, catalogues), or *that add up the statuses of other gates*
  (operational evidence, the vertical slice, residual limitations, expansion,
  upgrades, durability): they keep nothing, nothing interleaves with them, and what
  they can get wrong is the wording and the field lists the models abstract from.
* *Static checks at import* (`operational_runtime.py`'s topology contract): constants.
* *Infrastructure, scripts, fixtures, tests*: input and output, or fixed scenarios of
  operations that are modelled.

## 7. Plan

Done: the engine with its abstract order book, the mailboxes with their promise, the runtime; ledger, daily
close and auditor; what gates a session and what answers a fault; live bars; the guardian;
the policies from lifecycles to governance; the theorems of section 5, which cover every
safety property of the runs.

Left, most important first:

1. An abstract specification for the ledger (a set of booked callbacks), with the
   refinement proved as those of the engine and of the mailboxes are.
2. `GuardianEmergency` composed with the engine: two actors cancel the same orders,
   and the callbacks of what the guardian closed meet records the engine holds open.
3. The Rust and the Python recovery documents as one relation: what one fence opens,
   the other must accept.

Shallower properties give way to deeper ones; new components join the runs that put
components side by side.

## 8. Running it

    tlc -workers 2 -config BrokerMutationEngine.cfg BrokerMutationEngine.tla
    tlapm BrokerMutationEngineProofs.tla

The runs take between two seconds and about two minutes on two cores.  The proofs
take about a quarter of an hour from nothing, half of it for `DecisionsProofs`;
tlapm remembers what it proved.  No leaf needs long: all of them are proved with an eighth
of the default time limits too, on four cores (`--stretch 0.12`).  The modules use the community modules
`SequencesExt`, `FiniteSetsExt`, `Folds` and `Functions`.
