---------------------------- MODULE ResearchFunding ----------------------------
(***************************************************************************)
(* shared/policy/family_preregistration.py, discovery_accounting.py and    *)
(* program_closure.py: what a strategy family registers before it starts,  *)
(* what it may spend, how discovery is accounted for, and when the program *)
(* narrows, pivots or ends.                                                *)
(*                                                                         *)
(* The evaluators keep nothing; a program modelled here keeps the spending *)
(* of its families, the decisions authorised and the last answers.         *)
(* Amounts are small naturals.                                             *)
(***************************************************************************)
EXTENDS Integers, Sequences, SequencesExt, FiniteSets, FiniteSetsExt, GateChain

CONSTANTS
  FundedFamilies,   \* strategy families of the program
  NoFunding,        \* nothing decided yet
  BudgetLimits,     \* preregistered: [trials, data, compute, hours, exploratory, continuation, screened]
  BudgetRequests,   \* amounts a decision may authorise or a ledger may request
  ClosureReviews,   \* program closure reviews that may be held
  MaxSpend,         \* bound: spending recorded for a family
  MaxDecisions      \* bound: decisions authorised, over all families

ASSUME ResearchFundingAssumption ==
  /\ {MaxSpend, MaxDecisions} \subseteq Nat /\ BudgetRequests \subseteq Nat
  /\ BudgetLimits.continuation >= BudgetLimits.exploratory

----------------------------------------------------------------------------
ParameterRange == [id : STRING, lower : Int, upper : Int, rationale : BOOLEAN]
FamilyBudgetLimits ==
  [data : Int, compute : Int, trials : Int, hours : Int, exploratory : Int, continuation : Int, screened : BOOLEAN]
StrategyFamilyPreregistration ==
  [family : FundedFamilies, complete : BOOLEAN, ranges : Seq(ParameterRange), limits : FamilyBudgetLimits,
   metrics : SUBSET STRING, symbol : STRING]

(* validate_family_preregistration: the checks that fail *)
FailedPreregistrationChecks(r) ==
  {c \in {"metadata", "ranges", "budgets"} :
     CASE c = "metadata" -> ~r.complete \/ r.metrics = {}
       [] c = "ranges" -> \/ r.ranges = <<>>
                          \/ \E i, j \in DOMAIN r.ranges : i # j /\ r.ranges[i].id = r.ranges[j].id
                          \/ \E i \in DOMAIN r.ranges : ~(r.ranges[i].lower < r.ranges[i].upper /\ r.ranges[i].rationale)
       [] c = "budgets" -> LET b == r.limits
                           IN  \/ b.data < 0 \/ b.compute < 0 \/ b.trials <= 0 \/ b.hours <= 0
                               \/ b.exploratory <= 0 \/ b.continuation < b.exploratory}
EvaluatePreregistration(r) == IF FailedPreregistrationChecks(r) = {} THEN "register" ELSE "reject"

ViabilityDecisionReference == [supported : BOOLEAN, symbol : STRING, passed : BOOLEAN, deepAllowed : BOOLEAN]

DeepBudgetRequested(q) == q.type # "terminate" /\ q.next > q.preregistration.limits.exploratory

(* The decision is about the family it funds, cites the evidence summarised,
   gives its reasons, and continues with a budget. *)
DecisionAligned(q) ==
  /\ q.decisionFamily = q.preregistration.family /\ q.summary.evidence = q.cited /\ q.reasons
  /\ q.type = "terminate" \/ q.next > 0

(* Faulty variant: any viability report opens the deep budget. *)
AnyReport(q) == q.viability # NoFunding

(* The viability screen the deep budget rests on: it is about the symbol that
   will be traded, it passed, and it says that a deep budget is allowed. *)
ViabilityScreened(q) ==
  /\ q.viability # NoFunding
  /\ q.viability.supported /\ q.viability.symbol = q.preregistration.symbol
  /\ q.viability.passed /\ q.viability.deepAllowed

(* Faulty variant: the amount is not held against the continuation cap. *)
SpendsPastTheCap(q) ==
  LET s == q.summary
  IN  FirstClosed(
        <<Gate(EvaluatePreregistration(q.preregistration) # "register" \/ ~DecisionAligned(q), "invalid"),
          Gate(~(s.quality /\ s.economics /\ s.metrics # {} /\ s.metrics \subseteq q.preregistration.metrics), "invalid"),
          Gate(q.preregistration.limits.screened /\ DeepBudgetRequested(q) /\ ~ViabilityScreened(q), "violation"),
          Gate(q.type = "pause", "hold"),
          Gate(q.type = "terminate", "terminate")>>, "authorize")

(* evaluate_family_budget_decision: the continuation cap bounds one decision,
   not what a family is authorised in all. *)
EvaluateFamilyBudgetDecision(q) ==
  LET limits == q.preregistration.limits
      s == q.summary
  IN  FirstClosed(
        <<Gate(EvaluatePreregistration(q.preregistration) # "register", "invalid"),
          Gate(~DecisionAligned(q), "invalid"),
          Gate(~(s.quality /\ s.economics /\ s.metrics # {} /\ s.metrics \subseteq q.preregistration.metrics), "invalid"),
          Gate(~(q.consumed >= 0 /\ q.next <= limits.continuation), "violation"),
          Gate(limits.screened /\ DeepBudgetRequested(q) /\ ~ViabilityScreened(q), "violation"),
          Gate(q.type = "pause", "hold"),
          Gate(q.type = "terminate", "terminate")>>, "authorize")

----------------------------------------------------------------------------
NullModelOrder ==
  <<"random_entry", "time_shifted_anchor", "side_flipped_or_ablated", "permutation", "regime_conditional">>
RequiredNullModels == {NullModelOrder[i] : i \in DOMAIN NullModelOrder}
NullComparisonDelta == [metric : STRING, baseline : Int, observed : Int]
NullSuiteEntry ==
  [model : RequiredNullModels, completed : BOOLEAN, samples : Nat, retained : BOOLEAN, deltas : Seq(NullComparisonDelta)]

(* The amounts that a family's ledger, its entry in the program's ledger and the
   cumulative totals all hold. *)
Measures == {"trials", "nulls", "data", "compute", "hours"}

NullSuiteComplete(suite) ==
  /\ \A m \in RequiredNullModels : \E i \in DOMAIN suite : suite[i].model = m
  /\ \A i, j \in DOMAIN suite : suite[i].model = suite[j].model => i = j
  /\ \A i \in DOMAIN suite : suite[i].completed /\ suite[i].samples > 0 /\ suite[i].retained /\ suite[i].deltas # <<>>

FamilyLedgerValid(l, suite) ==
  /\ l.aligned /\ l.runs > 0 /\ l.requested >= 0
  /\ l.amounts.trials >= l.runs /\ l.amounts.nulls >= Len(suite)
  /\ \A m \in Measures : l.amounts[m] >= 0

(* The program ledger has one entry for the family and adds up; the entry is
   not compared with the family's own ledger. *)
ProgramLedgerValid(program, family) ==
  LET Total(m) == MapThenSumSet(LAMBDA i : program.entries[i].amounts[m], DOMAIN program.entries)
  IN  /\ program.entries # <<>>
      /\ Cardinality({i \in DOMAIN program.entries : program.entries[i].family = family}) = 1
      /\ \A m \in Measures : program.cumulative[m] = Total(m)

ExceedsExploratory(l, limits) ==
  \/ \E m \in {"trials", "data", "compute", "hours"} : l.amounts[m] > limits[m]
  \/ l.amounts.data + l.amounts.compute + l.requested > limits.exploratory

ContinuationCovers(d, l) ==
  d # NoFunding /\ d.family = l.family /\ d.type \in {"continue", "pivot"} /\ d.next >= l.requested

(* evaluate_discovery_accounting *)
EvaluateDiscoveryAccounting(l, suite, program, d, limits) ==
  FirstClosed(<<Gate(~FamilyLedgerValid(l, suite), "invalid"),
                Gate(~ProgramLedgerValid(program, l.family), "invalid"),
                Gate(~NullSuiteComplete(suite), "block"),
                Gate(ExceedsExploratory(l, limits) /\ ~ContinuationCovers(d, l), "block"),
                Gate(ExceedsExploratory(l, limits), "allow_with_continuation")>>, "allow_exploratory")

----------------------------------------------------------------------------
ProgramClosureRequest ==
  [tradable : BOOLEAN, net : Int, threshold : Int, friction : Nat, approvedCapital : Nat, requiredCapital : Nat,
   hours : Nat, maxHours : Nat, offers : SUBSET {"intraday", "alternate_symbol", "paper", "higher_capital"}]

Triggers(q) ==
  {t \in {"tradability", "economics", "friction", "posture"} :
     CASE t = "tradability" -> ~q.tradable
       [] t = "economics" -> q.net < q.threshold
       [] t = "friction" -> q.friction >= IF q.net > 0 THEN q.net ELSE 0
       [] t = "posture" -> q.requiredCapital > q.approvedCapital \/ q.hours > q.maxHours}

(* The fallbacks each trigger tries, in order, before the program ends. *)
ClosureFallbacks ==
  [tradability |-> <<"intraday", "alternate_symbol", "paper">>,
   economics   |-> <<"higher_capital", "paper">>,
   friction    |-> <<"paper", "intraday">>,
   posture     |-> <<"higher_capital", "paper">>]

FirstOffered(order, offers) == FirstClosed([i \in DOMAIN order |-> Gate(order[i] \in offers, order[i])], "terminate")

(* evaluate_program_closure: the first trigger chooses the fallback, and a
   symbol that neither trades nor pays ends the program. *)
EvaluateProgramClosure(q) ==
  LET triggers == Triggers(q)
      leading == FirstClosed(<<Gate("tradability" \in triggers, "tradability"),
                               Gate("economics" \in triggers, "economics"),
                               Gate("friction" \in triggers, "friction")>>, "posture")
  IN  CASE triggers = {} -> "continue"
        [] {"tradability", "economics"} \subseteq triggers -> "terminate"
        [] OTHER -> FirstOffered(ClosureFallbacks[leading], q.offers)

----------------------------------------------------------------------------
VARIABLES
  spent,      \* the amounts each family's own ledger records
  entered,    \* the amounts entered for it in the program's ledger
  decisions,  \* the decisions authorised for each family, oldest first
  allowed,    \* the last discovery request that was allowed, with its answer
  closure     \* the last closure review, with its answer

fundingVars == <<spent, entered, decisions, allowed, closure>>

FundingInit ==
  /\ spent = [f \in FundedFamilies |-> 0] /\ entered = spent
  /\ decisions = [f \in FundedFamilies |-> <<>>] /\ allowed = NoFunding /\ closure = NoFunding

Spend(f) ==
  /\ spent[f] < MaxSpend
  /\ spent' = [spent EXCEPT ![f] = @ + 1]
  /\ UNCHANGED <<entered, decisions, allowed, closure>>

EnterInProgram(f) ==
  /\ entered' = [entered EXCEPT ![f] = spent[f]]
  /\ UNCHANGED <<spent, decisions, allowed, closure>>

Preregistration(f) ==
  [family |-> f, complete |-> TRUE, ranges |-> <<[id |-> "p", lower |-> 0, upper |-> 1, rationale |-> TRUE]>>,
   limits |-> BudgetLimits, metrics |-> {"net"}, symbol |-> "MGC"]

ContinuationEvidenceSummary == [quality |-> TRUE, economics |-> TRUE, metrics |-> {"net"}, evidence |-> {"e1"}]

(* A decision is recorded when the evaluator authorises it. *)
DecideBudget(f, type, next, viability) ==
  LET q == [preregistration |-> Preregistration(f), decisionFamily |-> f, type |-> type, next |-> next,
            consumed |-> spent[f], reasons |-> TRUE, cited |-> {"e1"}, viability |-> viability,
            summary |-> ContinuationEvidenceSummary]
  IN  /\ EvaluateFamilyBudgetDecision(q) = "authorize"
      /\ decisions' = [decisions EXCEPT ![f] =
                         Append(@, [family |-> f, type |-> type, next |-> next, viability |-> viability])]
      /\ UNCHANGED <<spent, entered, allowed, closure>>

(* Money spent is data; one run, one trial per unit spent and five nulls are
   recorded.  The latest decision of some family is presented, or none. *)
AmountsOf(units) ==
  [m \in Measures |-> CASE m = "nulls" -> 5 [] m = "data" -> units [] m = "trials" -> units + 1 [] OTHER -> 0]
FamilyDiscoveryLedgerEntry(f, units, requested) ==
  [family |-> f, aligned |-> TRUE, runs |-> 1, amounts |-> AmountsOf(units), requested |-> requested]

(* The families in the order of their entries in the program's ledger, and the
   ledger with the totals of what is entered, or of what is really spent. *)
FamilyOrder == SetToSeq(FundedFamilies)
ProgramLedger(cumulative) ==
  [entries |-> [i \in DOMAIN FamilyOrder |-> FamilyDiscoveryLedgerEntry(FamilyOrder[i], entered[FamilyOrder[i]], 0)],
   cumulative |-> [m \in Measures |-> MapThenSumSet(LAMBDA g : AmountsOf(cumulative[g])[m], FundedFamilies)]]

RequestDiscovery(f, requested, suite, presented, program) ==
  LET answer == EvaluateDiscoveryAccounting(FamilyDiscoveryLedgerEntry(f, spent[f], requested), suite, program, presented,
                                            BudgetLimits)
  IN  /\ answer \in {"allow_exploratory", "allow_with_continuation"}
      /\ allowed' = [family |-> f, requested |-> requested, answer |-> answer, presented |-> presented,
                     spent |-> spent[f], entered |-> entered[f]]
      /\ UNCHANGED <<spent, entered, decisions, closure>>

ReviewProgram(q) ==
  /\ closure' = [review |-> q, answer |-> EvaluateProgramClosure(q)]
  /\ UNCHANGED <<spent, entered, decisions, allowed>>

FullSuite ==
  [i \in DOMAIN NullModelOrder |->
     [model |-> NullModelOrder[i], completed |-> TRUE, samples |-> 1, retained |-> TRUE,
      deltas |-> <<[metric |-> "net", baseline |-> 0, observed |-> 1]>>]]

(* The viability reports a decision may cite. *)
ViabilityReports == [supported : {TRUE}, symbol : {"MGC", "GC"}, passed : {TRUE}, deepAllowed : {TRUE}]

FundingNext ==
  \/ \E f \in FundedFamilies : Spend(f) \/ EnterInProgram(f)
  \/ /\ MapThenSumSet(LAMBDA g : Len(decisions[g]), FundedFamilies) < MaxDecisions
     /\ \E f \in FundedFamilies, type \in {"continue", "pivot", "pause", "terminate"}, next \in BudgetRequests,
           v \in {NoFunding} \cup ViabilityReports :
          DecideBudget(f, type, next, v)
  \/ \E program \in {ProgramLedger(entered), ProgramLedger(spent)}, f \in FundedFamilies, requested \in BudgetRequests,
        suite \in {FullSuite, Tail(FullSuite)}, d \in {NoFunding} \cup UNION {Range(decisions[g]) : g \in FundedFamilies} :
       RequestDiscovery(f, requested, suite, d, program)
ClosureNext == \E q \in ClosureReviews : ReviewProgram(q)

FundingSpec == FundingInit /\ [][FundingNext \/ ClosureNext]_fundingVars

----------------------------------------------------------------------------
ASSUME FundingInputsAssumption ==
  /\ \A f \in FundedFamilies : Preregistration(f) \in StrategyFamilyPreregistration
  /\ ViabilityReports \subseteq ViabilityDecisionReference
  /\ ClosureReviews \subseteq ProgramClosureRequest /\ FullSuite \in Seq(NullSuiteEntry)

FundingTypeOK ==
  /\ \A f \in FundedFamilies : /\ entered[f] \in 0..spent[f] /\ spent[f] \in 0..MaxSpend
                               /\ \A i \in DOMAIN decisions[f] :
                                    /\ decisions[f][i].family = f /\ decisions[f][i].next \in 1..BudgetLimits.continuation
                                    /\ decisions[f][i].viability \in ViabilityDecisionReference \cup {NoFunding}
  /\ allowed # NoFunding => allowed.spent <= spent[allowed.family] /\ allowed.entered <= entered[allowed.family]

(* The two gates together: spending allowed past the exploratory limit rests on
   an authorised decision of the same family that covers it, within the
   continuation cap, and a decision that opens the deep budget was screened on
   the symbol that will be traded. *)
DeepBudgetIsEarned ==
  (allowed # NoFunding /\ allowed.spent + allowed.requested > BudgetLimits.exploratory) =>
    LET d == allowed.presented
    IN  /\ d # NoFunding /\ d.family = allowed.family /\ allowed.requested <= d.next
        /\ allowed.requested <= BudgetLimits.continuation
        /\ (BudgetLimits.screened /\ d.next > BudgetLimits.exploratory)
             => d.viability # NoFunding /\ d.viability.passed /\ d.viability.symbol = "MGC"

(* A review only recommends a fallback that is on offer, ends a program whose
   symbol neither trades nor pays, and never answers an untradable symbol with
   more capital. *)
ClosuresAreCoherent ==
  closure # NoFunding =>
    LET q == closure.review
    IN  /\ closure.answer \in q.offers \cup {"continue", "terminate"}
        /\ closure.answer = "continue" <=> Triggers(q) = {}
        /\ {"tradability", "economics"} \subseteq Triggers(q) => closure.answer = "terminate"
        /\ ~q.tradable => closure.answer # "higher_capital"

(* What a family may spend, and when the program stops spending. *)
SpendingIsGoverned == DeepBudgetIsEarned /\ ClosuresAreCoherent

=============================================================================
