----------------------------- MODULE SelectionGates -----------------------------
(***************************************************************************)
(* shared/policy/account_fit_gate.py, absolute_dollar_viability.py and     *)
(* selection_hard_gates.py: whether a candidate fits the account, earns    *)
(* enough in dollars, and may advance on the reports of all the gates      *)
(* before.                                                                 *)
(*                                                                         *)
(* The evaluators keep nothing.  A selection desk modelled here keeps the  *)
(* reports and decides on what it has: a report is about the candidate it  *)
(* was written for, whatever the document of the report says about that.   *)
(***************************************************************************)
EXTENDS ViabilityScreens, Sequences, SequencesExt

CONSTANTS
  Finalists,             \* candidates under selection
  NoEvidence,            \* no report yet
  Screens,               \* screens that may be run
  SymbolCertifications,  \* certifications that may be asked for, but for the screen's answer
  FitRequests,           \* account-fit requests that may be made
  DollarRequests,        \* dollar-viability requests, but for the account-fit answer
  SelectionTerms,        \* selection requests, but for the reports gathered here
  MaxFitReports,         \* bound: account-fit reports kept
  MaxFitTime             \* bound: instants of the account-fit clock

ASSUME SelectionAssumption == {MaxFitReports, MaxFitTime} \subseteq Nat

----------------------------------------------------------------------------
BrokerMarginSnapshot == [initial : Nat, maintenance : Nat, from : Nat, to : Nat]
FeeScheduleArtifact == [perSide : Nat, from : Nat, to : Nat]
AccountFitThresholds ==
  [approvedSymbols : SUBSET STRING, maxSize : Nat, equity : Nat \ {0}, initial : Nat, maintenance : Nat, daily : Nat,
   drawdown : Nat, gap : Nat]   \* fractions in percent
AccountFitRequest ==
  [wellFormed : BOOLEAN, aligned : BOOLEAN, symbol : STRING, contracts : Nat \ {0}, overnight : BOOLEAN, daily : Nat,
   drawdown : Nat, gap : Nat, margin : BrokerMarginSnapshot, fee : FeeScheduleArtifact,
   thresholds : AccountFitThresholds]

RoundTurnFees(q) == q.contracts * 2 * q.fee.perSide
Within(amount, percent, q) == (amount + RoundTurnFees(q)) * 100 <= percent * q.thresholds.equity

SymbolApproved(q) == q.symbol \in q.thresholds.approvedSymbols /\ q.contracts <= q.thresholds.maxSize

(* The checks of a fresh request that fail; the gap only counts overnight. *)
FailedFitChecks(q) ==
  LET t == q.thresholds
  IN  {c \in {"symbol", "initial", "maintenance", "daily", "drawdown", "gap"} :
         ~CASE c = "symbol" -> SymbolApproved(q)
            [] c = "initial" -> Within(q.contracts * q.margin.initial, t.initial, q)
            [] c = "maintenance" -> Within(q.contracts * q.margin.maintenance, t.maintenance, q)
            [] c = "daily" -> Within(q.daily, t.daily, q)
            [] c = "drawdown" -> Within(q.drawdown, t.drawdown, q)
            [] c = "gap" -> q.overnight => Within(q.gap, t.gap, q)}

(* evaluate_account_fit *)
EvaluateAccountFit(q, now) ==
  FirstClosed(<<Gate(~q.wellFormed \/ ~q.aligned, "invalid"),
                Gate(~(now \in q.margin.from..q.margin.to) \/ ~(now \in q.fee.from..q.fee.to), "stale"),
                Gate(FailedFitChecks(q) # {}, "fail")>>, "pass")

(* Faulty variant: a symbol is allowed when any report names it. *)
AnyReportAllows(reports) ==
  LET allowed == {reports[i].symbol : i \in {j \in DOMAIN reports : reports[j].status # "invalid"}}
  IN  [candidate |-> reports[1].candidate, allowed |-> allowed,
       selected |-> IF Cardinality(allowed) = 1 THEN CHOOSE s \in allowed : TRUE ELSE "none",
       status |-> IF allowed # {} THEN "pass" ELSE "fail"]

(* select_account_fit_execution_symbol: the decision is about the candidate of
   the first report; a symbol that passed twice is not selected. *)
ChooseExecutionSymbol(reports) ==
  LET passing == {i \in DOMAIN reports : reports[i].status = "pass"}
      Some(status) == \E i \in DOMAIN reports : reports[i].status = status
  IN  [candidate |-> reports[1].candidate,
       allowed |-> {reports[i].symbol : i \in passing},
       selected |-> IF Cardinality(passing) = 1 THEN reports[CHOOSE i \in passing : TRUE].symbol ELSE "none",
       status |-> FirstClosed(<<Gate(passing # {}, "pass"), Gate(Some("stale"), "stale"),
                                Gate(Some("invalid"), "invalid")>>, "fail")]

----------------------------------------------------------------------------
AbsoluteDollarRequest ==
  [supported : BOOLEAN, family : STRING, symbol : STRING, equity : Nat, margin : Nat, net : Int, gold : Int, cash : Int,
   downside : Int, floor : Int, goldExcess : Int, cashExcess : Int, downsideFloor : Int,
   alternative : Int \cup {NoEvidence}, hours : Nat \cup {NoEvidence}, alternativeHours : Nat \cup {NoEvidence}]

(* _lower_touch_dominates: with both hours known, the alternative must not ask
   for more of them; net dollars per hour are compared when both are positive. *)
LowerTouchDominates(q) ==
  /\ q.alternative # NoEvidence
  /\ IF NoEvidence \in {q.hours, q.alternativeHours} THEN q.alternative >= q.net
     ELSE /\ q.alternativeHours <= q.hours
          /\ \/ q.alternative >= q.net
             \/ q.hours > 0 /\ q.alternativeHours > 0 /\ q.alternative * q.hours >= q.net * q.alternativeHours

DollarsRefused(q) ==
  q.net < q.floor \/ q.net - q.gold < q.goldExcess \/ q.net - q.cash < q.cashExcess

(* There is a passed account fit to rest on, and cash left besides the margin. *)
DollarsAssessable(q, fitStatus) == q.supported /\ fitStatus = "pass" /\ q.margin > 0 /\ q.equity > q.margin

(* evaluate_absolute_dollar_viability: keep, pivot or reject *)
EvaluateAbsoluteDollars(q, fitStatus) ==
  FirstClosed(<<Gate(~DollarsAssessable(q, fitStatus), "invalid"),
                Gate(DollarsRefused(q), "reject"),
                Gate(q.downside < q.downsideFloor \/ LowerTouchDominates(q), "pivot")>>, "keep")

----------------------------------------------------------------------------
(* The reports a selection rests on, each with the candidate it is about.  The
   report of the evaluation protocol names no candidate. *)
SelectionRequest ==
  [candidate : Finalists, family : STRING, afterCost : [candidate : Finalists, family : STRING, passed : BOOLEAN],
   accounting : [family : STRING, separated : BOOLEAN], supported : BOOLEAN, bundled : BOOLEAN, asked : STRING,
   ranked : BOOLEAN]

(* _identity_check: an account fit and a certification name no family. *)
IdentitiesAligned(q, e) ==
  /\ {q.afterCost.candidate, e.certification.candidate, e.fit.candidate, e.dollars.candidate} = {q.candidate}
  /\ {q.afterCost.family, q.accounting.family, e.dollars.family} = {q.family}

BundleComplete(q) == q.bundled

SelectedSymbol(q, e) == IF e.fit.selected # "none" THEN e.fit.selected ELSE q.asked

SymbolPinned(q, e) ==
  /\ SelectedSymbol(q, e) \in e.fit.allowed
  /\ SelectedSymbol(q, e) = e.certification.execution
  /\ SelectedSymbol(q, e) = e.dollars.symbol

AccountFitPassed(e) == e.fit.status = "pass"
DollarsKept(e) == e.dollars.decision = "keep"

(* The hard gates that fail, by the surface they look at. *)
FailedGates(q, e) ==
  {g \in {"profitability", "nulls", "protocol", "portability", "fit", "dollars", "pin", "bundle"} :
     ~CASE g = "profitability" -> q.afterCost.passed
        [] g = "nulls" -> q.accounting.separated
        [] g = "protocol" -> e.protocol.passed
        [] g = "portability" -> e.certification.allowed
        [] g = "fit" -> AccountFitPassed(e)
        [] g = "dollars" -> DollarsKept(e)
        [] g = "pin" -> SymbolPinned(q, e)
        [] g = "bundle" -> BundleComplete(q)}

(* _build_failure_decision: the first surface in this order decides *)
FailureDecision(failed, e) ==
  FirstClosed(<<Gate(failed = {}, "advance"),
                Gate("dollars" \in failed, IF e.dollars.decision = "pivot" THEN "pivot" ELSE "reject"),
                Gate("portability" \in failed,
                     CASE e.certification.outcome = "pivot" -> "pivot" [] e.certification.outcome = "narrow" -> "hold"
                       [] OTHER -> "reject"),
                Gate(failed \cap {"fit", "profitability"} # {}, "reject")>>, "hold")

(* _ranking_secondary_check *)
RankingOverrides(q, failed, decision) == q.ranked /\ failed # {} /\ decision = "advance"

(* evaluate_selection_hard_gates *)
EvaluateSelection(q, e) ==
  LET failed == FailedGates(q, e)
      provisional == FailureDecision(failed, e)
  IN  FirstClosed(<<Gate(~q.supported \/ ~IdentitiesAligned(q, e), "hold"),
                    Gate("bundle" \in failed, "hold"),
                    Gate(failed # {} \/ RankingOverrides(q, failed, provisional), provisional)>>, "advance")

ASSUME SelectionInputsAssumption ==
  /\ Screens \subseteq ScreenRequest /\ SymbolCertifications \subseteq CertificationRequest
  /\ FitRequests \subseteq AccountFitRequest /\ DollarRequests \subseteq AbsoluteDollarRequest
  /\ SelectionTerms \subseteq SelectionRequest
----------------------------------------------------------------------------
VARIABLES
  certification,  \* the last certification of an execution symbol
  fitReports,     \* account-fit reports, oldest first
  fitTime,        \* the account-fit clock
  fitDecision,    \* the symbols that fit, with the reports they were chosen from
  dollars,        \* the last answer about absolute dollars
  protocol,       \* the last report of the evaluation protocol
  selection       \* NoEvidence, or the decision and what it rested on

selectionVars == <<certification, fitReports, fitTime, fitDecision, dollars, protocol, selection>>

SelectionInit ==
  /\ fitReports = <<>> /\ fitTime = 0
  /\ certification = NoEvidence /\ fitDecision = NoEvidence
  /\ dollars = NoEvidence /\ protocol = NoEvidence /\ selection = NoEvidence

(* The reports of a round are gathered once each, in the order in which the hard
   gates read them; no report depends on a later one.  A certification cites the screen of its symbol by the answer it gave. *)
CertifySymbol(c, screen, request) ==
  LET report == EvaluatePortability([request EXCEPT !.screened = EvaluateScreen(screen).passed])
  IN  /\ certification = NoEvidence
      /\ certification' = [candidate |-> c, execution |-> report.execution, allowed |-> report.allowed,
                           outcome |-> report.outcome, screened |-> EvaluateScreen(screen).passed]
      /\ UNCHANGED <<fitReports, fitTime, fitDecision, dollars, protocol, selection>>

FitAccount(c, q) ==
  /\ certification # NoEvidence /\ fitDecision = NoEvidence /\ Len(fitReports) < MaxFitReports
  /\ fitReports' = Append(fitReports, [candidate |-> c, symbol |-> q.symbol, status |-> EvaluateAccountFit(q, fitTime)])
  /\ UNCHANGED <<certification, fitTime, fitDecision, dollars, protocol, selection>>

PassFitTime ==
  /\ fitDecision = NoEvidence /\ fitTime < MaxFitTime /\ fitTime' = fitTime + 1
  /\ UNCHANGED <<certification, fitReports, fitDecision, dollars, protocol, selection>>

(* The reports are handed in as they were collected. *)
ChooseSymbol ==
  LET d == ChooseExecutionSymbol(fitReports)
  IN  /\ fitDecision = NoEvidence /\ fitReports # <<>>
      /\ fitDecision' = [candidate |-> d.candidate, allowed |-> d.allowed, selected |-> d.selected, status |-> d.status,
                         sources |-> ToSet(fitReports)]
      /\ fitReports' = <<>>
      /\ UNCHANGED <<certification, fitTime, dollars, protocol, selection>>

CountDollars(c, q) ==
  /\ fitDecision # NoEvidence /\ dollars = NoEvidence
  /\ dollars' = [candidate |-> c, family |-> q.family, symbol |-> q.symbol,
                 decision |-> EvaluateAbsoluteDollars(q, fitDecision.status)]
  /\ UNCHANGED <<certification, fitReports, fitTime, fitDecision, protocol, selection>>

ReportProtocol(c, passed) ==
  /\ dollars # NoEvidence /\ protocol = NoEvidence
  /\ protocol' = [candidate |-> c, passed |-> passed]
  /\ UNCHANGED <<certification, fitReports, fitTime, fitDecision, dollars, selection>>

Select(q) ==
  LET e == [certification |-> certification, fit |-> fitDecision, dollars |-> dollars, protocol |-> protocol]
  IN  /\ selection = NoEvidence /\ protocol # NoEvidence
      /\ selection' = [request |-> q, evidence |-> e, decision |-> EvaluateSelection(q, e)]
      /\ UNCHANGED <<certification, fitReports, fitTime, fitDecision, dollars, protocol>>

SelectionNext ==
  \/ \E c \in Finalists, screen \in Screens, q \in SymbolCertifications : CertifySymbol(c, screen, q)
  \/ \E c \in Finalists, q \in FitRequests : FitAccount(c, q)
  \/ PassFitTime
  \/ ChooseSymbol
  \/ \E c \in Finalists, q \in DollarRequests : CountDollars(c, q)
  \/ \E c \in Finalists, passed \in BOOLEAN : ReportProtocol(c, passed)
  \/ \E q \in SelectionTerms : Select(q)

SelectionSpec == SelectionInit /\ [][SelectionNext]_selectionVars

----------------------------------------------------------------------------
SelectionTypeOK ==
  /\ \A i \in DOMAIN fitReports : fitReports[i].status \in {"pass", "stale", "fail", "invalid"}
  /\ fitDecision # NoEvidence => fitDecision.allowed \subseteq {r.symbol : r \in fitDecision.sources}
  /\ selection # NoEvidence => selection.decision \in {"advance", "hold", "pivot", "reject"}

(* A candidate advances on one symbol: the one its certificate and its dollars
   are about, that its screen passed, and that an account-fit report passed; a
   symbol that only ever failed is never the one. *)
AdvancesOnOneSymbol ==
  (selection # NoEvidence /\ selection.decision = "advance") =>
    LET e == selection.evidence
        symbol == SelectedSymbol(selection.request, e)
    IN  /\ e.certification.execution = symbol /\ e.dollars.symbol = symbol
        /\ e.certification.screened /\ e.protocol.passed
        /\ \E r \in e.fit.sources : r.symbol = symbol /\ r.status = "pass"

(* selection_hard_gates.py: all upstream gate reports must refer to the same
   candidate.  The protocol report names none, and an account-fit decision names
   the candidate of its first report only. *)
EvidenceIsTheCandidates ==
  (selection # NoEvidence /\ selection.decision = "advance") =>
    LET e == selection.evidence
    IN  /\ e.protocol.candidate = selection.request.candidate
        /\ \A r \in e.fit.sources : r.candidate = selection.request.candidate
=============================================================================
