-------------------------- MODULE AccountingLedger --------------------------
(***************************************************************************)
(* rust/opsd/src/ledger.rs: the append-only internal ledger and the        *)
(* as-booked session-close artifacts built from it.                        *)
(*                                                                         *)
(* An account, symbol and session together are a scope.  An event carries  *)
(* one amount per ledger metric (contracts, cash, PnL, fees, commissions), *)
(* possibly the callback it books and the discrepancy it opens or settles, *)
(* and, for broker snapshots, the broker's figure.  Requests that fail the *)
(* field checks of append_event change nothing and are left out.           *)
(***************************************************************************)
EXTENDS Integers, Sequences, FiniteSets, SequencesExt, Foundations

CONSTANTS
  Scopes, Callbacks, Discrepancies,
  Metrics,           \* the five columns of LedgerTotals, or some of them
  Figures,           \* figures a broker snapshot can carry
  None,              \* absent callback, discrepancy or figure
  EventRequests,     \* the append requests the environment makes
  MaxEvents, MaxCloses   \* bounds: events booked, session closes built

BookedClasses == {"booked_fill", "booked_fee", "booked_commission", "booked_cash_movement"}
ReconcilingClasses == {"reconciliation_adjustment", "restatement"}
EventClasses ==
  BookedClasses \cup ReconcilingClasses
  \cup {"broker_eod_position", "broker_eod_margin_snapshot", "unresolved_discrepancy"}

EventRequest ==
  [class : EventClasses, scope : Scopes, callback : Callbacks \cup {None},
   discrepancy : Discrepancies \cup {None}, amounts : [Metrics -> Int],
   figure : Figures \cup {None}, sequence : {0}]    \* numbered when booked

ASSUME LedgerAssumption ==
  /\ EventRequests \subseteq EventRequest
  /\ None \notin Callbacks /\ None \notin Discrepancies /\ None \notin Figures
  /\ Figures \subseteq Int
  /\ MaxEvents \in Nat /\ MaxCloses \in Nat

VARIABLES
  events,             \* booked events, in insertion order
  callbackReceipts,   \* callback -> sequence id that booked it, or 0
  nextSequence,       \* next sequence id
  closes              \* session-close artifacts, oldest first

ledgerVars == <<events, callbackReceipts, nextSequence, closes>>

LedgerInit ==
  /\ events = <<>>
  /\ callbackReceipts = [c \in Callbacks |-> 0]
  /\ nextSequence = 1
  /\ closes = <<>>

----------------------------------------------------------------------------
ScopedEvents(s) == Picked(events, {n \in DOMAIN events : events[n].scope = s})

AlreadyBooked(r) == r.callback # None /\ callbackReceipts[r.callback] # 0

Receipts(r) ==
  IF r.callback = None THEN callbackReceipts
  ELSE [callbackReceipts EXCEPT ![r.callback] = nextSequence]

Booked(r) == [r EXCEPT !.sequence = nextSequence]

(* Faulty variant of append_event: no memory of callbacks. *)
AppendsEveryDelivery(r) ==
  /\ Len(events) < MaxEvents
  /\ events' = Append(events, Booked(r))
  /\ nextSequence' = nextSequence + 1
  /\ UNCHANGED <<callbackReceipts, closes>>

(* append_event books a request, unless some event, of whatever scope, booked
   its callback already: then its receipt is returned and nothing changes. *)
AppendEvent(r) ==
  /\ ~AlreadyBooked(r)
  /\ Len(events) < MaxEvents
  /\ events' = Append(events, Booked(r))
  /\ nextSequence' = nextSequence + 1
  /\ callbackReceipts' = Receipts(r)
  /\ UNCHANGED closes

(* validate_append_only_ledger; event ids are sequence ids in print. *)
AppendOnlyValid(evs) ==
  \A m, n \in DOMAIN evs : m < n => evs[m].sequence < evs[n].sequence

TotalOf(evs, metric, classes) ==
  SumOf([n \in DOMAIN evs |-> IF evs[n].class \in classes THEN evs[n].amounts[metric] ELSE 0], Len(evs))

Totals(evs, classes) == [metric \in Metrics |-> TotalOf(evs, metric, classes)]

(* latest_broker_snapshot: the last snapshot of a class, whatever it carries. *)
LatestFigure(evs, class) ==
  LET snapshots == {n \in DOMAIN evs : evs[n].class = class}
  IN  IF snapshots = {} THEN None ELSE evs[Max(snapshots)].figure

(* Faulty variant: any event that names a discrepancy settles it. *)
SettledByAnyMention(evs) ==
  LET named(classes) == {evs[n].discrepancy : n \in {m \in DOMAIN evs : evs[m].class \in classes}}
  IN  (named({"unresolved_discrepancy"}) \ named(EventClasses \ {"unresolved_discrepancy"})) \ {None}

(* A discrepancy is settled by any reconciling event that names it, be it
   booked before or after the discrepancy was opened. *)
UnresolvedDiscrepancies(evs) ==
  LET named(classes) == {evs[n].discrepancy : n \in {m \in DOMAIN evs : evs[m].class \in classes}}
  IN  (named({"unresolved_discrepancy"}) \ named(ReconcilingClasses)) \ {None}

SessionCloseStatus(evs) ==
  IF ~AppendOnlyValid(evs) THEN "violation"
  ELSE IF UnresolvedDiscrepancies(evs) # {} THEN "review_required" ELSE "pass"

CloseOver(s, scoped) ==
  [scope        |-> s,
   status       |-> SessionCloseStatus(scoped),
   trace        |-> {scoped[n].sequence : n \in DOMAIN scoped},
   booked       |-> Totals(scoped, BookedClasses),
   reconciled   |-> Totals(scoped, BookedClasses \cup ReconcilingClasses),
   position     |-> LatestFigure(scoped, "broker_eod_position"),
   margin       |-> LatestFigure(scoped, "broker_eod_margin_snapshot"),
   unresolved   |-> UnresolvedDiscrepancies(scoped),
   restatements |-> {scoped[n].sequence : n \in {m \in DOMAIN scoped : scoped[m].class = "restatement"}}]

SessionClose(s) == CloseOver(s, ScopedEvents(s))

(* Faulty variant: totals over the whole ledger. *)
ClosesWithoutScope(s) ==
  /\ ScopedEvents(s) # <<>>
  /\ Len(closes) < MaxCloses
  /\ closes' = Append(closes, [SessionClose(s) EXCEPT
                                 !.reconciled = Totals(events, BookedClasses \cup ReconcilingClasses)])
  /\ UNCHANGED <<events, callbackReceipts, nextSequence>>

(* build_session_close_artifact, and the runtime keeping its result. *)
BuildSessionClose(s) ==
  /\ ScopedEvents(s) # <<>>      \* else NoEventsForSessionClose
  /\ Len(closes) < MaxCloses
  /\ closes' = Append(closes, SessionClose(s))
  /\ UNCHANGED <<events, callbackReceipts, nextSequence>>

LedgerNext ==
  \/ \E r \in EventRequests : AppendEvent(r)
  \/ \E s \in Scopes : BuildSessionClose(s)

LedgerSpec == LedgerInit /\ [][LedgerNext]_ledgerVars

----------------------------------------------------------------------------
SessionCloses ==
  [scope : Scopes, status : {"pass", "review_required", "violation"},
   trace : SUBSET (1..MaxEvents), booked : [Metrics -> Int], reconciled : [Metrics -> Int],
   position : Figures \cup {None}, margin : Figures \cup {None},
   unresolved : SUBSET Discrepancies, restatements : SUBSET (1..MaxEvents)]

(* Types of the ledger; every receipt names the event that booked its callback,
   and no session close fails its append-only check (struct AccountingLedger). *)
LedgerTypeOK ==
  /\ \A n \in DOMAIN events : \E r \in EventRequests : events[n] = [r EXCEPT !.sequence = n]
  /\ nextSequence = Len(events) + 1
  /\ \A c \in Callbacks :
       callbackReceipts[c] # 0 => events[callbackReceipts[c]].callback = c
  /\ \A n \in DOMAIN closes : closes[n] \in SessionCloses /\ closes[n].status # "violation"

(* A callback delivered any number of times, for whatever scope, is booked
   once, so it counts once in the totals of all sessions together. *)
CallbackBooksOnce ==
  \A m, n \in DOMAIN events :
    m # n /\ events[m].callback = events[n].callback => events[m].callback = None

Traced(close) == Picked(events, {n \in DOMAIN events : events[n].sequence \in close.trace})

(* A session close can be audited at any later time: the events its trace
   lists are all of its scope, and they still add up to the figures it gives,
   whatever was booked or restated since. *)
ClosesAreReproducible ==
  \A n \in DOMAIN closes :
    LET close == closes[n]
        traced == Traced(close)
    IN  /\ \A k \in DOMAIN traced : traced[k].scope = close.scope
        /\ close.booked = Totals(traced, BookedClasses)
        /\ close.reconciled = Totals(traced, BookedClasses \cup ReconcilingClasses)
        /\ close.unresolved = UnresolvedDiscrepancies(traced)
        /\ close.margin = LatestFigure(traced, "broker_eod_margin_snapshot")

(* A discrepancy one close of a session reports can be missing from a later
   close of it only if a reconciling event booked since names it. *)
DiscrepanciesNeverVanish ==
  \A m, n \in DOMAIN closes :
    m < n /\ closes[m].scope = closes[n].scope =>
      /\ closes[m].trace \subseteq closes[n].trace
      /\ \A d \in closes[m].unresolved \ closes[n].unresolved :
           \E k \in closes[n].trace \ closes[m].trace :
             events[k].discrepancy = d /\ events[k].class \in ReconcilingClasses
=============================================================================
