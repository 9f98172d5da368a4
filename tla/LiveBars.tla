------------------------------- MODULE LiveBars -------------------------------
(***************************************************************************)
(* rust/opsd/src/bar_builder.rs: one live bar out of the market-data       *)
(* updates of its interval.  The builder keeps nothing between requests;   *)
(* the last report is retained with its request, as its artifacts are.     *)
(* Updates are taken in the order in which the request lists them.         *)
(***************************************************************************)
EXTENDS Integers, Sequences, FiniteSetsExt, Foundations

CONSTANTS
  BarRequests,    \* the requests the execution lane may make
  NoReference,    \* a request without a parity reference
  NotBuilt,       \* no bar asked for yet
  NaN             \* a price that is not a number

BarSessionStates ==
  {"tradeable", "reset_boundary", "maintenance", "delivery_fence", "policy_restricted", "closed"}
MarketDataEntitlement == {"live_top_of_book", "delayed_top_of_book", "missing"}

Prices == Int \cup {NaN}

(* A price, size, bid or ask that is missing reads 0, which no check admits either. *)
MarketDataEvent ==
  [kind : {"trade", "quote"}, native : BOOLEAN, corrected : BOOLEAN, latePrint : BOOLEAN,
   price : Prices, size : Nat, bid : Prices, ask : Prices, age : Nat]
(* Prices of bars are in half units, for the midpoints. *)
BarParityReference ==
  [open : Prices, high : Prices, low : Prices, close : Prices, volume : Nat, delay : Nat, window : STRING,
   priceTolerance : Prices, volumeTolerance : Nat, delayTolerance : Nat]
LiveBarBuildRequest ==
  [entitlement : MarketDataEntitlement, state : BarSessionStates, tradeable : BOOLEAN, window : STRING,
   fallback : BOOLEAN, delay : Nat, maxDelay : Nat, maxAge : Nat, staleRestrictBps : Nat,
   reference : BarParityReference \cup {NoReference}, updates : Seq(MarketDataEvent)]

ASSUME LiveBarsAssumption == NaN \notin Int /\ \A q \in BarRequests : q \in LiveBarBuildRequest

----------------------------------------------------------------------------
(* A comparison with a price that is not a number is false. *)
AtMost(x, y) == NaN \notin {x, y} /\ x <= y

(* normalize_updates: what it drops.  What is not a number is not dropped. *)
Dropped(u) ==
  \/ ~u.native \/ u.corrected \/ u.latePrint
  \/ u.kind = "trade" /\ (AtMost(u.price, 0) \/ u.size = 0)
  \/ u.kind = "quote" /\ (AtMost(u.bid, 0) \/ AtMost(u.ask, 0) \/ (AtMost(u.ask, u.bid) /\ u.bid # u.ask))

(* Faulty variant: late prints are named as rejected and used all the same. *)
AdmittedLate(updates, kind) ==
  Picked(updates, {n \in DOMAIN updates : updates[n].kind = kind /\ ~Dropped([updates[n] EXCEPT !.latePrint = FALSE])})

(* normalize_updates: the trades, or the quotes, that are left. *)
Admitted(updates, kind) ==
  Picked(updates, {n \in DOMAIN updates : updates[n].kind = kind /\ ~Dropped(updates[n])})

Level(u) ==
  LET parts == IF u.kind = "trade" THEN <<u.price, u.price>> ELSE <<u.bid, u.ask>>
  IN  IF NaN \in {parts[1], parts[2]} THEN NaN ELSE parts[1] + parts[2]
Stale(q, u) == u.age > q.maxAge

(* The folds of f64::max and f64::min pass over what is not a number. *)
Highest(levels) == IF levels \subseteq {NaN} THEN NaN ELSE Max(levels \ {NaN})
Lowest(levels) == IF levels \subseteq {NaN} THEN NaN ELSE Min(levels \ {NaN})

(* build_bar_from_trades and build_bar_from_quotes, for a non-empty sequence. *)
BarOf(q, ticks, source) ==
  LET levels == {Level(ticks[n]) : n \in DOMAIN ticks}
  IN  [source |-> source, open |-> Level(ticks[1]), close |-> Level(ticks[Len(ticks)]),
       high |-> Highest(levels), low |-> Lowest(levels), window |-> q.window,
       volume |-> IF source = "trades" THEN SumOf([n \in DOMAIN ticks |-> ticks[n].size], Len(ticks)) ELSE 0,
       zeroVolume |-> source = "quote_fallback"]

(* parity_reason_codes *)
Apart(x, y) == IF x >= y THEN x - y ELSE y - x
PriceDrifts(x, y, tolerance) == NaN \notin {x, y, tolerance} /\ Apart(x, y) > tolerance
ParityReasons(bar, q) ==
  IF q.reference = NoReference THEN {}
  ELSE LET r == q.reference
           drifts == [ohlc |-> \E f \in {"open", "high", "low", "close"} : PriceDrifts(bar[f], r[f], r.priceTolerance),
                      volume |-> Apart(bar.volume, r.volume) > r.volumeTolerance,
                      availability |-> Apart(q.delay, r.delay) > r.delayTolerance,
                      window |-> bar.window # r.window]
       IN  {d \in DOMAIN drifts : drifts[d]}

(* The share of admitted quotes that are stale, in basis points rounded down; the
   saturation of the product, past 429,496 stale quotes, is out of reach here. *)
StaleQuoteRate(q, quotes) ==
  LET stale == {n \in DOMAIN quotes : Stale(q, quotes[n])}
  IN  IF quotes = <<>> THEN 0 ELSE (Cardinality(stale) * 10000) \div Len(quotes)

DegradedReasons(q, bar, quotes) ==
  (IF q.delay > q.maxDelay THEN {"freshness"} ELSE {})
  \cup (IF StaleQuoteRate(q, quotes) > q.staleRestrictBps THEN {"stale_quotes"} ELSE {})
  \cup ParityReasons(bar, q)

NoBar == [source |-> "none"]
RejectReport(reason, rejected) ==
  [status |-> "rejected", reasons |-> {reason}, rejected |-> rejected, bar |-> NoBar]

(* The bar of a request that passed the gates. *)
BuiltReport(q, trades, quotes, rejected) ==
  LET bar == IF trades # <<>> THEN BarOf(q, trades, "trades") ELSE BarOf(q, quotes, "quote_fallback")
      reasons == DegradedReasons(q, bar, quotes)
  IN  [status |-> IF reasons = {} THEN "accepted" ELSE "degraded", reasons |-> reasons,
       rejected |-> rejected, bar |-> bar]

(* build_live_bar *)
BuildLiveBar(q) ==
  LET trades == Admitted(q.updates, "trade")
      quotes == Admitted(q.updates, "quote")
      rejected == {n \in DOMAIN q.updates : Dropped(q.updates[n])}
  IN  FirstClosed(
        <<Gate(q.entitlement # "live_top_of_book", RejectReport("entitlement", {})),
          Gate(~q.tradeable \/ q.state # "tradeable", RejectReport("session", {})),
          Gate(trades = <<>> /\ quotes = <<>>, RejectReport("no_usable_updates", rejected)),
          Gate(trades = <<>> /\ ~q.fallback, RejectReport("fallback_not_approved", rejected))>>,
        BuiltReport(q, trades, quotes, rejected))

----------------------------------------------------------------------------
VARIABLE liveBar   \* the last report, with the request it was built from

LiveBarsInit == liveBar = NotBuilt

RequestBar(q) == liveBar' = [request |-> q, report |-> BuildLiveBar(q)]

LiveBarsNext == \E q \in BarRequests : RequestBar(q)
LiveBarsSpec == LiveBarsInit /\ [][LiveBarsNext]_liveBar

----------------------------------------------------------------------------
(* The updates of a request but those the report names as rejected. *)
KeptUpdates(q, rejected) == Picked(q.updates, DOMAIN q.updates \ rejected)

(* What the builder says it left out has no part in the bar: the updates it kept
   give the same answer without the others.  No quote moves a bar of trades, and
   fresher quotes change no bar and cost no acceptance. *)
RejectedUpdatesMoveNoBar ==
  liveBar # NotBuilt /\ liveBar.report.bar # NoBar =>
    LET q == liveBar.request
        r == liveBar.report
        kept == KeptUpdates(q, r.rejected)
        tradesOnly == Picked(kept, {n \in DOMAIN kept : kept[n].kind = "trade"})
        fresher == BuildLiveBar([q EXCEPT !.updates = [n \in DOMAIN @ |-> [@[n] EXCEPT !.age = 0]]])
    IN  /\ BuildLiveBar([q EXCEPT !.updates = kept]) = [r EXCEPT !.rejected = {}]
        /\ r.bar.source = "trades" => BuildLiveBar([q EXCEPT !.updates = tradesOnly]).bar = r.bar
        /\ fresher.bar = r.bar /\ fresher.reasons \subseteq r.reasons
=============================================================================
