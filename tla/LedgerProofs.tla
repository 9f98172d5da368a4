---------------------------- MODULE LedgerProofs ----------------------------
(***************************************************************************)
(* What is proved of the books, for any scopes, callbacks, amounts and     *)
(* requests: the ledger books each broker callback once; a session close   *)
(* can be recomputed at any later time from the events it traces; no       *)
(* discrepancy vanishes between two closes; and no daily close makes the   *)
(* next session eligible unless the books agree with the broker.           *)
(*                                                                         *)
(* The first is not inductive by itself: what rules out a second booking   *)
(* is that every booked callback has a receipt.  The others rest on one    *)
(* fact: a close is a function of the events it traces, and those are told *)
(* by their numbers, which are their places in a book that only grows.     *)
(***************************************************************************)
EXTENDS LedgerReconciliation, TLAPS

LedgerEvent == {[r EXCEPT !.sequence = n] : r \in EventRequests, n \in Nat}

(* Every booked callback has a receipt. *)
BookedHaveReceipts ==
  \A n \in DOMAIN events :
    events[n].callback # None =>
      events[n].callback \in Callbacks /\ callbackReceipts[events[n].callback] # 0

LedgerInv ==
  /\ events \in Seq(LedgerEvent)
  /\ callbackReceipts \in [Callbacks -> Nat]
  /\ nextSequence \in Nat \ {0}
  /\ BookedHaveReceipts
  /\ CallbackBooksOnce

(* Giving an event its sequence number leaves its callback alone. *)
LEMMA RequestCallback ==
  ASSUME NEW r \in EventRequests, NEW n \in Nat
  PROVE  /\ [r EXCEPT !.sequence = n].callback = r.callback
         /\ r.callback # None => r.callback \in Callbacks
<1>1. r \in EventRequest  BY LedgerAssumption
<1>2. r.callback \in Callbacks \cup {None}
  BY <1>1 DEF EventRequest
<1> QED  BY <1>1, <1>2 DEF EventRequest

(* append_event books a callback with its receipt or not at all. *)
LEMMA AppendKeepsInv ==
  ASSUME LedgerInv, NEW r \in EventRequests, AppendEvent(r)
  PROVE  LedgerInv'
<1> DEFINE e == [r EXCEPT !.sequence = nextSequence]
<1>0. e \in LedgerEvent  BY DEF LedgerEvent, LedgerInv
<1>1. /\ events' = Append(events, e) /\ e \in LedgerEvent
      /\ ~AlreadyBooked(r)
      /\ callbackReceipts' = Receipts(r)
      /\ nextSequence' = nextSequence + 1
  BY <1>0 DEF AppendEvent, Booked
<1>2. e.callback = r.callback /\ (r.callback # None => r.callback \in Callbacks)
  BY RequestCallback DEF LedgerInv
<1> HIDE DEF e
<1>3. /\ events' \in Seq(LedgerEvent)
      /\ DOMAIN events' = 1..(Len(events) + 1) /\ Len(events) \in Nat
      /\ DOMAIN events = 1..Len(events)
      /\ \A n \in DOMAIN events : events'[n] = events[n]
      /\ events'[Len(events) + 1] = e
  BY <1>1 DEF LedgerInv
<1>4. /\ callbackReceipts' \in [Callbacks -> Nat]
      /\ \A c \in Callbacks : callbackReceipts[c] # 0 => callbackReceipts'[c] # 0
      /\ r.callback # None => callbackReceipts'[r.callback] # 0
  BY <1>1, <1>2 DEF Receipts, LedgerInv
<1>5. BookedHaveReceipts'
  <2> SUFFICES ASSUME NEW n \in DOMAIN events', events'[n].callback # None
               PROVE  /\ events'[n].callback \in Callbacks
                      /\ callbackReceipts'[events'[n].callback] # 0
    BY DEF BookedHaveReceipts
  <2>1. CASE n = Len(events) + 1  BY <1>2, <1>3, <1>4, <2>1
  <2>2. CASE n # Len(events) + 1
    <3>1. n \in DOMAIN events  BY <1>3, <2>2
    <3> QED  BY <1>3, <1>4, <3>1 DEF LedgerInv, BookedHaveReceipts
  <2> QED  BY <2>1, <2>2
<1>6. \A n \in DOMAIN events : r.callback # None => events[n].callback # r.callback
  BY <1>1 DEF AlreadyBooked, LedgerInv, BookedHaveReceipts
<1>7. CallbackBooksOnce'
  <2> SUFFICES ASSUME NEW m \in DOMAIN events', NEW n \in DOMAIN events', m # n,
                      events'[m].callback = events'[n].callback
               PROVE  events'[m].callback = None
    BY DEF CallbackBooksOnce
  <2>1. CASE m \in DOMAIN events /\ n \in DOMAIN events
    BY <1>3, <2>1 DEF LedgerInv, CallbackBooksOnce
  <2>2. CASE m \notin DOMAIN events
    <3>1. m = Len(events) + 1 /\ n \in DOMAIN events  BY <1>3, <2>2
    <3> QED  BY <1>2, <1>3, <1>6, <3>1
  <2>3. CASE n \notin DOMAIN events
    <3>1. n = Len(events) + 1 /\ m \in DOMAIN events  BY <1>3, <2>3
    <3> QED  BY <1>2, <1>3, <1>6, <3>1
  <2> QED  BY <2>1, <2>2, <2>3
<1>8. nextSequence' \in Nat \ {0}  BY <1>1 DEF LedgerInv
<1> QED  BY <1>3, <1>4, <1>5, <1>7, <1>8 DEF LedgerInv

(* A callback delivered any number of times, to any scopes, is booked once:
   append_event answers every later delivery from its receipt. *)
THEOREM LedgerBooksOnce == LedgerSpec => []CallbackBooksOnce
<1>1. LedgerInit => LedgerInv
  BY DEF LedgerInit, LedgerInv, BookedHaveReceipts, CallbackBooksOnce
<1>2. LedgerInv /\ [LedgerNext]_ledgerVars => LedgerInv'
  <2> SUFFICES ASSUME LedgerInv, [LedgerNext]_ledgerVars PROVE LedgerInv'
    OBVIOUS
  <2>1. ASSUME UNCHANGED <<events, callbackReceipts, nextSequence>> PROVE LedgerInv'
    BY <2>1 DEF LedgerInv, BookedHaveReceipts, CallbackBooksOnce
  <2>2. ASSUME NEW s \in Scopes, BuildSessionClose(s) PROVE LedgerInv'
    BY <2>1, <2>2 DEF BuildSessionClose
  <2> QED  BY <2>1, <2>2, AppendKeepsInv DEF LedgerNext, ledgerVars
<1>3. LedgerInv => CallbackBooksOnce  BY DEF LedgerInv
<1> QED  BY <1>1, <1>2, <1>3, PTL DEF LedgerSpec

----------------------------------------------------------------------------
(* An event as the book keeps it. *)
BookedEvent ==
  [class : EventClasses, scope : Scopes, callback : Callbacks \cup {None},
   discrepancy : Discrepancies \cup {None}, amounts : [Metrics -> Int],
   figure : Figures \cup {None}, sequence : Nat]

ScopePositions(s) == {n \in DOMAIN events : events[n].scope = s}

(* A session close is a function of the events it traces, events are numbered
   by their place in the book, and the book only grows: so the events traced,
   and with them the figures, stay what they were.  Two closes of one session
   were built from a shorter and a longer book. *)
CloseInv(close) ==
  /\ close \in SessionCloses /\ close.status # "violation"
  /\ close.trace \subseteq ScopePositions(close.scope)
  /\ close = CloseOver(close.scope, Picked(events, close.trace))

BooksInv ==
  /\ events \in Seq(BookedEvent)
  /\ Len(events) <= MaxEvents
  /\ nextSequence = Len(events) + 1
  /\ \A n \in DOMAIN events :
       events[n].sequence = n /\ \E r \in EventRequests : events[n] = [r EXCEPT !.sequence = n]
  /\ callbackReceipts \in [Callbacks -> Nat]
  /\ \A c \in Callbacks :
       callbackReceipts[c] # 0 =>
         callbackReceipts[c] \in DOMAIN events /\ events[callbackReceipts[c]].callback = c
  /\ closes \in Seq(SessionCloses)
  /\ \A n \in DOMAIN closes : CloseInv(closes[n])
  /\ \A m, n \in DOMAIN closes :
       m < n /\ closes[m].scope = closes[n].scope => closes[m].trace \subseteq closes[n].trace

(* The sum of a column over any part of the book is an integer. *)
LEMMA TotalsType ==
  ASSUME NEW evs \in Seq(BookedEvent), NEW classes
  PROVE  Totals(evs, classes) \in [Metrics -> Int]
<1> SUFFICES ASSUME NEW metric \in Metrics PROVE TotalOf(evs, metric, classes) \in Int
  BY DEF Totals
<1> DEFINE w == [n \in DOMAIN evs |-> IF evs[n].class \in classes THEN evs[n].amounts[metric] ELSE 0]
<1>1. Len(evs) \in Nat /\ DOMAIN evs = 1..Len(evs)  OBVIOUS
<1>2. \A n \in DOMAIN evs : evs[n].amounts[metric] \in Int
  <2> SUFFICES ASSUME NEW n \in DOMAIN evs PROVE evs[n].amounts[metric] \in Int  OBVIOUS
  <2>1. evs[n] \in BookedEvent  BY <1>1
  <2>2. evs[n].amounts \in [Metrics -> Int]  BY <2>1 DEF BookedEvent
  <2> QED  BY <2>2
<1>3. w \in [1..Len(evs) -> Int]  BY <1>1, <1>2
<1> HIDE DEF w
<1>4. SumOf(w, Len(evs)) \in Int  BY <1>1, <1>3, SumType
<1> QED  BY <1>4 DEF TotalOf, w

(* Every inhabited set of positions has a last one. *)
LEMMA LastPosition ==
  ASSUME NEW N \in Nat, NEW P \in SUBSET (1..N), P # {}
  PROVE  Max(P) \in P
<1> DEFINE Q == {N - n : n \in P}
<1>1. Q \in SUBSET Nat /\ Q # {}
  <2>1. \A n \in P : N - n \in Nat  OBVIOUS
  <2> QED  BY <2>1
<1>2. PICK k \in Q : \A m \in Q : k <= m  BY <1>1, LeastNatural
<1>3. PICK x \in P : k = N - x  BY <1>2
<1>4. \A y \in P : x >= y
  <2> SUFFICES ASSUME NEW y \in P PROVE x >= y  OBVIOUS
  <2>1. N - x <= N - y  BY <1>2, <1>3
  <2> QED  BY <2>1
<1> QED  BY <1>4 DEF Max

(* The latest figure of a class is one that was booked, or none. *)
LEMMA FigureType ==
  ASSUME NEW evs \in Seq(BookedEvent), NEW class
  PROVE  LatestFigure(evs, class) \in Figures \cup {None}
<1> DEFINE P == {n \in DOMAIN evs : evs[n].class = class}
<1>1. Len(evs) \in Nat /\ DOMAIN evs = 1..Len(evs) /\ P \in SUBSET (1..Len(evs))  OBVIOUS
<1>2. CASE P = {}  BY <1>2 DEF LatestFigure
<1>3. CASE P # {}
  <2>1. Max(P) \in P
    <3> HIDE DEF P
    <3> QED  BY <1>1, <1>3, LastPosition
  <2>2. evs[Max(P)] \in BookedEvent  BY <1>1, <2>1
  <2>3. evs[Max(P)].figure \in Figures \cup {None}  BY <2>2 DEF BookedEvent
  <2> QED  BY <1>3, <2>3 DEF LatestFigure
<1> QED  BY <1>2, <1>3

(* The part of the book at some positions: its events, told by their numbers,
   are those of the positions, in the order of the book. *)
Numbered == \A n \in DOMAIN events : events[n].sequence = n

(* What a close traces is a part of the book, in order, that tells its own
   positions. *)
LEMMA PartOfBook ==
  ASSUME events \in Seq(BookedEvent), Numbered, NEW P \in SUBSET DOMAIN events,
         NEW evs, evs = Picked(events, P)
  PROVE  /\ evs \in Seq(BookedEvent)
         /\ \A k \in DOMAIN evs : evs[k].sequence \in P /\ evs[k] = events[evs[k].sequence]
         /\ \A n \in P : \E k \in DOMAIN evs : evs[k] = events[n]
         /\ {evs[k].sequence : k \in DOMAIN evs} = P
         /\ AppendOnlyValid(evs)
<1> DEFINE V == [e \in BookedEvent |-> e.sequence]
<1>1. evs \in Seq(BookedEvent)  BY PickedType
<1>2. /\ DOMAIN events = 1..Len(events) /\ Len(events) \in Nat
      /\ \A n \in DOMAIN events : events[n] \in BookedEvent
      /\ \A k \in DOMAIN evs : evs[k] \in BookedEvent
  BY <1>1
<1>3. PickedFrom(events, P, evs, Len(events))  BY PickedEntries
<1>4. \A k \in DOMAIN evs : evs[k].sequence \in P /\ evs[k] = events[evs[k].sequence]
  BY <1>2, <1>3 DEF PickedFrom, Numbered
<1>5. \A n \in P : \E k \in DOMAIN evs : evs[k] = events[n]
  BY <1>2, <1>3 DEF PickedFrom
<1>6. {evs[k].sequence : k \in DOMAIN evs} = P
  <2>1. \A n \in P : \E k \in DOMAIN evs : evs[k].sequence = n
    BY <1>5 DEF Numbered
  <2> QED  BY <1>4, <2>1
<1>7. V \in [BookedEvent -> Int]
  <2>1. \A e \in BookedEvent : e.sequence \in Int  BY DEF BookedEvent
  <2> QED  BY <2>1
<1>8. Climbs(events, V)  BY <1>2 DEF Climbs, Numbered
<1>9. Climbs(evs, V)
  <2> HIDE DEF V
  <2> QED  BY <1>7, <1>8, PickedClimbs
<1>10. AppendOnlyValid(evs)  BY <1>2, <1>9 DEF Climbs, AppendOnlyValid
<1> QED  BY <1>1, <1>4, <1>5, <1>6, <1>10

(* The events that a trace names are those at its positions, whatever was
   booked since. *)
LEMMA TracedPart ==
  ASSUME events \in Seq(BookedEvent), Numbered, NEW close, close.trace \subseteq DOMAIN events
  PROVE  Traced(close) = Picked(events, close.trace)
<1> DEFINE P == {n \in DOMAIN events : events[n].sequence \in close.trace}
<1>1. \A n \in DOMAIN events : n \in P <=> n \in close.trace  BY DEF Numbered
<1>2. Picked(events, P) = Picked(events, close.trace)
  <2> HIDE DEF P
  <2> QED  BY <1>1, PickedSame
<1> QED  BY <1>2 DEF Traced

(* What a discrepancy's ledger says does not depend on anything but the events
   themselves. *)
LEMMA UnresolvedType ==
  ASSUME NEW evs \in Seq(BookedEvent)
  PROVE  UnresolvedDiscrepancies(evs) \subseteq Discrepancies
<1>1. \A n \in DOMAIN evs : evs[n].discrepancy \in Discrepancies \cup {None}
  <2> SUFFICES ASSUME NEW n \in DOMAIN evs PROVE evs[n].discrepancy \in Discrepancies \cup {None}  OBVIOUS
  <2>1. evs[n] \in BookedEvent  OBVIOUS
  <2> QED  BY <2>1 DEF BookedEvent
<1> QED  BY <1>1 DEF UnresolvedDiscrepancies

(* build_session_close adds a close that follows from its scope. *)
LEMMA BuildKeepsInv ==
  ASSUME BooksInv, NEW s \in Scopes, BuildSessionClose(s)
  PROVE  BooksInv'
<1> DEFINE P == ScopePositions(s)
<1>0. Numbered /\ P \in SUBSET DOMAIN events /\ UNCHANGED events
  BY DEF BooksInv, Numbered, ScopePositions, BuildSessionClose
<1>1. PICK evs : evs = Picked(events, P)  OBVIOUS
<1>2. /\ evs \in Seq(BookedEvent)
      /\ {evs[k].sequence : k \in DOMAIN evs} = P
      /\ \A k \in DOMAIN evs : evs[k].sequence \in P
      /\ AppendOnlyValid(evs)
  BY <1>0, <1>1, PartOfBook DEF BooksInv
<1>3. PICK c : c = CloseOver(s, evs)  OBVIOUS
<1>4. closes' = Append(closes, c)
  BY <1>1, <1>3 DEF BuildSessionClose, SessionClose, ScopedEvents, ScopePositions
<1>5. /\ c.scope = s /\ c.trace = P /\ c.status # "violation"
      /\ c.status \in {"pass", "review_required", "violation"}
  BY <1>2, <1>3 DEF CloseOver, SessionCloseStatus
<1>6. P \subseteq 1..MaxEvents
  <2>1. DOMAIN events = 1..Len(events) /\ Len(events) \in Nat /\ Len(events) <= MaxEvents
    BY DEF BooksInv
  <2> QED  BY <1>0, <2>1, LedgerAssumption
<1>7. c \in SessionCloses
  <2>1. /\ Totals(evs, BookedClasses) \in [Metrics -> Int]
        /\ Totals(evs, BookedClasses \cup ReconcilingClasses) \in [Metrics -> Int]
        /\ LatestFigure(evs, "broker_eod_position") \in Figures \cup {None}
        /\ LatestFigure(evs, "broker_eod_margin_snapshot") \in Figures \cup {None}
        /\ UnresolvedDiscrepancies(evs) \in SUBSET Discrepancies
    BY <1>2, TotalsType, FigureType, UnresolvedType
  <2>2. {evs[k].sequence : k \in {m \in DOMAIN evs : evs[m].class = "restatement"}} \in SUBSET (1..MaxEvents)
    BY <1>2, <1>6
  <2>3. SessionCloseStatus(evs) \in {"pass", "review_required", "violation"}
    BY DEF SessionCloseStatus
  <2>4. {evs[k].sequence : k \in DOMAIN evs} \in SUBSET (1..MaxEvents)  BY <1>2, <1>6
  <2> HIDE DEF P
  <2> QED  BY <1>3, <2>1, <2>2, <2>3, <2>4 DEF CloseOver, SessionCloses
<1>8. c = CloseOver(c.scope, Picked(events, c.trace))
  BY <1>1, <1>3, <1>5
<1>9. CloseInv(c)
  BY <1>5, <1>7, <1>8 DEF CloseInv
<1>10. /\ closes' \in Seq(SessionCloses) /\ DOMAIN closes' = 1..(Len(closes) + 1)
       /\ DOMAIN closes = 1..Len(closes) /\ Len(closes) \in Nat
       /\ \A n \in DOMAIN closes : closes'[n] = closes[n]
       /\ closes'[Len(closes) + 1] = c
  BY <1>4, <1>7 DEF BooksInv
<1>11. \A n \in DOMAIN closes' : CloseInv(closes'[n])
  <2> SUFFICES ASSUME NEW n \in DOMAIN closes' PROVE CloseInv(closes'[n])  OBVIOUS
  <2>1. CASE n = Len(closes) + 1  BY <1>9, <1>10, <2>1
  <2>2. CASE n \in DOMAIN closes  BY <1>10, <2>2 DEF BooksInv
  <2> QED  BY <1>10, <2>1, <2>2
<1>12. \A n \in DOMAIN closes' : CloseInv(closes[n])'
  BY <1>0, <1>11 DEF CloseInv, ScopePositions
<1>13. \A m, n \in DOMAIN closes' :
         m < n /\ closes'[m].scope = closes'[n].scope => closes'[m].trace \subseteq closes'[n].trace
  <2> SUFFICES ASSUME NEW m \in DOMAIN closes', NEW n \in DOMAIN closes',
                      m < n, closes'[m].scope = closes'[n].scope
               PROVE  closes'[m].trace \subseteq closes'[n].trace
    OBVIOUS
  <2>1. m \in DOMAIN closes  BY <1>10
  <2>2. CASE n \in DOMAIN closes  BY <1>10, <2>1, <2>2 DEF BooksInv
  <2>3. CASE n = Len(closes) + 1
    <3>1. closes[m].scope = s  BY <1>5, <1>10, <2>1, <2>3
    <3>2. closes[m].trace \subseteq ScopePositions(s)  BY <2>1, <3>1 DEF BooksInv, CloseInv
    <3> QED  BY <1>5, <1>10, <2>1, <2>3, <3>2
  <2> QED  BY <1>10, <2>2, <2>3
<1>14. UNCHANGED <<events, callbackReceipts, nextSequence>>  BY DEF BuildSessionClose
<1> QED  BY <1>10, <1>12, <1>13, <1>14 DEF BooksInv

(* What append_event books is the request under the next sequence number. *)
LEMMA RequestEvent ==
  ASSUME NEW r \in EventRequests, NEW n \in Nat, NEW e, e = [r EXCEPT !.sequence = n]
  PROVE  /\ e \in BookedEvent /\ e.sequence = n /\ e.callback = r.callback
         /\ r.callback # None => r.callback \in Callbacks
<1>1. r \in EventRequest  BY LedgerAssumption
<1> QED  BY <1>1 DEF EventRequest, BookedEvent

(* A booking leaves the earlier closes as they were, and they still follow from
   their traces. *)
LEMMA AppendKeepsBooks ==
  ASSUME BooksInv, NEW r \in EventRequests, AppendEvent(r)
  PROVE  BooksInv'
<1>0. Len(events) \in Nat /\ nextSequence = Len(events) + 1 /\ nextSequence \in Nat
  BY DEF BooksInv
<1>1. PICK e : e = [r EXCEPT !.sequence = nextSequence]  OBVIOUS
<1>2. /\ e \in BookedEvent /\ e.sequence = nextSequence /\ e.callback = r.callback
      /\ r.callback # None => r.callback \in Callbacks
  BY <1>0, <1>1, RequestEvent
<1>3. events' = Append(events, e)  BY <1>1 DEF AppendEvent, Booked
<1>4. /\ events' \in Seq(BookedEvent)
      /\ DOMAIN events' = 1..(Len(events) + 1) /\ DOMAIN events = 1..Len(events)
      /\ Len(events') = Len(events) + 1
      /\ \A n \in DOMAIN events : events'[n] = events[n]
      /\ events'[Len(events) + 1] = e
  BY <1>2, <1>3 DEF BooksInv
<1>5. \A n \in DOMAIN events' :
        events'[n].sequence = n /\ \E q \in EventRequests : events'[n] = [q EXCEPT !.sequence = n]
  <2> SUFFICES ASSUME NEW n \in DOMAIN events'
               PROVE  events'[n].sequence = n /\ \E q \in EventRequests : events'[n] = [q EXCEPT !.sequence = n]
    OBVIOUS
  <2>1. CASE n = Len(events) + 1  BY <1>0, <1>1, <1>2, <1>4, <2>1
  <2>2. CASE n \in DOMAIN events  BY <1>4, <2>2 DEF BooksInv
  <2> QED  BY <1>4, <2>1, <2>2
<1>6. /\ Len(events') <= MaxEvents /\ nextSequence' = Len(events') + 1 /\ UNCHANGED closes
  <2>1. Len(events) < MaxEvents /\ nextSequence' = nextSequence + 1 /\ UNCHANGED closes  BY DEF AppendEvent
  <2> QED  BY <1>0, <1>4, <2>1, LedgerAssumption
<1>7. callbackReceipts' \in [Callbacks -> Nat]
  BY <1>0, <1>2 DEF AppendEvent, Receipts, BooksInv
<1>8. ASSUME NEW c \in Callbacks, callbackReceipts'[c] # 0
      PROVE  callbackReceipts'[c] \in DOMAIN events' /\ events'[callbackReceipts'[c]].callback = c
  <2>1. CASE c = r.callback
    <3>1. callbackReceipts'[c] = nextSequence
      BY <1>2, <2>1, LedgerAssumption DEF AppendEvent, Receipts, BooksInv
    <3> QED  BY <1>0, <1>2, <1>4, <2>1, <3>1
  <2>2. CASE c # r.callback
    <3>1. callbackReceipts'[c] = callbackReceipts[c]
      BY <2>2 DEF AppendEvent, Receipts, BooksInv
    <3>2. callbackReceipts[c] \in DOMAIN events /\ events[callbackReceipts[c]].callback = c
      BY <1>8, <3>1 DEF BooksInv
    <3> QED  BY <1>4, <3>1, <3>2
  <2> QED  BY <2>1, <2>2
<1>9. ASSUME NEW n \in DOMAIN closes PROVE CloseInv(closes[n])'
  <2>1. PICK close : close = closes[n]  OBVIOUS
  <2>2. /\ close \in SessionCloses /\ close.status # "violation"
        /\ close.trace \subseteq ScopePositions(close.scope)
        /\ close = CloseOver(close.scope, Picked(events, close.trace))
    BY <2>1 DEF BooksInv, CloseInv
  <2>3. Len(events) + 1 \notin close.trace
    BY <1>0, <1>4, <2>2 DEF ScopePositions
  <2>4. Picked(events', close.trace) = Picked(events, close.trace)
    BY <1>2, <1>3, <2>3, PickedAppend DEF BooksInv
  <2>5. close.trace \subseteq ScopePositions(close.scope)'
    BY <1>0, <1>4, <2>2 DEF ScopePositions
  <2>6. close = CloseOver(close.scope, Picked(events', close.trace))  BY <2>2, <2>4
  <2> QED  BY <1>6, <2>1, <2>2, <2>5, <2>6 DEF CloseInv
<1> QED
  BY <1>4, <1>5, <1>6, <1>7, <1>8, <1>9 DEF BooksInv

(* Only closes are added, at the end. *)
ClosesGrow == \A n \in DOMAIN closes : n \in DOMAIN closes' /\ closes'[n] = closes[n]

(* Every step of the ledger keeps the books, and the closes only grow. *)
LEMMA LedgerStepBooks ==
  ASSUME BooksInv, [LedgerNext]_ledgerVars
  PROVE  BooksInv' /\ ClosesGrow
<1>1. CASE UNCHANGED ledgerVars
  BY <1>1 DEF ledgerVars, BooksInv, CloseInv, ScopePositions, ClosesGrow
<1>2. ASSUME NEW r \in EventRequests, AppendEvent(r) PROVE BooksInv' /\ ClosesGrow
  BY <1>2, AppendKeepsBooks DEF AppendEvent, ClosesGrow
<1>3. ASSUME NEW s \in Scopes, BuildSessionClose(s) PROVE BooksInv' /\ ClosesGrow
  <2>1. PICK c : c = SessionClose(s)  OBVIOUS
  <2>2. closes' = Append(closes, c)  BY <1>3, <2>1 DEF BuildSessionClose
  <2>3. ClosesGrow  BY <2>2 DEF BooksInv, ClosesGrow
  <2> QED  BY <1>3, <2>3, BuildKeepsInv
<1> QED  BY <1>1, <1>2, <1>3 DEF LedgerNext

(* An empty ledger is in order. *)
LEMMA InitBooks == LedgerInit => BooksInv
<1> SUFFICES ASSUME LedgerInit PROVE BooksInv  OBVIOUS
<1>1. events = <<>> /\ closes = <<>> /\ nextSequence = 1 /\ callbackReceipts = [c \in Callbacks |-> 0]
  BY DEF LedgerInit
<1>2. MaxEvents \in Nat  BY LedgerAssumption
<1> QED  BY <1>1, <1>2 DEF BooksInv

(* What a close gives, as recomputed from the events it traces. *)
LEMMA CloseFigures ==
  ASSUME BooksInv, NEW n \in DOMAIN closes, NEW evs, evs = Traced(closes[n])
  PROVE  /\ evs \in Seq(BookedEvent)
         /\ closes[n].trace \subseteq ScopePositions(closes[n].scope)
         /\ closes[n].trace \subseteq DOMAIN events
         /\ evs = Picked(events, closes[n].trace)
         /\ closes[n] = CloseOver(closes[n].scope, evs)
         /\ AppendOnlyValid(evs)
         /\ \A k \in DOMAIN evs :
              evs[k].sequence \in closes[n].trace /\ evs[k] = events[evs[k].sequence]
         /\ \A m \in closes[n].trace : \E k \in DOMAIN evs : evs[k] = events[m]
         /\ \A k \in DOMAIN evs : evs[k].scope = closes[n].scope
<1>1. PICK close : close = closes[n]  OBVIOUS
<1>2. /\ close.trace \subseteq ScopePositions(close.scope)
      /\ close = CloseOver(close.scope, Picked(events, close.trace))
      /\ Numbered /\ events \in Seq(BookedEvent)
  BY <1>1 DEF BooksInv, CloseInv, Numbered
<1>3. close.trace \subseteq DOMAIN events  BY <1>2 DEF ScopePositions
<1>4. evs = Picked(events, close.trace)  BY <1>1, <1>2, <1>3, TracedPart
<1>5. /\ evs \in Seq(BookedEvent) /\ AppendOnlyValid(evs)
      /\ \A k \in DOMAIN evs : evs[k].sequence \in close.trace /\ evs[k] = events[evs[k].sequence]
      /\ \A m \in close.trace : \E k \in DOMAIN evs : evs[k] = events[m]
  BY <1>2, <1>3, <1>4, PartOfBook
<1>6. \A k \in DOMAIN evs : evs[k].scope = close.scope
  <2>1. \A m \in close.trace : events[m].scope = close.scope  BY <1>2 DEF ScopePositions
  <2> QED  BY <1>5, <2>1
<1>7. close = CloseOver(close.scope, evs)  BY <1>2, <1>4
<1> QED  BY <1>1, <1>2, <1>3, <1>4, <1>5, <1>6, <1>7

(* Books in order have closes that can be recomputed from their traces. *)
LEMMA BooksReproducible == BooksInv => ClosesAreReproducible
<1> SUFFICES ASSUME BooksInv, NEW n \in DOMAIN closes
             PROVE  LET close == closes[n]
                        traced == Traced(close)
                    IN  /\ \A k \in DOMAIN traced : traced[k].scope = close.scope
                        /\ close.booked = Totals(traced, BookedClasses)
                        /\ close.reconciled = Totals(traced, BookedClasses \cup ReconcilingClasses)
                        /\ close.unresolved = UnresolvedDiscrepancies(traced)
                        /\ close.margin = LatestFigure(traced, "broker_eod_margin_snapshot")
  BY DEF ClosesAreReproducible
<1>1. PICK evs : evs = Traced(closes[n])  OBVIOUS
<1>2. /\ closes[n] = CloseOver(closes[n].scope, evs)
      /\ \A k \in DOMAIN evs : evs[k].scope = closes[n].scope
  BY <1>1, CloseFigures
<1>3. PICK close : close = closes[n]  OBVIOUS
<1>4. close = CloseOver(close.scope, evs)  BY <1>2, <1>3
<1>5. /\ close.booked = Totals(evs, BookedClasses)
      /\ close.reconciled = Totals(evs, BookedClasses \cup ReconcilingClasses)
      /\ close.unresolved = UnresolvedDiscrepancies(evs)
      /\ close.margin = LatestFigure(evs, "broker_eod_margin_snapshot")
  <2>1. PICK sc : sc = close.scope  OBVIOUS
  <2>2. close = CloseOver(sc, evs)  BY <1>4, <2>1
  <2> QED  BY <2>2 DEF CloseOver
<1> QED  BY <1>1, <1>2, <1>3, <1>5

(* The Python auditor, whose sums run over the traced events in their own
   order, agrees with such closes. *)
LEMMA BooksAudited == BooksInv => AuditsAgreeWithCloses
<1> SUFFICES ASSUME BooksInv, NEW n \in DOMAIN closes
             PROVE  LET close == closes[n]
                        audit == EvaluateAccountingLedgerClose(Traced(close), close.scope)
                    IN  /\ audit.booked = close.booked /\ audit.reconciled = close.reconciled
                        /\ audit.unresolved = close.unresolved /\ audit.restatements = close.restatements
                        /\ audit.snapshot.position = close.position /\ audit.snapshot.margin = close.margin
                        /\ audit.status = "violation" <=> close.status = "violation"
                        /\ audit.status = "pass" =>
                             close.status = "pass" /\ close.position \in {None, close.reconciled.position}
  BY DEF AuditsAgreeWithCloses
<1>1. PICK evs : evs = Traced(closes[n])  OBVIOUS
<1>2. PICK sc : sc = closes[n].scope  OBVIOUS
<1>3. PICK close : close = closes[n]  OBVIOUS
<1>4. /\ close = CloseOver(sc, evs) /\ close.status # "violation"
      /\ \A k \in DOMAIN evs : evs[k].scope = sc
      /\ AppendOnlyValid(evs) /\ evs \in Seq(BookedEvent)
  BY <1>1, <1>2, <1>3, CloseFigures DEF BooksInv, CloseInv
<1>5. PICK audit : audit = EvaluateAccountingLedgerClose(evs, sc)  OBVIOUS
<1>6. AppendOnlyReason(evs, sc) = "LEDGER_APPEND_ONLY_VALID"
  <2>1. Len(evs) \in Nat /\ DOMAIN evs = 1..Len(evs) /\ \A k \in DOMAIN evs : evs[k] \in BookedEvent
    BY <1>4
  <2>2. ASSUME NEW k \in 2..Len(evs) PROVE ~(evs[k].sequence <= evs[k - 1].sequence)
    <3>1. k \in DOMAIN evs /\ k - 1 \in DOMAIN evs /\ k - 1 < k  BY <2>1, <2>2
    <3>2. evs[k - 1].sequence < evs[k].sequence  BY <1>4, <3>1 DEF AppendOnlyValid
    <3>3. evs[k].sequence \in Nat /\ evs[k - 1].sequence \in Nat  BY <2>1, <3>1 DEF BookedEvent
    <3> QED  BY <3>2, <3>3
  <2> QED  BY <1>4, <2>2 DEF AppendOnlyReason
<1>7. /\ audit.booked = Totals(evs, BookedClasses)
      /\ audit.reconciled = Totals(evs, BookedClasses \cup ReconcilingClasses)
  BY <1>5 DEF EvaluateAccountingLedgerClose, AuditTotals, Totals
<1>8. UnresolvedIds(evs) = UnresolvedDiscrepancies(evs)
  BY DEF UnresolvedIds, UnresolvedDiscrepancies
<1>9. /\ BrokerAuthoritativeSnapshot(evs).position = LatestFigure(evs, "broker_eod_position")
      /\ BrokerAuthoritativeSnapshot(evs).margin = LatestFigure(evs, "broker_eod_margin_snapshot")
  BY DEF BrokerAuthoritativeSnapshot, LatestFigure
<1>10. /\ audit.snapshot = BrokerAuthoritativeSnapshot(evs) /\ audit.unresolved = UnresolvedIds(evs)
       /\ audit.restatements = {evs[k].sequence : k \in {m \in DOMAIN evs : evs[m].class = "restatement"}}
       /\ audit.status = AuditStatus(evs, sc)
  BY <1>5 DEF EvaluateAccountingLedgerClose
<1>11. /\ close.booked = Totals(evs, BookedClasses)
       /\ close.reconciled = Totals(evs, BookedClasses \cup ReconcilingClasses)
       /\ close.unresolved = UnresolvedDiscrepancies(evs)
       /\ close.position = LatestFigure(evs, "broker_eod_position")
       /\ close.margin = LatestFigure(evs, "broker_eod_margin_snapshot")
       /\ close.restatements = {evs[k].sequence : k \in {m \in DOMAIN evs : evs[m].class = "restatement"}}
       /\ close.status = SessionCloseStatus(evs)
  BY <1>4 DEF CloseOver
<1>12. audit.status # "violation"
  BY <1>6, <1>10 DEF AuditStatus
<1>13. ASSUME audit.status = "pass"
       PROVE  close.status = "pass" /\ close.position \in {None, close.reconciled.position}
  <2>1. UnresolvedIds(evs) = {} /\ ~(PositionDifference(evs).broker # 0)
    BY <1>6, <1>10, <1>13 DEF AuditStatus
  <2>2. close.status = "pass"  BY <1>4, <1>8, <1>11, <2>1 DEF SessionCloseStatus
  <2>3. CASE close.position = None  BY <2>2, <2>3
  <2>4. CASE close.position # None
    <3>1. BrokerAuthoritativeSnapshot(evs).position # None  BY <1>9, <1>11, <2>4
    <3>2. AuditTotals(evs, TRUE).position - BrokerAuthoritativeSnapshot(evs).position = 0
      BY <2>1, <3>1 DEF PositionDifference
    <3>3. AuditTotals(evs, TRUE) = close.reconciled  BY <1>7, <1>11, <1>5 DEF EvaluateAccountingLedgerClose
    <3>4. close.reconciled \in [Metrics -> Int]  BY <1>4, <1>11, TotalsType
    <3>5. close.reconciled.position \in Int  BY <3>4, ReconciliationAssumption
    <3>6. close.position \in Int  BY <1>4, <1>11, <2>4, FigureType, LedgerAssumption
    <3>7. PICK a \in Int, b \in Int : a = close.reconciled.position /\ b = close.position
      BY <3>5, <3>6
    <3>8. AuditTotals(evs, TRUE).position = a /\ BrokerAuthoritativeSnapshot(evs).position = b
      BY <1>9, <1>11, <3>3, <3>7
    <3>9. a - b = 0  BY <3>2, <3>8
    <3>10. a = b  BY <3>9
    <3> QED  BY <2>2, <3>7, <3>10
  <2> QED  BY <2>3, <2>4
<1> QED
  <2>1. EvaluateAccountingLedgerClose(Traced(closes[n]), closes[n].scope) = audit
    BY <1>1, <1>2, <1>5
  <2>2. closes[n] = close  BY <1>3
  <2> QED  BY <1>4, <1>7, <1>8, <1>9, <1>10, <1>11, <1>12, <1>13, <2>1, <2>2

(* Books in order are typed. *)
LEMMA BooksTyped == BooksInv => LedgerTypeOK
<1> SUFFICES ASSUME BooksInv PROVE LedgerTypeOK  OBVIOUS
<1>1. \A c \in Callbacks : callbackReceipts[c] # 0 => events[callbackReceipts[c]].callback = c
  BY DEF BooksInv
<1>2. \A n \in DOMAIN events : \E r \in EventRequests : events[n] = [r EXCEPT !.sequence = n]
  BY DEF BooksInv
<1>3. \A n \in DOMAIN closes : closes[n] \in SessionCloses /\ closes[n].status # "violation"
  BY DEF BooksInv, CloseInv
<1>4. nextSequence = Len(events) + 1  BY DEF BooksInv
<1> QED  BY <1>1, <1>2, <1>3, <1>4 DEF LedgerTypeOK

(* A discrepancy an earlier close reports was opened by an event the later one
   traces too; if that one does not report it, a reconciling event it traces
   names it, and the earlier close does not trace that event. *)
LEMMA BooksKeepDiscrepancies == BooksInv => DiscrepanciesNeverVanish
<1> SUFFICES ASSUME BooksInv, NEW m \in DOMAIN closes, NEW n \in DOMAIN closes, m < n,
                    closes[m].scope = closes[n].scope
             PROVE  /\ closes[m].trace \subseteq closes[n].trace
                    /\ \A d \in closes[m].unresolved \ closes[n].unresolved :
                         \E k \in closes[n].trace \ closes[m].trace :
                           events[k].discrepancy = d /\ events[k].class \in ReconcilingClasses
  BY DEF DiscrepanciesNeverVanish
<1>1. closes[m].trace \subseteq closes[n].trace  BY DEF BooksInv
<1>2. PICK old, new : old = closes[m] /\ new = closes[n]  OBVIOUS
<1>3. PICK oldEvs, newEvs : oldEvs = Traced(closes[m]) /\ newEvs = Traced(closes[n])  OBVIOUS
<1>4. /\ old = CloseOver(old.scope, oldEvs)
      /\ \A k \in DOMAIN oldEvs : oldEvs[k].sequence \in old.trace /\ oldEvs[k] = events[oldEvs[k].sequence]
      /\ \A p \in old.trace : \E k \in DOMAIN oldEvs : oldEvs[k] = events[p]
  BY <1>2, <1>3, CloseFigures
<1>5. /\ new = CloseOver(new.scope, newEvs)
      /\ \A k \in DOMAIN newEvs : newEvs[k].sequence \in new.trace /\ newEvs[k] = events[newEvs[k].sequence]
      /\ \A p \in new.trace : \E k \in DOMAIN newEvs : newEvs[k] = events[p]
  BY <1>2, <1>3, CloseFigures
<1>6. old.unresolved = UnresolvedDiscrepancies(oldEvs) /\ new.unresolved = UnresolvedDiscrepancies(newEvs)
  <2>1. PICK s, t : s = old.scope /\ t = new.scope  OBVIOUS
  <2>2. old = CloseOver(s, oldEvs) /\ new = CloseOver(t, newEvs)  BY <1>4, <1>5, <2>1
  <2> QED  BY <2>2 DEF CloseOver
<1>7. ASSUME NEW d \in old.unresolved \ new.unresolved
      PROVE  \E k \in new.trace \ old.trace :
               events[k].discrepancy = d /\ events[k].class \in ReconcilingClasses
  <2>1. /\ d # None
        /\ \E k \in DOMAIN oldEvs : oldEvs[k].class = "unresolved_discrepancy" /\ oldEvs[k].discrepancy = d
        /\ \A k \in DOMAIN oldEvs : oldEvs[k].class \in ReconcilingClasses => oldEvs[k].discrepancy # d
    BY <1>6, <1>7 DEF UnresolvedDiscrepancies
  <2>2. \E k \in DOMAIN newEvs : newEvs[k].class = "unresolved_discrepancy" /\ newEvs[k].discrepancy = d
    <3>1. PICK k \in DOMAIN oldEvs :
             oldEvs[k].class = "unresolved_discrepancy" /\ oldEvs[k].discrepancy = d
      BY <2>1
    <3>2. oldEvs[k].sequence \in new.trace  BY <1>1, <1>2, <1>4
    <3>3. PICK j \in DOMAIN newEvs : newEvs[j] = events[oldEvs[k].sequence]  BY <1>5, <3>2
    <3> QED  BY <1>4, <3>1, <3>3
  <2>3. PICK k \in DOMAIN newEvs : newEvs[k].class \in ReconcilingClasses /\ newEvs[k].discrepancy = d
    BY <1>6, <1>7, <2>1, <2>2 DEF UnresolvedDiscrepancies
  <2>4. PICK p : p = newEvs[k].sequence  OBVIOUS
  <2>5. /\ p \in new.trace
        /\ events[p].class \in ReconcilingClasses /\ events[p].discrepancy = d
    BY <1>5, <2>3, <2>4
  <2>6. p \notin old.trace
    <3> SUFFICES ASSUME p \in old.trace PROVE FALSE  OBVIOUS
    <3>1. PICK j \in DOMAIN oldEvs : oldEvs[j] = events[p]  BY <1>4
    <3> QED  BY <2>1, <2>5, <3>1
  <2> QED  BY <2>5, <2>6
<1> QED  BY <1>1, <1>2, <1>7

----------------------------------------------------------------------------
DailyDiscrepancyNames ==
  Metrics \cup Discrepancies \cup {"fill_execution_ids", "unrealized_pnl", "margin"}

DailyClose ==
  [close : Nat, scope : Scopes, statement : Statements, discrepancies : SUBSET DailyDiscrepancyNames,
   status : {"pass", "review_required", "violation"}, waived : BOOLEAN,
   eligibility : {"eligible", "review_required", "blocked"}]

(* A daily close is of a session close that is kept; an eligible one found its
   figures to be the statement's. *)
DailyCloseInv(daily) ==
  /\ daily \in DailyClose
  /\ daily.close \in DOMAIN closes
  /\ daily.statement.scope = closes[daily.close].scope
  /\ daily.eligibility = "eligible" =>
       /\ closes[daily.close].reconciled = daily.statement.totals
       /\ closes[daily.close].margin = daily.statement.margin
       /\ closes[daily.close].unresolved = {}

ReconciliationInv ==
  /\ BooksInv
  /\ dailyCloses \in Seq(DailyClose)
  /\ \A n \in DOMAIN dailyCloses : DailyCloseInv(dailyCloses[n])

(* What the ledger books leaves the daily closes and what they rest on alone. *)
LEMMA LedgerStepKeepsDaily ==
  ASSUME ReconciliationInv, [LedgerNext]_ledgerVars, UNCHANGED dailyCloses
  PROVE  ReconciliationInv'
<1>1. BooksInv' /\ ClosesGrow  BY LedgerStepBooks DEF ReconciliationInv
<1>2. ASSUME NEW n \in DOMAIN dailyCloses PROVE DailyCloseInv(dailyCloses[n])'
  <2>1. PICK daily : daily = dailyCloses[n]  OBVIOUS
  <2>2. DailyCloseInv(daily)  BY <2>1 DEF ReconciliationInv
  <2>3. DailyCloseInv(daily)'  BY <1>1, <2>2 DEF DailyCloseInv, ClosesGrow
  <2> QED  BY <2>1, <2>3 DEF DailyCloseInv
<1> QED  BY <1>1, <1>2 DEF ReconciliationInv

(* reconcile_daily_close grants eligibility only when nothing differs. *)
LEMMA ReconcileKeepsInv ==
  ASSUME ReconciliationInv, NEW n \in DOMAIN closes, NEW statement \in Statements,
         NEW unrealizedAgrees \in BOOLEAN, NEW waived \in BOOLEAN,
         ReconcileDailyClose(n, statement, unrealizedAgrees, waived)
  PROVE  ReconciliationInv'
<1>1. PICK close : close = closes[n]  OBVIOUS
<1>2. PICK found : found = DailyDiscrepancies(close, statement, unrealizedAgrees)  OBVIOUS
<1>3. PICK verdict : verdict = DailyStatus(close, found)  OBVIOUS
<1>4. PICK daily : daily =
        [close |-> n, scope |-> close.scope, statement |-> statement, discrepancies |-> found,
         status |-> verdict, waived |-> waived, eligibility |-> Eligibility(verdict, waived)]
  OBVIOUS
<1>5. /\ dailyCloses' = Append(dailyCloses, daily) /\ UNCHANGED ledgerVars
      /\ statement.scope = close.scope
  BY <1>1, <1>2, <1>3, <1>4 DEF ReconcileDailyClose
<1>6. /\ close \in SessionCloses /\ close.status # "violation"
      /\ DOMAIN closes = 1..Len(closes) /\ Len(closes) \in Nat
  BY <1>1 DEF ReconciliationInv, BooksInv, CloseInv
<1>7. found \subseteq DailyDiscrepancyNames
  <2>1. close.unresolved \subseteq Discrepancies  BY <1>6 DEF SessionCloses
  <2> QED  BY <1>2, <2>1 DEF DailyDiscrepancies, DailyDiscrepancyNames
<1>8. /\ verdict \in {"pass", "review_required", "violation"}
      /\ verdict = "pass" => found = {}
  BY <1>3 DEF DailyStatus
<1>9. /\ Eligibility(verdict, waived) \in {"eligible", "review_required", "blocked"}
      /\ Eligibility(verdict, waived) = "eligible" => verdict = "pass"
  BY DEF Eligibility
<1>10. daily \in DailyClose
  <2>1. n \in Nat /\ close.scope \in Scopes  BY <1>6 DEF SessionCloses
  <2> QED  BY <1>4, <1>7, <1>8, <1>9, <2>1 DEF DailyClose
<1>11. ASSUME found = {}
       PROVE  close.reconciled = statement.totals /\ close.margin = statement.margin /\ close.unresolved = {}
  <2>1. /\ \A metric \in Metrics : close.reconciled[metric] = statement.totals[metric]
        /\ close.margin = statement.margin /\ close.unresolved = {}
    BY <1>2, <1>11 DEF DailyDiscrepancies
  <2>2. close.reconciled \in [Metrics -> Int] /\ statement.totals \in [Metrics -> Int]
    BY <1>6, ReconciliationAssumption DEF SessionCloses, Statement
  <2> QED  BY <2>1, <2>2
<1>12. DailyCloseInv(daily)
  BY <1>1, <1>4, <1>5, <1>8, <1>9, <1>10, <1>11 DEF DailyCloseInv
<1>13. /\ dailyCloses' \in Seq(DailyClose) /\ DOMAIN dailyCloses' = 1..(Len(dailyCloses) + 1)
       /\ DOMAIN dailyCloses = 1..Len(dailyCloses)
       /\ \A k \in DOMAIN dailyCloses : dailyCloses'[k] = dailyCloses[k]
       /\ dailyCloses'[Len(dailyCloses) + 1] = daily
  BY <1>5, <1>10 DEF ReconciliationInv
<1>14. ASSUME NEW k \in DOMAIN dailyCloses' PROVE DailyCloseInv(dailyCloses'[k])
  <2>1. CASE k = Len(dailyCloses) + 1  BY <1>12, <1>13, <2>1
  <2>2. CASE k \in DOMAIN dailyCloses  BY <1>13, <2>2 DEF ReconciliationInv
  <2> QED  BY <1>13, <2>1, <2>2
<1>15. UNCHANGED closes  BY <1>5 DEF ledgerVars
<1>16. \A k \in DOMAIN dailyCloses' : DailyCloseInv(dailyCloses[k])'
  BY <1>14, <1>15 DEF DailyCloseInv
<1>17. BooksInv'
  BY <1>5, LedgerStepBooks DEF ReconciliationInv
<1> QED  BY <1>13, <1>16, <1>17 DEF ReconciliationInv

(* Every step of the ledger and its daily close keeps both in order. *)
LEMMA ReconciliationStep ==
  ASSUME ReconciliationInv, [ReconciliationNext]_reconciliationVars
  PROVE  ReconciliationInv'
<1>1. CASE UNCHANGED reconciliationVars
  BY <1>1, LedgerStepKeepsDaily DEF reconciliationVars
<1>2. CASE LedgerNext /\ UNCHANGED dailyCloses  BY <1>2, LedgerStepKeepsDaily
<1>3. CASE \E n \in DOMAIN closes, statement \in Statements, unrealizedAgrees, waived \in BOOLEAN :
             ReconcileDailyClose(n, statement, unrealizedAgrees, waived)
  BY <1>3, ReconcileKeepsInv
<1> QED  BY <1>1, <1>2, <1>3 DEF ReconciliationNext

(* Before the first booking both are in order. *)
LEMMA ReconciliationStart == ReconciliationInit => ReconciliationInv
  BY InitBooks DEF ReconciliationInit, ReconciliationInv

(* Daily closes are typed. *)
LEMMA DailyTyped == ReconciliationInv => ReconciliationTypeOK
<1> SUFFICES ASSUME ReconciliationInv, NEW n \in DOMAIN dailyCloses
             PROVE  /\ dailyCloses[n].close \in DOMAIN closes
                    /\ dailyCloses[n].eligibility \in {"eligible", "review_required", "blocked"}
                    /\ dailyCloses[n].discrepancies \subseteq
                         Metrics \cup Discrepancies \cup {"fill_execution_ids", "unrealized_pnl", "margin"}
  BY DEF ReconciliationTypeOK
<1>1. PICK daily : daily = dailyCloses[n]  OBVIOUS
<1>2. daily \in DailyClose /\ daily.close \in DOMAIN closes
  BY <1>1 DEF ReconciliationInv, DailyCloseInv
<1> QED  BY <1>1, <1>2 DEF DailyClose, DailyDiscrepancyNames

(* An eligible daily close adds up to its statement. *)
LEMMA DailyReconciled == ReconciliationInv => EligibleIsReconciled
<1> SUFFICES ASSUME ReconciliationInv, NEW n \in DOMAIN dailyCloses,
                    dailyCloses[n].eligibility = "eligible"
             PROVE  LET close == closes[dailyCloses[n].close]
                        traced == Traced(close)
                    IN  /\ Totals(traced, BookedClasses \cup ReconcilingClasses) = dailyCloses[n].statement.totals
                        /\ LatestFigure(traced, "broker_eod_margin_snapshot") = dailyCloses[n].statement.margin
                        /\ UnresolvedDiscrepancies(traced) = {}
                        /\ dailyCloses[n].statement.scope = close.scope
  BY DEF EligibleIsReconciled
<1>1. PICK daily : daily = dailyCloses[n]  OBVIOUS
<1>2. /\ daily.close \in DOMAIN closes
      /\ daily.statement.scope = closes[daily.close].scope
      /\ closes[daily.close].reconciled = daily.statement.totals
      /\ closes[daily.close].margin = daily.statement.margin
      /\ closes[daily.close].unresolved = {}
  BY <1>1 DEF ReconciliationInv, DailyCloseInv
<1>3. PICK traced : traced = Traced(closes[daily.close])  OBVIOUS
<1>4. /\ closes[daily.close].reconciled = Totals(traced, BookedClasses \cup ReconcilingClasses)
      /\ closes[daily.close].unresolved = UnresolvedDiscrepancies(traced)
      /\ closes[daily.close].margin = LatestFigure(traced, "broker_eod_margin_snapshot")
  BY <1>2, <1>3, BooksReproducible DEF ReconciliationInv, ClosesAreReproducible
<1> QED  BY <1>1, <1>2, <1>3, <1>4

(* What the ledger and the reconciliation engine keep is well formed, and every
   session close can be recomputed at any later time from the events it traces,
   to the same figures, by the runtime's rules and by those of the audit. *)
THEOREM ReconciliationBooks == ReconciliationSpec => []BooksAreSound
<1>1. ReconciliationInv => BooksAreSound
  BY BooksTyped, DailyTyped, BooksReproducible, BooksAudited
     DEF BooksAreSound, BooksTypeOK, ReconciliationInv
<1> QED  BY <1>1, ReconciliationStart, ReconciliationStep, PTL DEF ReconciliationSpec

(* Of two closes of a session the later traces all the earlier does, and drops
   a discrepancy only for a reconciling event booked in between that names it. *)
THEOREM ReconciliationKeepsDiscrepancies == ReconciliationSpec => []DiscrepanciesNeverVanish
<1>1. ReconciliationInv => DiscrepanciesNeverVanish
  BY BooksKeepDiscrepancies DEF ReconciliationInv
<1> QED  BY <1>1, ReconciliationStart, ReconciliationStep, PTL DEF ReconciliationSpec

(* No daily close makes the next session eligible, waived or not, unless the
   events its session close traces add up to the statement. *)
THEOREM ReconciliationEligibility == ReconciliationSpec => []EligibleIsReconciled
<1> QED  BY DailyReconciled, ReconciliationStart, ReconciliationStep, PTL DEF ReconciliationSpec

(* What the finding about stale session closes leaves: an eligible daily close
   overlooks nothing that was open when its session close was built.  Whatever
   is unresolved in its session at any later time was opened by an event that
   the session close does not trace. *)
OverlooksOnlyNews ==
  \A n \in DOMAIN dailyCloses : dailyCloses[n].eligibility = "eligible" =>
    LET close == closes[dailyCloses[n].close]
    IN  \A d \in UnresolvedDiscrepancies(ScopedEvents(close.scope)) :
          \E k \in DOMAIN events \ close.trace :
            /\ events[k].scope = close.scope
            /\ events[k].class = "unresolved_discrepancy" /\ events[k].discrepancy = d

(* An event of the session that the close traces is among those it was built
   from, so a discrepancy it opens was open then or was settled, and is so now. *)
LEMMA DailyOverlooks == ReconciliationInv => OverlooksOnlyNews
<1> SUFFICES ASSUME ReconciliationInv, NEW n \in DOMAIN dailyCloses,
                    dailyCloses[n].eligibility = "eligible",
                    NEW close, close = closes[dailyCloses[n].close],
                    NEW d \in UnresolvedDiscrepancies(ScopedEvents(close.scope))
             PROVE  \E k \in DOMAIN events \ close.trace :
                      /\ events[k].scope = close.scope
                      /\ events[k].class = "unresolved_discrepancy" /\ events[k].discrepancy = d
  BY DEF OverlooksOnlyNews
<1>1. PICK daily : daily = dailyCloses[n]  OBVIOUS
<1>2. daily.close \in DOMAIN closes /\ closes[daily.close].unresolved = {}
  BY <1>1 DEF ReconciliationInv, DailyCloseInv
<1>3. PICK traced : traced = Traced(closes[daily.close])  OBVIOUS
<1>4. /\ close = CloseOver(close.scope, traced)
      /\ close.trace \subseteq ScopePositions(close.scope)
      /\ \A k \in DOMAIN traced : traced[k].sequence \in close.trace /\ traced[k] = events[traced[k].sequence]
      /\ \A m \in close.trace : \E k \in DOMAIN traced : traced[k] = events[m]
  <2>1. PICK i : i = daily.close  OBVIOUS
  <2>2. BooksInv /\ i \in DOMAIN closes /\ close = closes[i] /\ traced = Traced(closes[i])
    BY <1>1, <1>2, <1>3, <2>1 DEF ReconciliationInv
  <2>3. /\ closes[i] = CloseOver(closes[i].scope, traced)
        /\ closes[i].trace \subseteq ScopePositions(closes[i].scope)
        /\ \A k \in DOMAIN traced :
             traced[k].sequence \in closes[i].trace /\ traced[k] = events[traced[k].sequence]
        /\ \A m \in closes[i].trace : \E k \in DOMAIN traced : traced[k] = events[m]
    BY ONLY <2>2, CloseFigures
  <2> QED  BY <2>2, <2>3
<1>5. UnresolvedDiscrepancies(traced) = {}
  <2>1. PICK s : s = close.scope  OBVIOUS
  <2>2. close = CloseOver(s, traced)  BY <1>4, <2>1
  <2>3. close.unresolved = UnresolvedDiscrepancies(traced)  BY <2>2 DEF CloseOver
  <2> QED  BY <1>1, <1>2, <2>3
<1>6. PICK P, evs : /\ P = {k \in DOMAIN events : events[k].scope = close.scope}
                    /\ evs = Picked(events, P)
  OBVIOUS
<1>7. evs = ScopedEvents(close.scope)  BY <1>6 DEF ScopedEvents
<1>8. /\ \A j \in DOMAIN evs : evs[j].sequence \in P /\ evs[j] = events[evs[j].sequence]
      /\ \A k \in P : \E j \in DOMAIN evs : evs[j] = events[k]
  <2>1. events \in Seq(BookedEvent) /\ Numbered  BY DEF ReconciliationInv, BooksInv, Numbered
  <2>2. P \in SUBSET DOMAIN events /\ evs = Picked(events, P)  BY <1>6
  <2> QED  BY ONLY <2>1, <2>2, PartOfBook
<1>9. /\ d # None
      /\ \E j \in DOMAIN evs : evs[j].class = "unresolved_discrepancy" /\ evs[j].discrepancy = d
      /\ \A j \in DOMAIN evs : evs[j].class \in ReconcilingClasses => evs[j].discrepancy # d
  BY <1>7 DEF UnresolvedDiscrepancies
<1>10. PICK k \in P : events[k].class = "unresolved_discrepancy" /\ events[k].discrepancy = d
  BY <1>8, <1>9
<1>11. k \notin close.trace
  <2> SUFFICES ASSUME k \in close.trace PROVE FALSE  OBVIOUS
  <2>1. PICK i \in DOMAIN traced : traced[i] = events[k]  BY <1>4
  <2>2. PICK i2 \in DOMAIN traced :
          traced[i2].class \in ReconcilingClasses /\ traced[i2].discrepancy = d
    BY <1>5, <1>9, <1>10, <2>1 DEF UnresolvedDiscrepancies
  <2>3. PICK p : p = traced[i2].sequence  OBVIOUS
  <2>4. p \in P /\ events[p].class \in ReconcilingClasses /\ events[p].discrepancy = d
    BY <1>4, <1>6, <2>2, <2>3 DEF ScopePositions
  <2>5. PICK j \in DOMAIN evs : evs[j] = events[p]  BY <1>8, <2>4
  <2> QED  BY <1>9, <2>4, <2>5
<1> QED  BY <1>6, <1>10, <1>11

(* The next session is made eligible over a discrepancy only if that was opened
   after the session close was built: never over one the close could have told. *)
THEOREM ReconciliationOverlooks == ReconciliationSpec => []OverlooksOnlyNews
<1> QED  BY DailyOverlooks, ReconciliationStart, ReconciliationStep, PTL DEF ReconciliationSpec
=============================================================================
