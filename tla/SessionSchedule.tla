--------------------------- MODULE SessionSchedule ---------------------------
(***************************************************************************)
(* rust/opsd/src/schedule.rs: compile_schedule turns calendar entries and   *)
(* windows into the slices the runtime holds, and evaluate_at looks an      *)
(* instant up in them.  Instants are integers; reason codes and labels      *)
(* follow from the entry and the windows a slice came from, so a slice      *)
(* keeps those (its sources) in their place.                                *)
(***************************************************************************)
EXTENDS Integers, SequencesExt

CONSTANTS
  EntrySets,   \* calendars a request may carry: sets of entries
  WindowSets,  \* the windows it may carry: sets of windows
  None         \* no schedule, no session, no slice

(* The windows, in the order in which they take an instant. *)
Precedence == <<"maintenance", "reset", "delivery", "policy">>
States == {"holiday_closure", "maintenance", "reset", "delivery", "policy", "tradeable", "closed"}

Entry == [open : Int, close : Int, kind : {"regular", "early_close", "holiday_closure"}]
(* A window is approved when it has an approved maintenance id, a delivery rule
   that matches the profile's, or is an overlay in a state overlays may have. *)
Window == [kind : {"maintenance", "reset", "delivery", "policy"}, from : Int, to : Int, approved : BOOLEAN]

Slice ==
  [start : Int, end : Int, state : States, session : Entry \cup {None}, sources : SUBSET (Entry \cup Window)]

ASSUME ScheduleAssumption ==
  /\ EntrySets \subseteq SUBSET Entry /\ \A entries \in EntrySets : IsFiniteSet(entries)
  /\ WindowSets \subseteq SUBSET Window /\ \A windows \in WindowSets : IsFiniteSet(windows)
  /\ None \notin Slice

VARIABLE
  installed    \* the compiled artifact the runtime holds, or None

ScheduleInit == installed = None

----------------------------------------------------------------------------
(* The checks of compile_schedule.  Entries are sorted by opening time, so
   only neighbours are compared; a pair that overlaps has such neighbours. *)
Compilable(r) ==
  /\ r.entries # {}
  /\ \A e \in r.entries : e.open < e.close
  /\ \A e, f \in r.entries : e = f \/ e.close <= f.open \/ f.close <= e.open
  /\ \A w \in r.windows : w.from < w.to /\ w.approved

EntryBoundaries(r) == {e.open : e \in r.entries} \cup {e.close : e \in r.entries}

Boundaries(r) ==
  EntryBoundaries(r) \cup {w.from : w \in r.windows} \cup {w.to : w \in r.windows}

Covers(from, to, start, end) == from <= start /\ to >= end

ActiveEntries(r, start, end) == {e \in r.entries : Covers(e.open, e.close, start, end)}
ActiveWindows(r, kind, start, end) ==
  {w \in r.windows : w.kind = kind /\ Covers(w.from, w.to, start, end)}

(* closed_gap_context: the sources of a gap, the early close it follows. *)
ClosedGapSources(r, start) ==
  {e \in r.entries : /\ e.close <= start /\ e.kind = "early_close"
                     /\ \A f \in r.entries : f.close <= start => f.close <= e.close}

(* The state of one slice and what decided it. *)
CompileSlice(r, start, end) ==
  LET entries == ActiveEntries(r, start, end)
      session == IF entries = {} THEN None ELSE CHOOSE e \in entries : TRUE
      active  == {n \in DOMAIN Precedence : ActiveWindows(r, Precedence[n], start, end) # {}}
      slice(state, sources) == [start |-> start, end |-> end, state |-> state,
                                session |-> session, sources |-> sources]
  IN  IF entries # {} /\ session.kind = "holiday_closure"
      THEN slice("holiday_closure", entries)
      ELSE IF active # {}
      THEN slice(Precedence[Min(active)], entries \cup ActiveWindows(r, Precedence[Min(active)], start, end))
      ELSE IF entries # {} THEN slice("tradeable", entries)
      ELSE slice("closed", ClosedGapSources(r, start))

(* A set of instants in order, as the BTreeSet of the boundaries iterates. *)
InOrder(S) == [n \in 1..Cardinality(S) |-> CHOOSE b \in S : Cardinality({c \in S : c < b}) = n - 1]

RawSlices(r) ==
  LET bounds == InOrder(Boundaries(r))
  IN  [i \in 1..(Len(bounds) - 1) |-> CompileSlice(r, bounds[i], bounds[i + 1])]

SameTopology(a, b) == a.state = b.state /\ a.session = b.session /\ a.sources = b.sources

MergeInto(merged, slice) ==
  IF merged # <<>> /\ Last(merged).end = slice.start /\ SameTopology(Last(merged), slice)
  THEN [merged EXCEPT ![Len(merged)] = [@ EXCEPT !.end = slice.end]]
  ELSE Append(merged, slice)

(* MergedUpTo(slices)[n] is what merging the first n slices gives. *)
MergedUpTo(slices) ==
  LET merged[n \in 0..Len(slices)] == IF n = 0 THEN <<>> ELSE MergeInto(merged[n - 1], slices[n])
  IN  merged

(* Faulty variant: the merged slice dropped without extending its neighbour. *)
DropsMerged(slices) ==
  LET into(merged, slice) ==
        IF merged # <<>> /\ SameTopology(Last(merged), slice) THEN merged
        ELSE Append(merged, slice)
  IN  FoldLeft(into, <<>>, slices)

MergeAdjacentSlices(slices) == MergedUpTo(slices)[Len(slices)]

CompileSchedule(r) == MergeAdjacentSlices(RawSlices(r))

(* evaluate_at, for an instant of the compiled range. *)
EvaluateAt(slices, instant) ==
  LET found == {i \in DOMAIN slices : slices[i].start <= instant /\ instant < slices[i].end}
  IN  IF found = {} THEN None ELSE slices[Min(found)]

(* compile_and_install_schedule: a request that fails leaves the runtime as it
   was.  One installation per behaviour: the next replaces it outright. *)
CompileAndInstall(r) ==
  /\ Compilable(r)
  /\ installed' = [request |-> r, slices |-> CompileSchedule(r)]

ScheduleNext ==
  installed = None /\ \E entries \in EntrySets, windows \in WindowSets :
                        CompileAndInstall([entries |-> entries, windows |-> windows])

ScheduleSpec == ScheduleInit /\ [][ScheduleNext]_installed

----------------------------------------------------------------------------
(* The reference: what the inputs of a request say of a single instant. *)
InForce(r, instant, kind) == {w \in r.windows : w.kind = kind /\ w.from <= instant /\ instant < w.to}
SessionAt(r, instant) == {e \in r.entries : e.open <= instant /\ instant < e.close}

StateAt(r, instant) ==
  IF \E e \in SessionAt(r, instant) : e.kind = "holiday_closure" THEN "holiday_closure"
  ELSE IF InForce(r, instant, "maintenance") # {} THEN "maintenance"
  ELSE IF InForce(r, instant, "reset") # {} THEN "reset"
  ELSE IF InForce(r, instant, "delivery") # {} THEN "delivery"
  ELSE IF InForce(r, instant, "policy") # {} THEN "policy"
  ELSE IF SessionAt(r, instant) # {} THEN "tradeable" ELSE "closed"

(* The early close that an instant outside every session follows, if any. *)
EarlyCloseBefore(r, instant) ==
  {e \in r.entries : /\ e.close <= instant /\ e.kind = "early_close"
                     /\ ~ \E f \in r.entries : e.close < f.close /\ f.close <= instant}

SourcesAt(r, instant) ==
  IF StateAt(r, instant) = "closed" THEN EarlyCloseBefore(r, instant)
  ELSE IF StateAt(r, instant) \in {"tradeable", "holiday_closure"} THEN SessionAt(r, instant)
  ELSE SessionAt(r, instant) \cup InForce(r, instant, StateAt(r, instant))

(* A slice answers for an instant: its state, its session and its sources are
   what the calendar and the windows say of that very instant. *)
AnswersFor(r, slice, instant) ==
  /\ slice.state = StateAt(r, instant)
  /\ slice.session = IF SessionAt(r, instant) = {} THEN None ELSE CHOOSE e \in SessionAt(r, instant) : TRUE
  /\ slice.sources = SourcesAt(r, instant)

(* The slices are a chain of nonempty intervals: no instant of the range is
   missing or has two answers (evaluate_at would report MissingCompiledSlice,
   or answer by slice order). *)
PartitionTheRange(slices, from, to) ==
  /\ slices # <<>> /\ \A i \in DOMAIN slices : slices[i].start < slices[i].end
  /\ slices[1].start = from /\ Last(slices).end = to
  /\ \A i \in 1..(Len(slices) - 1) : slices[i].end = slices[i + 1].start

(* Neighbouring slices differ: the schedule changes hands only where the
   topology does, whatever boundaries the inputs put in between. *)
AreMaximal(slices) == \A i \in 1..(Len(slices) - 1) : ~SameTopology(slices[i], slices[i + 1])

(* Looking an instant up in the slices finds one that answers for it. *)
EvaluationIsPointwise(r, slices, from, to) ==
  \A instant \in from..(to - 1) :
    EvaluateAt(slices, instant) # None /\ AnswersFor(r, EvaluateAt(slices, instant), instant)

FollowsTheSchedule(r, slices) ==
  LET from == Min(Boundaries(r))  to == Max(Boundaries(r))
  IN  PartitionTheRange(slices, from, to) /\ EvaluationIsPointwise(r, slices, from, to) /\ AreMaximal(slices)

(* The compiled slices are the schedule: no gap, no overlap, no needless cut, and
   at every instant the answer of the calendar and the windows. *)
SlicesFollowTheSchedule == installed # None => FollowsTheSchedule(installed.request, installed.slices)
=============================================================================
