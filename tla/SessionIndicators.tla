------------------------- MODULE SessionIndicators -------------------------
(***************************************************************************)
(* The two indicators a strategy reads from one market snapshot: the VWAP  *)
(* of the latest session, and the ratio of the volume of the latest window *)
(* to that of the same window on the previous trading days, which reads    *)
(* the history one day at a time. A snapshot holds its bars sorted and     *)
(* without duplicates; they are the bars of the instrument asked for.      *)
(***************************************************************************)
EXTENDS BarAggregation

CONSTANTS Inputs,       \* the snapshots and histories to calculate from
          Width,        \* bar_width
          Lookback,     \* lookback_days
          MaxLookback   \* _MAX_CALENDAR_LOOKBACK_DAYS

Gathered == {"absent", "incomplete", "mismatched", "invalid", "interval", "no_reference"}
RatioResults ==
  {"none", "available", "snapshot_not_actionable", "current_request_market_closed",
   "invalid_current_source_bars", "incomplete_current_source_coverage", "missing_current_bar",
   "calendar_lookback_unavailable", "raised", "history_request_market_closed",
   "incomplete_history_source_coverage", "invalid_history_source_bars",
   "history_interval_mismatch", "history_date_mismatch", "insufficient_history",
   "incomplete_history", "missing_reference_bar", "zero_reference_volume"}
VwapResults ==
  {"none", "available", "snapshot_not_actionable", "missing_instrument_bars",
   "requested_range_outside_sessions", "invalid_source_bars", "incomplete_source_coverage",
   "zero_volume"}

Snapshots ==
  {s \in [actionable: BOOLEAN, from: Int, to: Int, bars: Seq(Bars)] : s.from < s.to}
ASSUME InputsAssumption ==
  /\ Inputs \subseteq [current: Snapshots, history: Seq(Snapshots)]
  /\ {Width, Lookback, MaxLookback} \subseteq Nat \ {0}

VARIABLES input,     \* the snapshot and the history
          step,      \* "current", "history" or "done"
          current,   \* the window the ratio is for
          dates,     \* the trading days still to read
          gathered,  \* the days found of each kind that rules a ratio out
          volumes,   \* the volumes found, by day
          ratio,     \* the volume ratio's result
          vwap       \* the VWAP's result

indicatorVars == <<input, step, current, dates, gathered, volumes, ratio, vwap>>
Snapshot == input.current
NoWindow == [from |-> 0, to |-> 0, volume |-> 0]

-----------------------------------------------------------------------------
(* The volume ratio of the current window.                                 *)

LatestLocation(s) ==
  LET ls == RequestedLocations(s.from, s.to) IN CHOOSE l \in ls : \A m \in ls : m.opens <= l.opens
RequiredEnd(s) == Earlier(LatestLocation(s).closes, s.to)

Targets(s) ==
  {w \in Aggregate(s.bars, Width) :
     /\ Locate(w).day = LatestLocation(s).day /\ Locate(w).segment = LatestLocation(s).segment
     /\ w.to = RequiredEnd(s)}

PreviousTradingDates(day) ==
  LET trading == {d \in day - MaxLookback .. day - 1 : SessionsFor(d) # <<>>}
  IN {d \in trading : Cardinality({e \in trading : e > d}) < Lookback}

(* The places of the history that is older than a day.                     *)
HistoryBefore(day) == {i \in DOMAIN input.history : DateOf(input.history[i].from) < day}
TwoOnOneDay(places) ==
  \E i, j \in places : i # j /\ DateOf(input.history[i].from) = DateOf(input.history[j].from)

CurrentResult(s) ==
  IF ~ s.actionable THEN "snapshot_not_actionable"
  ELSE IF RequestedLocations(s.from, s.to) = {} THEN "current_request_market_closed"
  ELSE IF ~ CanAggregate(s.bars, Width) THEN "invalid_current_source_bars"
  ELSE IF CoverageGap(s.bars, s.from, s.to) # "none" THEN "incomplete_current_source_coverage"
  ELSE IF Aggregate(s.bars, Width) = {} THEN "missing_current_bar"
  ELSE IF Targets(s) = {} THEN "incomplete_current_source_coverage"
  ELSE LET day == LatestLocation(s).day IN
       IF Cardinality(PreviousTradingDates(day)) # Lookback THEN "calendar_lookback_unavailable"
       ELSE IF TwoOnOneDay(HistoryBefore(day)) THEN "raised" ELSE "none"

ReadCurrent ==
  /\ step = "current"
  /\ ratio' = CurrentResult(Snapshot)
  /\ IF ratio' # "none"
     THEN step' = "done" /\ UNCHANGED <<current, dates>>
     ELSE /\ step' = "history"
          /\ current' = CHOOSE w \in Targets(Snapshot) : TRUE
          /\ dates' = PreviousTradingDates(LatestLocation(Snapshot).day)
  /\ UNCHANGED <<input, gathered, volumes, vwap>>

-----------------------------------------------------------------------------
(* The same window on a previous day.                                      *)

HistoryOf(day) ==
  {s \in {input.history[i] : i \in HistoryBefore(Locate(current).day)} : DateOf(s.from) = day}

Offsets(w) == [from |-> w.from - Locate(w).opens, to |-> w.to - Locate(w).opens]
SameSlot(w) == Locate(w).segment = Locate(current).segment /\ Offsets(w).from = Offsets(current).from
(* A plausible slip: the windows are matched by where they start.          *)
SameStart(w) == SameSlot(w)
SameGeometry(w) == SameSlot(w) /\ Offsets(w) = Offsets(current)

ClassifySnapshot(s, day) ==
  LET windows == Aggregate(s.bars, Width) IN
  IF ~ s.actionable THEN "incomplete"
  ELSE IF \E i \in DOMAIN s.bars : DateOf(s.bars[i].from) # day THEN "mismatched"
  ELSE IF RequestedLocations(s.from, s.to) = {} THEN "history_request_market_closed"
  ELSE IF ~ ValidBars(s.bars) THEN "invalid"
  ELSE IF CoverageGap(s.bars, s.from, s.to) # "none" THEN "incomplete_history_source_coverage"
  ELSE IF ~ CanAggregate(s.bars, Width) THEN "invalid"
  ELSE IF \E w \in windows : SameGeometry(w) THEN "reference"
  ELSE IF \E w \in windows : SameSlot(w) THEN "interval"
  ELSE "no_reference"

Classify(day) ==
  IF HistoryOf(day) = {} THEN "absent"
  ELSE ClassifySnapshot(CHOOSE s \in HistoryOf(day) : TRUE, day)

ReferenceVolume(day) ==
  LET s == CHOOSE x \in HistoryOf(day) : TRUE
  IN (CHOOSE w \in Aggregate(s.bars, Width) : SameGeometry(w)).volume

ReadHistory ==
  /\ step = "history" /\ dates # {}
  /\ LET day == Max(dates) found == Classify(day) IN
     CASE found = "reference" ->
            /\ volumes' = [d \in DOMAIN volumes \cup {day} |->
                             IF d = day THEN ReferenceVolume(day) ELSE volumes[d]]
            /\ dates' = dates \ {day}
            /\ UNCHANGED <<step, gathered, ratio>>
       [] found \in Gathered ->
            /\ gathered' = [gathered EXCEPT ![found] = @ \cup {day}] /\ dates' = dates \ {day}
            /\ UNCHANGED <<step, volumes, ratio>>
       [] OTHER ->
            /\ ratio' = found /\ step' = "done"
            /\ UNCHANGED <<dates, gathered, volumes>>
  /\ UNCHANGED <<input, current, vwap>>

TotalVolume == SumFunction(volumes)

Conclusion ==
  IF gathered["invalid"] # {} THEN "invalid_history_source_bars"
  ELSE IF gathered["interval"] # {} THEN "history_interval_mismatch"
  ELSE IF gathered["mismatched"] # {} THEN "history_date_mismatch"
  ELSE IF gathered["absent"] # {} THEN "insufficient_history"
  ELSE IF gathered["incomplete"] # {} THEN "incomplete_history"
  ELSE IF gathered["no_reference"] # {} THEN "missing_reference_bar"
  ELSE IF TotalVolume = 0 THEN "zero_reference_volume"
  ELSE "available"

Conclude ==
  /\ step = "history" /\ dates = {}
  /\ ratio' = Conclusion /\ step' = "done"
  /\ UNCHANGED <<input, current, dates, gathered, volumes, vwap>>

-----------------------------------------------------------------------------
(* The VWAP of the latest session, from its open to the end of the request.*)

(* A plausible slip: the sessions of a day are taken together.             *)
ActiveOfDay(s) == {i \in DOMAIN s.bars : Locate(s.bars[i]).day = LatestLocation(s).day}
Active(s) == BarsIn(s.bars, LatestLocation(s))
VwapGap(s) ==
  LET gap == SessionGap(s.bars, Active(s), LatestLocation(s).opens, RequiredEnd(s))
      beyond == \E i \in Active(s) : s.bars[i].to > RequiredEnd(s)
  IN IF gap = "interior" \/ (gap = "trailing" /\ beyond) THEN "raised" ELSE gap

VwapResult(s) ==
  IF ~ s.actionable THEN "snapshot_not_actionable"
  ELSE IF s.bars = <<>> THEN "missing_instrument_bars"
  ELSE IF ~ ValidBars(s.bars) THEN "invalid_source_bars"
  ELSE IF RequestedLocations(s.from, s.to) = {} THEN "requested_range_outside_sessions"
  ELSE IF VwapGap(s) = "raised" THEN "invalid_source_bars"
  ELSE IF VwapGap(s) # "none" THEN "incomplete_source_coverage"
  ELSE IF Volume(s.bars, Active(s)) = 0 THEN "zero_volume"
  ELSE "available"

CalculateVwap ==
  /\ vwap = "none"
  /\ vwap' = VwapResult(Snapshot)
  /\ UNCHANGED <<input, step, current, dates, gathered, volumes, ratio>>

IndicatorsInit ==
  /\ input \in Inputs
  /\ step = "current" /\ current = NoWindow /\ dates = {} /\ volumes = <<>>
  /\ gathered = [k \in Gathered |-> {}]
  /\ ratio = "none" /\ vwap = "none"

IndicatorsNext == ReadCurrent \/ ReadHistory \/ Conclude \/ CalculateVwap
IndicatorsSpec == IndicatorsInit /\ [][IndicatorsNext]_indicatorVars
-----------------------------------------------------------------------------
SessionIndicatorsTypeOK ==
  /\ step \in {"current", "history", "done"}
  /\ ratio \in RatioResults /\ vwap \in VwapResults
  /\ \A k \in Gathered : gathered[k] \subseteq DOMAIN Sessions

(* The gap that is found in the current snapshot is one, and none is       *)
(* overlooked, however the bars divide the sessions.                       *)
CoverageIsExact ==
  step = "current" /\ ValidBars(Snapshot.bars) =>
    GapsAreReal(Snapshot.bars, Snapshot.from, Snapshot.to)

(* No window is made up of bars that do not fill it, a window shortened by *)
(* the close of its session included, and no filled one is dropped.        *)
AggregationIsExact == step = "current" => WindowsAreWhole(Snapshot.bars, Width)

(* An available ratio rests on a full window of each of the last trading   *)
(* days: the same instants after the open, each traded in its history.     *)
RatioIsSupported ==
  ratio = "available" =>
    LET days == PreviousTradingDates(Locate(current).day)
        opens(d) == SessionsFor(d)[Locate(current).segment].opens
    IN /\ \A t \in Instants(current.from, current.to) : Traded(Snapshot.bars, t)
       /\ Cardinality(days) = Lookback /\ DOMAIN volumes = days
       /\ \A d \in days : \E s \in HistoryOf(d) :
            /\ \A t \in Instants(Offsets(current).from, Offsets(current).to) :
                 Traded(s.bars, opens(d) + t)
            /\ \E w \in Aggregate(s.bars, Width) :
                 /\ w.to - w.from = current.to - current.from
                 /\ w.from = opens(d) + Offsets(current).from
                 /\ volumes[d] = w.volume

(* The indicators agree on coverage: when the request reaches back to the  *)
(* open of its latest session, a ratio is never available where the VWAP   *)
(* is refused for its bars.                                                *)
IndicatorsAgreeOnCoverage ==
  (ratio = "available" /\ vwap # "none" /\ Snapshot.from <= LatestLocation(Snapshot).opens) =>
    vwap \in {"available", "zero_volume"}
=============================================================================
