--------------------------- MODULE BarAggregation ---------------------------
(***************************************************************************)
(* The bars of one instrument against a trading calendar: which session a  *)
(* bar belongs to, the windows bars are aggregated into, and the first     *)
(* point of a requested range that they leave uncovered. Times are         *)
(* integers in the market's timezone, and a bar is [from, to, volume,      *)
(* price] over [from, to), its price standing for the typical price.       *)
(***************************************************************************)
EXTENDS Integers, Sequences, FiniteSetsExt, Functions

CONSTANTS DayLength,  \* the length of a calendar day
          Sessions,   \* the sessions of each trading day, in order
          Holidays    \* the days the market is closed although it has sessions

SessionsAreOrdered(ss) ==
  /\ \A i \in DOMAIN ss : ss[i].opens < ss[i].closes
  /\ \A i \in 1 .. Len(ss) - 1 : ss[i].closes <= ss[i + 1].opens

ASSUME CalendarAssumption ==
  /\ DayLength \in Nat \ {0} /\ DOMAIN Sessions \subseteq Int
  /\ \A d \in DOMAIN Sessions :
       /\ Sessions[d] \in Seq([opens: Int, closes: Int]) /\ Sessions[d] # <<>>
       /\ SessionsAreOrdered(Sessions[d])
       /\ \A i \in DOMAIN Sessions[d] :
            Sessions[d][i].opens \div DayLength = d /\ Sessions[d][i].closes \div DayLength = d

(* Bar: an interval that is not empty.                                     *)
Bars == {b \in [from: Int, to: Int, volume: Nat, price: Nat \ {0}] : b.from < b.to}

DateOf(t) == t \div DayLength
SessionsFor(d) == IF d \in DOMAIN Sessions /\ d \notin Holidays THEN Sessions[d] ELSE <<>>

Earlier(x, y) == IF x <= y THEN x ELSE y
Later(x, y) == IF x <= y THEN y ELSE x

(* A session by its day and its number, with its times.                    *)
Location(d, k) ==
  [day |-> d, segment |-> k, opens |-> Sessions[d][k].opens, closes |-> Sessions[d][k].closes]
LocationsOn(d) == {Location(d, k) : k \in DOMAIN SessionsFor(d)}

(* The session that holds the whole of a bar, at most one.                 *)
Locations(bar) ==
  {l \in LocationsOn(DateOf(bar.from)) :
     l.opens <= bar.from /\ bar.from < l.closes /\ bar.to <= l.closes}
Locate(bar) == CHOOSE l \in Locations(bar) : TRUE

InOrder(bars) == \A i \in 1 .. Len(bars) - 1 : bars[i].to <= bars[i + 1].from
ValidBars(bars) == InOrder(bars) /\ \A i \in DOMAIN bars : Locations(bars[i]) # {}

-----------------------------------------------------------------------------
(* Some of the bars, by their places: how far those before a place reach   *)
(* from the start of a range, and whether all of them cover it.            *)
Reached(bars, places, from, i) ==
  LET before == {j \in places : j < i} IN IF before = {} THEN from ELSE bars[Max(before)].to

Chained(bars, places, from) == \A i \in places : bars[i].from = Reached(bars, places, from, i)
(* A plausible slip: the bars need not reach the end of the window.        *)
CoversFromStart(bars, places, from, to) == Chained(bars, places, from)
Covers(bars, places, from, to) ==
  Chained(bars, places, from) /\ Reached(bars, places, from, Len(bars) + 1) = to

(* Aggregation in windows of one width from the open of each session.      *)
Window(bar, width) ==
  LET l == Locate(bar)
      start == l.opens + ((bar.from - l.opens) \div width) * width
  IN [from |-> start, to |-> Earlier(start + width, l.closes)]

CanAggregate(bars, width) ==
  ValidBars(bars) /\ \A i \in DOMAIN bars : bars[i].to <= Window(bars[i], width).to

Volume(bars, places) == SumFunctionOnSet([i \in DOMAIN bars |-> bars[i].volume], places)

Windows(bars, width) == {Window(bars[i], width) : i \in DOMAIN bars}
Group(bars, width, w) == {i \in DOMAIN bars : Window(bars[i], width) = w}
Aggregate(bars, width) ==
  {[from |-> w.from, to |-> w.to, volume |-> Volume(bars, Group(bars, width, w))] :
     w \in {v \in Windows(bars, width) : Covers(bars, Group(bars, width, v), v.from, v.to)}}

-----------------------------------------------------------------------------
(* Coverage of a requested range.                                          *)

(* The sessions a range overlaps.                                          *)
RequestedLocations(from, to) ==
  {l \in UNION {LocationsOn(d) : d \in DateOf(from) .. DateOf(to)} :
     Later(l.opens, from) < Earlier(l.closes, to)}

BarsIn(bars, l) == {i \in DOMAIN bars : Locate(bars[i]) = l}

(* What is wrong with the bars of a session that must cover [from, to):    *)
(* the first bar that does not start where the one before it ends, or that *)
(* ends beyond the range, or that the last one falls short of it.          *)
Broken(bars, places, from, to) ==
  {i \in places : bars[i].from # Reached(bars, places, from, i) \/ bars[i].to > to}

(* A plausible slip: the last bar may fall short of the range.             *)
SessionGapBetween(bars, places, from, to) ==
  IF Broken(bars, places, from, to) = {} THEN "none" ELSE "interior"

SessionGap(bars, places, from, to) ==
  LET broken == Broken(bars, places, from, to)
      first == Min(broken)
  IN IF broken = {}
     THEN IF Reached(bars, places, from, Len(bars) + 1) = to THEN "none" ELSE "trailing"
     ELSE IF bars[first].from = Reached(bars, places, from, first) THEN "trailing"
     ELSE IF first = Min(places) THEN "leading" ELSE "interior"

(* The first gap over the sessions of a range, "none" if they are covered. *)
CoverageGap(bars, from, to) ==
  LET gap(l) ==
        SessionGap(bars, BarsIn(bars, l), Later(l.opens, from), Earlier(l.closes, to))
      broken == {l \in RequestedLocations(from, to) : gap(l) # "none"}
  IN IF broken = {} THEN "none"
     ELSE gap(CHOOSE l \in broken : \A m \in broken : l.opens <= m.opens)

-----------------------------------------------------------------------------
(* The reference the above is checked against: each instant on its own.    *)
Instants(from, to) == from .. to - 1
Traded(bars, t) == \E i \in DOMAIN bars : t \in Instants(bars[i].from, bars[i].to)

(* requested_range_coverage_gap finds none exactly when, in every session  *)
(* the range overlaps, each instant of the range is traded and no other.   *)
GapsAreReal(bars, from, to) ==
  (CoverageGap(bars, from, to) = "none") <=>
    \A l \in RequestedLocations(from, to) :
      \A t \in Instants(l.opens, l.closes) :
        Traded(bars, t) <=> (from <= t /\ t < to)

(* aggregate_bars emits a window exactly when each of its instants is      *)
(* traded, a window cut short by the close of its session included.        *)
WindowsAreWhole(bars, width) ==
  CanAggregate(bars, width) =>
    {[from |-> a.from, to |-> a.to] : a \in Aggregate(bars, width)} =
    {w \in Windows(bars, width) : \A t \in Instants(w.from, w.to) : Traded(bars, t)}
=============================================================================
