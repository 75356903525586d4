--------------------------- MODULE ViewTransforms ---------------------------
(***************************************************************************)
(* Pure transforms the views apply to a response before drawing it,        *)
(* checked against reference definitions over every small input.           *)
(*                                                                         *)
(*  - NeighborhoodBarChart (components/analytics/neighborhood-bar-chart.   *)
(*    tsx): the top TopN neighborhoods by count (TopN is 10 in the code),  *)
(*    the bar colours and the summary line.                                *)
(*  - VisitsContent (components/leads/lead-detail-skeleton.tsx): the list  *)
(*    tab sorts the visits by date and time, the calendar tab groups them  *)
(*    by date and sorts each group by time.                                *)
(*  - TimeSeriesChart (components/analytics/time-series-chart.tsx): the    *)
(*    dates of the axis ticks and of the tooltip.                          *)
(*  - FunnelChart (components/analytics/funnel-chart.tsx): the stage       *)
(*    labels and the stage-to-stage conversion rates of the rows under the *)
(*    chart and of the tooltip.                                            *)
(*                                                                         *)
(* Array.prototype.sort is stable, so a sort by a key is modelled as the   *)
(* sort by the key and then by the position in the input.  A neighborhood  *)
(* or a visit is identified by its position in the response; dates and     *)
(* times are numbers compared as the code's ISO strings are.               *)
(***************************************************************************)
EXTENDS Integers, Sequences, SequencesExt, TLC, FunnelRates

CONSTANTS
    TopN,       \* the slice(0, 10) bound
    Counts,     \* lead counts a neighborhood can have
    Days,       \* scheduled dates
    Times,      \* scheduled times
    MaxItems,   \* bound on the length of a response
    Stages,     \* stage keys the funnel endpoint can return
    UtcOffset   \* the browser's offset from UTC, in minutes

ASSUME TransformsConstantsAssumption ==
    /\ TopN \in Nat \ {0}
    /\ Counts \subseteq Nat
    /\ Days \subseteq Nat
    /\ Times \subseteq Nat
    /\ MaxItems \in Nat
    /\ NoRate \notin Nat /\ NotARate \notin Nat /\ NoRate # NotARate
    /\ UtcOffset \in -720..840

VARIABLES
    neighborhoods,  \* the `data' prop of NeighborhoodBarChart: counts by position
    visits,         \* data.visits: [date, time] by position
    funnel,         \* the `data' prop of FunnelChart: [stage, count] by position
    timeSeries      \* the `data' prop of TimeSeriesChart: the points' dates

vars == <<neighborhoods, visits, funnel, timeSeries>>

Visit == [date : Days, time : Times]

NeighborhoodInputs == BoundedSeq(Counts, MaxItems)

VisitInputs == BoundedSeq(Visit, MaxItems)

FunnelStage == [stage : Stages, count : Counts]

\* Spec section 4.2: one point per calendar day of the window, gap-filled.
TimeSeriesInputs == {[k \in 1..n |-> d + k - 1] : d \in Days, n \in 0..MaxItems}

\* Spec section 4.3: stage order is fixed by configuration, so no stage repeats.
FunnelInputs ==
    {f \in BoundedSeq(FunnelStage, MaxItems) :
        \A i, j \in 1..Len(f) : f[i].stage = f[j].stage => i = j}

\* The positions of s in the stable order of `Before' (a strict order on keys).
StableOrder(s, Before(_, _)) ==
    SortSeq([i \in 1..Len(s) |-> i],
            LAMBDA i, j : Before(s[i], s[j]) \/ (~Before(s[j], s[i]) /\ i < j))

MinOf(a, b) == IF a < b THEN a ELSE b

-----------------------------------------------------------------------------
(* Neighborhoods.                                                          *)

(* Variant of TopNeighborhoods sorting with a - b (ascending). *)
TopNeighborhoodsAscending(s) ==
    Reverse(SubSeq(StableOrder(s, LAMBDA a, b : a < b), 1, MinOf(TopN, Len(s))))

(***************************************************************************)
(* top10Data: [...data].sort((a, b) => b.count - a.count).slice(0, 10)     *)
(* .reverse(), as the positions of the neighborhoods drawn, bottom to top. *)
(***************************************************************************)
TopNeighborhoods(s) ==
    Reverse(SubSeq(StableOrder(s, LAMBDA a, b : a > b), 1, MinOf(TopN, Len(s))))

\* maxCount: Math.max(...counts of top10Data, 0).
MaxCount(s, top) ==
    LET cs == {s[top[k]] : k \in 1..Len(top)} IN
    CHOOSE m \in cs \cup {0} : \A c \in cs : m >= c

(***************************************************************************)
(* getBarColor: the COLORS index for count / maxCount above 0.8, 0.6, 0.4, *)
(* 0.2 or not (0 when maxCount is 0), in integers.                         *)
(***************************************************************************)
BarColor(count, max) ==
    CASE max = 0                -> 4
      [] 5 * count > 4 * max    -> 0
      [] 5 * count > 3 * max    -> 1
      [] 5 * count > 2 * max    -> 2
      [] 5 * count > 1 * max    -> 3
      [] OTHER                  -> 4

(* Variant of LeaderCount reading the first entry of top10Data. *)
LeaderCountFirst(s, top) == IF Len(top) > 0 THEN s[top[1]] ELSE 0

\* The summary's "leader" figure: the count of the last entry of top10Data.
LeaderCount(s, top) == IF Len(top) > 0 THEN s[top[Len(top)]] ELSE 0

(* Variant of TopTotal summing the whole response instead of top10Data.   *)
TopTotalAll(s, top) == FoldLeft(LAMBDA acc, c : acc + c, 0, s)

\* CustomTooltip's totalLeads: top10Data.reduce((sum, item) => sum + item.count, 0).
TopTotal(s, top) == FoldLeft(LAMBDA acc, k : acc + s[k], 0, top)

(***************************************************************************)
(* CustomTooltip's "Do Top 10" figure for the k-th bar: (count / totalLeads *)
(* * 100).toFixed(1) in tenths of a percent, rounded half up, and 0 when    *)
(* totalLeads is 0.  (No count checked falls on a half.)                    *)
(***************************************************************************)
TopShare(s, top, k) ==
    LET t == TopTotal(s, top) IN
    IF t > 0 THEN (2000 * s[top[k]] + t) \div (2 * t) ELSE 0

(***************************************************************************)
(* Reference (spec section 4.4): sorted descending, ties in input order,   *)
(* cut to TopN.  A neighborhood's rank is the number of neighborhoods      *)
(* ahead of it; those with rank < TopN are drawn, the top one last.        *)
(***************************************************************************)
Rank(s, i) ==
    Cardinality({j \in 1..Len(s) : s[j] > s[i] \/ (s[j] = s[i] /\ j < i)})

TopReference(s) ==
    LET m == MinOf(TopN, Len(s)) IN
    [k \in 1..m |-> CHOOSE i \in 1..Len(s) : Rank(s, i) = m - k]

-----------------------------------------------------------------------------
(* Visits.                                                                 *)

\* The list tab: data.visits.sort by scheduled_date, then scheduled_time.
ListOrder(v) ==
    StableOrder(v, LAMBDA a, b : a.date < b.date \/ (a.date = b.date /\ a.time < b.time))

(* Variant of GroupVisitsByDate without the per-group sort by time. *)
GroupVisitsByDateUnsorted(v) ==
    [d \in {v[i].date : i \in 1..Len(v)} |->
        SelectSeq([i \in 1..Len(v) |-> i], LAMBDA i : v[i].date = d)]

(***************************************************************************)
(* groupVisitsByDate: the positions of each date's visits in input order   *)
(* (forEach and push), each group then sorted by scheduled_time.           *)
(***************************************************************************)
GroupVisitsByDate(v) ==
    [d \in {v[i].date : i \in 1..Len(v)} |->
        LET g == SelectSeq([i \in 1..Len(v) |-> i], LAMBDA i : v[i].date = d)
        IN  [k \in 1..Len(g) |->
                g[StableOrder([n \in 1..Len(g) |-> v[g[n]].time], LAMBDA a, b : a < b)[k]]]]

\* sortedDates: Object.keys(groupedVisits).sort().
SortedDates(v) == SetToSortSeq(DOMAIN GroupVisitsByDate(v), LAMBDA a, b : a < b)

\* The calendar tab: for each date of sortedDates, its group.
CalendarOrder(v) ==
    LET groups == GroupVisitsByDate(v)
        dates  == SortedDates(v)
    IN  FlattenSeq([k \in 1..Len(dates) |-> groups[dates[k]]])

MinutesPerDay == 24 * 60

(***************************************************************************)
(* formatDate(scheduled_date), dates being day numbers.  The string has no *)
(* space, so replace(" ", "T") leaves the date-only ISO form, which        *)
(* new Date() reads as midnight UTC; Intl.DateTimeFormat('pt-BR') without  *)
(* a timeZone prints the calendar day of that instant in the browser's     *)
(* zone.  (The "-" results, for an empty or unparsable string, do not      *)
(* arise for the dates of a response.)                                     *)
(***************************************************************************)
FormatDate(d) == (d * MinutesPerDay + UtcOffset) \div MinutesPerDay

\* The calendar tab's headings: formatDate(date) for each date of sortedDates.
CalendarHeadings(v) ==
    LET dates == SortedDates(v) IN [k \in 1..Len(dates) |-> FormatDate(dates[k])]

\* The list tab's day badge, formatDate(scheduled_date).split('/')[0], row by row.
ListDayBadges(v) ==
    LET order == ListOrder(v) IN [k \in 1..Len(order) |-> FormatDate(v[order[k]].date)]

-----------------------------------------------------------------------------
(* The time series.                                                        *)

(***************************************************************************)
(* TimeSeriesChart's own formatDate: new Date(dateStr).toLocaleDateString  *)
(* ('pt-BR', {day, month}).  It parses the date-only string as midnight    *)
(* UTC and prints the day in the browser's zone, as FormatDate does.       *)
(***************************************************************************)
TimeSeriesFormatDate(d) == (d * MinutesPerDay + UtcOffset) \div MinutesPerDay

\* The XAxis: dataKey "date" with tickFormatter={formatDate}, point by point.
AxisLabels(ts) == [k \in 1..Len(ts) |-> TimeSeriesFormatDate(ts[k])]

\* CustomTooltip's heading for the point at position k: formatDate(label).
TooltipDate(ts, k) == TimeSeriesFormatDate(ts[k])

-----------------------------------------------------------------------------
(* The funnel.                                                             *)

\* stageLabels: the display names of the configured stages.
StageLabels ==
    [landing_leads   |-> "Leads Captados",
     contacted       |-> "Contatados",
     qualified       |-> "Qualificados",
     visit_scheduled |-> "Visita Agendada",
     visit_completed |-> "Visita Realizada"]

\* formattedData's label: stageLabels[item.stage] || item.stage.
Label(s) == IF s \in DOMAIN StageLabels THEN StageLabels[s] ELSE s

(***************************************************************************)
(* The rows under the chart: formattedData.slice(1).map((item, index) =>   *)
(* formattedData[index].label -> item.label, calculateConversionRate(index *)
(* + 1)); row k is the step from stage k to stage k + 1.                   *)
(***************************************************************************)
ConversionRows(f) ==
    [k \in 1..Len(f) - 1 |->
        [from |-> Label(f[k].stage), to |-> Label(f[k + 1].stage),
         rate |-> ConversionRate(f, k + 1)]]

-----------------------------------------------------------------------------
(***************************************************************************)
(* A new response reaches a chart or the agenda; before the first one      *)
(* every view draws the `data?.x || []' fallback.  The transforms are pure *)
(* and each reads its own response only, so the harness holds one          *)
(* response at a time and clears the others: the states are the sum of     *)
(* the input sets, not their product.                                      *)
(***************************************************************************)
ReceiveNeighborhoods ==
    /\ \E s \in NeighborhoodInputs : neighborhoods' = s
    /\ visits' = <<>> /\ funnel' = <<>> /\ timeSeries' = <<>>

ReceiveVisits ==
    /\ \E v \in VisitInputs : visits' = v
    /\ neighborhoods' = <<>> /\ funnel' = <<>> /\ timeSeries' = <<>>

ReceiveFunnel ==
    /\ \E f \in FunnelInputs : funnel' = f
    /\ neighborhoods' = <<>> /\ visits' = <<>> /\ timeSeries' = <<>>

ReceiveTimeSeries ==
    /\ \E t \in TimeSeriesInputs : timeSeries' = t
    /\ neighborhoods' = <<>> /\ visits' = <<>> /\ funnel' = <<>>

Init ==
    /\ neighborhoods = <<>>
    /\ visits = <<>>
    /\ funnel = <<>>
    /\ timeSeries = <<>>

Next == ReceiveNeighborhoods \/ ReceiveVisits \/ ReceiveFunnel \/ ReceiveTimeSeries

Spec == Init /\ [][Next]_vars

-----------------------------------------------------------------------------

(* The chart draws exactly the spec's top neighborhoods: descending by    *)
(* count, ties in response order, cut to TopN, the largest at the top.    *)
TopMatchesReference == TopNeighborhoods(neighborhoods) = TopReference(neighborhoods)

(* The summary's leader figure is the largest count of the whole response *)
(* and the leader's bar has the strongest colour.                         *)
LeaderSummary ==
    LET top == TopNeighborhoods(neighborhoods) IN
    Len(neighborhoods) > 0 =>
        /\ \A i \in 1..Len(neighborhoods) : LeaderCount(neighborhoods, top) >= neighborhoods[i]
        /\ LeaderCount(neighborhoods, top) > 0 =>
               BarColor(LeaderCount(neighborhoods, top), MaxCount(neighborhoods, top)) = 0

(* The tooltip shares of the drawn bars add up to 100% up to the rounding *)
(* of toFixed(1), at most half a tenth per bar, whenever a drawn bar has a *)
(* lead: each share is of the top-10 total, not of the whole response.    *)
TopSharesSumTo100 ==
    LET top == TopNeighborhoods(neighborhoods)
        n   == Len(top)
        sum == FoldLeft(LAMBDA acc, k : acc + TopShare(neighborhoods, top, k), 0,
                        [k \in 1..n |-> k])
    IN  TopTotal(neighborhoods, top) > 0 => 2 * sum - 2000 \in -n..n

(* The calendar tab lists the visits in the same order as the list tab:   *)
(* by date, then time, ties in response order.                            *)
CalendarMatchesList == CalendarOrder(visits) = ListOrder(visits)

(* Every date the dashboard prints is the date the backend sent: the      *)
(* heading of a calendar group names the date the group was keyed by, a    *)
(* list row's day badge is its visit's scheduled day, and the time series' *)
(* ticks and tooltips name the day of each point.                          *)
DatesShownAsReceived ==
    /\ \A k \in 1..Len(SortedDates(visits)) :
          CalendarHeadings(visits)[k] = SortedDates(visits)[k]
    /\ \A k \in 1..Len(visits) :
          ListDayBadges(visits)[k] = visits[ListOrder(visits)[k]].date
    /\ \A k \in 1..Len(timeSeries) :
          AxisLabels(timeSeries)[k] = timeSeries[k] /\ TooltipDate(timeSeries, k) = timeSeries[k]

(* Spec section 4.3: the funnel shows one conversion row per pair of       *)
(* consecutive stages, from the earlier stage's label to the later one's,  *)
(* at the spec's rate, which is 0% (never NaN%) after an empty stage.      *)
ConversionRowsMatchSpec ==
    LET rows == ConversionRows(funnel) IN
    /\ Len(rows) = IF funnel = <<>> THEN 0 ELSE Len(funnel) - 1
    /\ \A k \in 1..Len(rows) :
          rows[k] = [from |-> Label(funnel[k].stage), to |-> Label(funnel[k + 1].stage),
                     rate |-> SpecRate(funnel[k + 1].count, funnel[k].count)]

=============================================================================
