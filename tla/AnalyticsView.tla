--------------------------- MODULE AnalyticsView ---------------------------
(***************************************************************************)
(* The analytics page: AnalyticsContent                                    *)
(* (components/analytics/analytics-content.tsx) together with the period   *)
(* tabs of TimeSeriesChart (components/analytics/time-series-chart.tsx).   *)
(*                                                                         *)
(* Selecting a period starts fetchAnalyticsData, which sets the loading    *)
(* flag, clears the error and awaits Promise.all of four GET requests      *)
(* (time series for the period, funnel, sources, neighborhoods).  Nothing  *)
(* cancels or orders the fetches: each one, when it settles, writes data   *)
(* or error and then clears the loading flag in its finally block.  A      *)
(* fetch is one element of `pending' until it settles; settling is an      *)
(* action of its own, so fetches settle in any order.                      *)
(*                                                                         *)
(* The chart's own `period' state and the content's `period' state are     *)
(* assigned in the same click handler (time-series-chart.tsx:23-26) and   *)
(* start equal ('30d'), so one variable stands for both.                   *)
(***************************************************************************)
EXTENDS Naturals, FiniteSets

CONSTANTS
    MaxFetches,  \* bound on the number of fetches issued in one behaviour
    NoData       \* model value: `data' is still null

ASSUME MaxFetchesAssumption == MaxFetches \in Nat \ {0}

VARIABLES
    period,      \* the selected period ('7d' | '30d' | '90d')
    data,        \* the fetch whose response is displayed, or NoData
    isLoading,   \* the isLoading state
    error,       \* error # null
    pending,     \* fetches started and not yet settled
    issued       \* number of fetches started so far (their ids)

vars == <<period, data, isLoading, error, pending, issued>>

\* The periods the tabs offer.
Periods == {"7d", "30d", "90d"}

\* A fetch: its id (issue order) and the period it asked the time series for.
Fetch == [id : 1..MaxFetches, period : Periods]

ASSUME NoDataAssumption == NoData \notin Fetch

TypeOK ==
    /\ period \in Periods
    /\ data \in Fetch \cup {NoData}
    /\ isLoading \in BOOLEAN
    /\ error \in BOOLEAN
    /\ pending \subseteq Fetch
    /\ issued \in 1..MaxFetches

(***************************************************************************)
(* What each chart renders in its card (TimeSeriesChart, and likewise the  *)
(* funnel, source and neighborhood charts): its loading text while         *)
(* isLoading, the empty-state text when it got no data (the `data?.x ||    *)
(* []' fallback of the content) and the chart otherwise.                   *)
(***************************************************************************)
ChartShown ==
    CASE isLoading         -> "loading"
      [] data = NoData     -> "empty"
      [] OTHER             -> "charts"

\* The page: the error alert replaces the whole view (analytics-content.tsx:65-73).
Shown == IF error THEN "alert" ELSE ChartShown

(***************************************************************************)
(* The synchronous part of fetchAnalyticsData(selectedPeriod), up to its   *)
(* await: setIsLoading(true), setError(null) and the four requests.        *)
(***************************************************************************)
StartFetch(p) ==
    /\ issued < MaxFetches
    /\ isLoading' = TRUE
    /\ error' = FALSE
    /\ pending' = pending \cup {[id |-> issued + 1, period |-> p]}
    /\ issued' = issued + 1

\* Mount: the initial state and the mount effect fetching '30d'.
Init ==
    /\ period = "30d"
    /\ data = NoData
    /\ isLoading = TRUE
    /\ error = FALSE
    /\ pending = {[id |-> 1, period |-> "30d"]}
    /\ issued = 1

(***************************************************************************)
(* A click on another tab: handlePeriodChange sets both period states; the *)
(* effect on [period] then calls fetchAnalyticsData(period).  The tabs are *)
(* rendered only while there is no error.                                  *)
(***************************************************************************)
SelectPeriod(p) ==
    /\ ~error
    /\ p # period
    /\ period' = p
    /\ StartFetch(p)
    /\ UNCHANGED data

(* Variant of FetchSucceeds whose finally block is missing. *)
FetchSucceedsKeepsLoading(f) ==
    /\ f \in pending
    /\ data' = f
    /\ pending' = pending \ {f}
    /\ UNCHANGED <<period, isLoading, error, issued>>

(* Variant of FetchSucceeds that also clears the error. *)
FetchSucceedsClearsError(f) ==
    /\ f \in pending
    /\ data' = f
    /\ isLoading' = FALSE
    /\ error' = FALSE
    /\ pending' = pending \ {f}
    /\ UNCHANGED <<period, issued>>

\* All four requests resolve: setData(...) and, in finally, setIsLoading(false).
FetchSucceeds(f) ==
    /\ f \in pending
    /\ data' = f
    /\ isLoading' = FALSE
    /\ pending' = pending \ {f}
    /\ UNCHANGED <<period, error, issued>>

(* Variant of FetchFails with setIsLoading(false) in the try block. *)
FetchFailsKeepsLoading(f) ==
    /\ f \in pending
    /\ error' = TRUE
    /\ pending' = pending \ {f}
    /\ UNCHANGED <<period, data, isLoading, issued>>

(* Variant of FetchFails that only logs the error. *)
FetchFailsSilently(f) ==
    /\ f \in pending
    /\ isLoading' = FALSE
    /\ pending' = pending \ {f}
    /\ UNCHANGED <<period, data, error, issued>>

\* One request rejects, so Promise.all rejects: setError(...), setIsLoading(false).
FetchFails(f) ==
    /\ f \in pending
    /\ error' = TRUE
    /\ isLoading' = FALSE
    /\ pending' = pending \ {f}
    /\ UNCHANGED <<period, data, issued>>

Next ==
    \/ \E p \in Periods : SelectPeriod(p)
    \/ \E f \in pending : FetchSucceeds(f) \/ FetchFails(f)

(***************************************************************************)
(* Every fetch eventually settles: the browser resolves or rejects it.     *)
(* The user is not fair: a tab need never be clicked.                      *)
(***************************************************************************)
Spec ==
    /\ Init /\ [][Next]_vars
    /\ \A f \in Fetch : WF_vars(FetchSucceeds(f) \/ FetchFails(f))

(***************************************************************************)
(* The page seen as a FetchedView: the filter is the selected period, the *)
(* answer shown is the period of the fetch whose response is displayed,   *)
(* the filters asked are the periods of the fetches in flight, and the    *)
(* error alert is the reported failure.                                   *)
(***************************************************************************)
View == INSTANCE FetchedView
            WITH Filters <- Periods, Initial <- "30d", ReportsFailure <- TRUE,
                 filter <- period,
                 shown <- IF data = NoData THEN NoData ELSE data.period,
                 loading <- isLoading,
                 failed <- error,
                 asked <- {f.period : f \in pending}

-----------------------------------------------------------------------------
(***************************************************************************)
(* Properties.                                                             *)
(***************************************************************************)

(* No stuck spinner: once every started fetch has settled, the charts are  *)
(* no longer "loading".  Needs the finally block on both the resolve and   *)
(* the reject path of fetchAnalyticsData.                                  *)
NoStuckSpinner == pending = {} => ~isLoading

(* A failed load is never shown as an empty page: when loading is over and *)
(* no error is shown, some fetch's response is displayed (the catch block  *)
(* of fetchAnalyticsData must surface the failure).                        *)
SettledShowsOutcome == (~isLoading /\ ~error) => data # NoData

(* Loading always ends: while the page shows its loading state, some fetch *)
(* eventually settles and clears isLoading, whatever the user clicks.      *)
LoadingEnds == isLoading ~> ~isLoading

(* The page keeps the promises of a fetched view: a tab click shows the    *)
(* loading state, a settling fetch ends it, an answer (possibly for a     *)
(* period since left) replaces the charts, a failure shows the alert, and *)
(* the alert stays even if an older fetch then succeeds; every fetch      *)
(* settles.                                                                *)
AnalyticsViewRefinement == View!Spec

(* Spec section 5: a stale, slower response must not overwrite newer       *)
(* state.  When the charts are shown they are those of the selected tab.   *)
LatestResponseShown == Shown = "charts" => data.period = period

(* Spec section 7: a failure is surfaced with a manual "try again" action. *)
(* From the error alert some user step leads out of the error.            *)
ErrorRecoverable == error => ENABLED (Next /\ ~error')

=============================================================================
