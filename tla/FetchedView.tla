----------------------------- MODULE FetchedView -----------------------------
(***************************************************************************)
(* What a view that shows the answer to a filtered read request promises  *)
(* (spec sections 6 and 7): selecting another filter issues a request for *)
(* it and shows the loading state; a request that settles ends the        *)
(* loading state and either shows its answer or, where the view reports   *)
(* failures, the error, which stays until the user asks again.  Requests  *)
(* are neither cancelled nor ordered, so an answer may be for a filter    *)
(* the user has since left: `asked' holds the filters with a request in   *)
(* flight, and any of them may answer next.  The user asks again for the  *)
(* same filter only through the retry of a reported failure.              *)
(***************************************************************************)
CONSTANTS
    Filters,         \* the values the filter control can take
    Initial,         \* the filter at mount, requested at once
    NoData,          \* nothing shown yet
    ReportsFailure   \* TRUE: a failed request shows an error

VARIABLES
    filter,   \* the filter the control shows
    shown,    \* the filter whose answer is shown, or NoData
    loading,
    failed,   \* an error is shown
    asked     \* filters with a request in flight

vars == <<filter, shown, loading, failed, asked>>

TypeOK ==
    /\ filter \in Filters
    /\ shown \in Filters \cup {NoData}
    /\ loading \in BOOLEAN
    /\ failed \in BOOLEAN
    /\ asked \subseteq Filters

Init ==
    /\ filter = Initial
    /\ shown = NoData
    /\ loading = TRUE
    /\ failed = FALSE
    /\ asked = {Initial}

\* Another filter, or the retry of a reported failure, issues a request.
Ask(f) ==
    /\ f # filter \/ failed
    /\ filter' = f
    /\ loading' = TRUE
    /\ failed' = FALSE
    /\ asked' = asked \cup {f}
    /\ UNCHANGED shown

\* Whether other requests for f are still in flight.
Settled(f) == asked' \in {asked, asked \ {f}}

\* A request for f answers: its answer is shown.
Answer(f) ==
    /\ f \in asked
    /\ Settled(f)
    /\ shown' = f
    /\ loading' = FALSE
    /\ UNCHANGED <<filter, failed>>

\* A request for f fails: the error is shown if the view reports failures.
Fail(f) ==
    /\ f \in asked
    /\ Settled(f)
    /\ failed' = (failed \/ ReportsFailure)
    /\ loading' = FALSE
    /\ UNCHANGED <<filter, shown>>

Next == \E f \in Filters : Ask(f) \/ Answer(f) \/ Fail(f)

SafetySpec == Init /\ [][Next]_vars

\* A filter with a request in flight is eventually answered or failed.
Spec == SafetySpec /\ \A f \in Filters : WF_vars(Answer(f) \/ Fail(f))

=============================================================================
