----------------------------- MODULE VisitsList -----------------------------
(***************************************************************************)
(* The visits agenda: VisitsContent (components/leads/lead-detail-         *)
(* skeleton.tsx, lines 143-363).                                           *)
(*                                                                         *)
(* fetchVisits is memoised on [status] and an effect calls it whenever it  *)
(* changes; it sets loading, clears the error and awaits the visits with   *)
(* that status, then writes data or error and clears loading.  The status  *)
(* select sits in the card header and stays usable in every branch; the    *)
(* error branch has a retry button calling the current fetchVisits.  The   *)
(* list/calendar tab only chooses how the same data is drawn and is left   *)
(* out (the grouping it draws is the subject of VisitsAgenda).  A response *)
(* is abstracted to the request that produced it.                          *)
(***************************************************************************)
EXTENDS Naturals

CONSTANTS
    Statuses,    \* status filter values ("" = all)
    MaxFetches,  \* bound on the requests the user starts
    NoData       \* model value: `data' is still null

ASSUME VisitsConstantsAssumption ==
    /\ "" \in Statuses
    /\ MaxFetches \in Nat \ {0}

VARIABLES
    status,    \* the status select
    data,      \* the request whose response is shown, or NoData
    loading,
    error,     \* error # null
    pending,   \* requests in flight
    issued     \* requests started so far

vars == <<status, data, loading, error, pending, issued>>

\* apiClient.visits.getAll({status}).
Request == [id : 1..MaxFetches, status : Statuses]

ASSUME VisitsNoDataAssumption == NoData \notin Request

TypeOK ==
    /\ status \in Statuses
    /\ data \in Request \cup {NoData}
    /\ loading \in BOOLEAN
    /\ error \in BOOLEAN
    /\ pending \subseteq Request
    /\ issued \in 1..MaxFetches

\* The card body: error and retry, "Carregando visitas...", or the visits.
Shown ==
    CASE error          -> "error"
      [] loading        -> "loading"
      [] data = NoData  -> "empty"
      [] OTHER          -> "visits"

(***************************************************************************)
(* fetchVisits up to its await: setLoading(true), setError(null), request. *)
(***************************************************************************)
StartFetch(st) ==
    /\ issued < MaxFetches
    /\ loading' = TRUE
    /\ error' = FALSE
    /\ pending' = pending \cup {[id |-> issued + 1, status |-> st]}
    /\ issued' = issued + 1

\* Mount: status "" and the effect's first request.
Init ==
    /\ status = ""
    /\ data = NoData
    /\ loading = TRUE
    /\ error = FALSE
    /\ pending = {[id |-> 1, status |-> ""]}
    /\ issued = 1

\* handleStatusChange: setStatus(value); fetchVisits changes, so the effect fetches.
ChangeStatus(st) ==
    /\ st # status
    /\ status' = st
    /\ StartFetch(st)
    /\ UNCHANGED data

\* "Tentar novamente": the current fetchVisits.
Retry ==
    /\ error
    /\ StartFetch(status)
    /\ UNCHANGED <<status, data>>

(* Variant of FetchSucceeds that also clears the error. *)
FetchSucceedsClearsError(r) ==
    /\ r \in pending
    /\ data' = r
    /\ loading' = FALSE
    /\ error' = FALSE
    /\ pending' = pending \ {r}
    /\ UNCHANGED <<status, issued>>

\* The request resolves: setData(response), finally setLoading(false).
FetchSucceeds(r) ==
    /\ r \in pending
    /\ data' = r
    /\ loading' = FALSE
    /\ pending' = pending \ {r}
    /\ UNCHANGED <<status, error, issued>>

(* Variant of FetchFails whose catch block only clears loading. *)
FetchFailsSilently(r) ==
    /\ r \in pending
    /\ loading' = FALSE
    /\ pending' = pending \ {r}
    /\ UNCHANGED <<status, data, error, issued>>

\* The request rejects: setError(message), finally setLoading(false).
FetchFails(r) ==
    /\ r \in pending
    /\ error' = TRUE
    /\ loading' = FALSE
    /\ pending' = pending \ {r}
    /\ UNCHANGED <<status, data, issued>>

Next ==
    \/ \E st \in Statuses : ChangeStatus(st)
    \/ Retry
    \/ \E r \in pending : FetchSucceeds(r) \/ FetchFails(r)

\* Every request settles; the user need not act.
Spec ==
    /\ Init /\ [][Next]_vars
    /\ \A r \in Request : WF_vars(FetchSucceeds(r) \/ FetchFails(r))

(***************************************************************************)
(* The agenda seen as a FetchedView: the filter is the status select, the  *)
(* answer shown is the status of the request whose visits are shown, and   *)
(* the filters asked are the statuses of the requests in flight.  The     *)
(* agenda reports failures.                                                *)
(***************************************************************************)
View == INSTANCE FetchedView
            WITH Filters <- Statuses, Initial <- "", ReportsFailure <- TRUE,
                 filter <- status,
                 shown <- IF data = NoData THEN NoData ELSE data.status,
                 failed <- error,
                 asked <- {r.status : r \in pending}

-----------------------------------------------------------------------------

(* A failed load is never shown as "Nenhuma visita encontrada": once      *)
(* loading is over without an error, some response is shown.              *)
VisitsSettledShowsOutcome == (~loading /\ ~error) => data # NoData

(* The agenda keeps the promises of a fetched view: a status change or a  *)
(* retry after an error shows the loading state, a settling request ends  *)
(* it, an answer (possibly for a status since left) replaces the list, a   *)
(* failure shows the error, and the error stays until the user asks again *)
(* even if an older request then succeeds; every request settles.         *)
VisitsViewRefinement == View!Spec

=============================================================================
