----------------------------- MODULE LeadsList -----------------------------
(***************************************************************************)
(* The leads table: LeadsContent (src/unnamed/part_006, lines 63-245).     *)
(*                                                                         *)
(* Typing in the search box re-arms a 500 ms timer (the effect on          *)
(* [search] clears the previous one); when it fires it copies the search   *)
(* into debouncedSearch and resets the page to 1.  Changing the status     *)
(* select also resets the page.  fetchLeads is memoised on [page,          *)
(* debouncedSearch, status] and an effect calls it whenever it changes, so *)
(* a fetch starts exactly when one of the three changes.  Fetches are not  *)
(* cancelled or ordered: each, when it settles, writes data or error and   *)
(* clears `loading'.  The page buttons are computed from the displayed     *)
(* response (data.total_pages).                                            *)
(*                                                                         *)
(* The backend is abstracted to the number of pages each filter has.      *)
(***************************************************************************)
EXTENDS Naturals, FiniteSets

CONSTANTS
    Searches,    \* search strings the user may type ("" included)
    Statuses,    \* status filter values ("" = all statuses)
    TotalPages,  \* TotalPages[<<search, status>>]: total_pages the backend returns
    MaxPages,    \* bound on TotalPages
    MaxFetches,  \* the user starts no fetch once this many were started
    MaxKeys,     \* bound on the number of keystrokes in one behaviour
    NoData       \* model value: `data' is still null

ASSUME LeadsConstantsAssumption ==
    /\ "" \in Searches
    /\ "" \in Statuses
    /\ MaxPages \in Nat \ {0}
    /\ TotalPages \in [Searches \X Statuses -> 0..MaxPages]
    /\ MaxFetches \in Nat \ {0}
    /\ MaxKeys \in Nat

VARIABLES
    search,           \* the text in the search box
    timer,            \* the debounce timer is armed
    debouncedSearch,  \* the search the fetch uses
    status,           \* the status select
    page,             \* the page state
    data,             \* the response displayed (the request it answered), or NoData
    loading,
    error,            \* error # null
    pending,          \* fetches started and not yet settled
    issued,           \* number of fetches started so far
    lastQuery,        \* the request of the latest fetch started (history)
    keys              \* number of keystrokes so far

vars == <<search, timer, debouncedSearch, status, page, data, loading, error,
          pending, issued, lastQuery, keys>>

Pages == 1..MaxPages

(* Fetches started by the debounce timer are bounded by the keystrokes    *)
(* (one per keystroke, one for the timer armed at mount).                 *)
MaxIds == MaxFetches + MaxKeys + 1

\* A fetch: apiClient.leads.getAll({page, page_size: 20, search, status}).
Request == [id : 1..MaxIds, search : Searches, status : Statuses, page : Pages]

ASSUME LeadsNoDataAssumption == NoData \notin Request

\* data.total_pages of a response.
Total(r) == TotalPages[<<r.search, r.status>>]

\* data.leads.length > 0: the page exists for that filter.
HasRows(r) == r.page <= Total(r)

TypeOK ==
    /\ search \in Searches
    /\ timer \in BOOLEAN
    /\ debouncedSearch \in Searches
    /\ status \in Statuses
    /\ page \in Pages
    /\ data \in Request \cup {NoData}
    /\ loading \in BOOLEAN
    /\ error \in BOOLEAN
    /\ pending \subseteq Request
    /\ issued \in 1..MaxIds
    /\ lastQuery \in Request
    /\ keys \in 0..MaxKeys

(***************************************************************************)
(* What the card renders (lines 148-170): the error with its retry button, *)
(* the loading text, the empty text, or the table; the pagination bar      *)
(* (lines 213-239) only under the table and when total_pages > 1.          *)
(***************************************************************************)
Shown ==
    CASE error                            -> "error"
      [] loading                          -> "loading"
      [] data = NoData \/ ~HasRows(data)  -> "empty"
      [] OTHER                            -> "table"

PagerShown == Shown = "table" /\ Total(data) > 1

(***************************************************************************)
(* fetchLeads up to its await: setLoading(true), setError(null), request.  *)
(***************************************************************************)
StartFetch(s, st, p) ==
    LET r == [id |-> issued + 1, search |-> s, status |-> st, page |-> p] IN
    /\ loading' = TRUE
    /\ error' = FALSE
    /\ pending' = pending \cup {r}
    /\ issued' = issued + 1
    /\ lastQuery' = r

\* The model's bound on the fetches the user starts.
UserBudget == issued < MaxFetches

(***************************************************************************)
(* The effect on [fetchLeads]: after the state changes to page p, search s *)
(* and status st, a fetch starts iff one of them changed.                  *)
(***************************************************************************)
FetchIfChanged(s, st, p) ==
    IF <<s, st, p>> # <<debouncedSearch, status, page>>
    THEN StartFetch(s, st, p)
    ELSE UNCHANGED <<loading, error, pending, issued, lastQuery>>

\* Mount: initial state, the debounce timer armed for "" and the first fetch.
Init ==
    LET r == [id |-> 1, search |-> "", status |-> "", page |-> 1] IN
    /\ search = ""
    /\ timer = TRUE
    /\ debouncedSearch = ""
    /\ status = ""
    /\ page = 1
    /\ data = NoData
    /\ loading = TRUE
    /\ error = FALSE
    /\ pending = {r}
    /\ issued = 1
    /\ lastQuery = r
    /\ keys = 0

(* Variant of Type whose debounce effect has an empty dependency list. *)
TypeNoRearm(s) ==
    /\ s # search
    /\ keys < MaxKeys
    /\ search' = s
    /\ keys' = keys + 1
    /\ UNCHANGED <<timer, debouncedSearch, status, page, data, loading, error,
                   pending, issued, lastQuery>>

\* A keystroke: setSearch; the effect on [search] clears and re-arms the timer.
Type(s) ==
    /\ s # search
    /\ keys < MaxKeys
    /\ search' = s
    /\ timer' = TRUE
    /\ keys' = keys + 1
    /\ UNCHANGED <<debouncedSearch, status, page, data, loading, error,
                   pending, issued, lastQuery>>

(* Variant of DebounceFires that keeps the page (no setPage(1)). *)
DebounceFiresKeepPage ==
    /\ timer
    /\ timer' = FALSE
    /\ debouncedSearch' = search
    /\ FetchIfChanged(search, status, page)
    /\ UNCHANGED <<keys, search, status, page, data>>

(***************************************************************************)
(* The timer fires: setDebouncedSearch(search) and setPage(1), batched     *)
(* into one render, then the fetch effect.                                 *)
(***************************************************************************)
DebounceFires ==
    /\ timer
    /\ timer' = FALSE
    /\ debouncedSearch' = search
    /\ page' = 1
    /\ FetchIfChanged(search, status, 1)
    /\ UNCHANGED <<keys, search, status, data>>

\* handleStatusChange: setStatus(value), setPage(1); the status changed, so a fetch.
ChangeStatus(st) ==
    /\ st # status
    /\ UserBudget
    /\ status' = st
    /\ page' = 1
    /\ StartFetch(debouncedSearch, st, 1)
    /\ UNCHANGED <<keys, search, timer, debouncedSearch, data>>

\* "Anterior": enabled under the table when page # 1 and not loading.
PrevPage ==
    /\ PagerShown
    /\ page # 1
    /\ ~loading
    /\ UserBudget
    /\ page' = IF page - 1 > 1 THEN page - 1 ELSE 1
    /\ StartFetch(debouncedSearch, status, page')
    /\ UNCHANGED <<keys, search, timer, debouncedSearch, status, data>>

(* Variant of NextPage without the Math.min clamp. *)
NextPageUnclamped ==
    /\ PagerShown
    /\ page # Total(data)
    /\ ~loading
    /\ UserBudget
    /\ page' = page + 1
    /\ StartFetch(debouncedSearch, status, page')
    /\ UNCHANGED <<keys, search, timer, debouncedSearch, status, data>>

(***************************************************************************)
(* "Próxima": enabled when page # data.total_pages and not loading; sets   *)
(* page to Math.min(data.total_pages, page + 1) of the displayed response. *)
(***************************************************************************)
NextPage ==
    /\ PagerShown
    /\ page # Total(data)
    /\ ~loading
    /\ UserBudget
    /\ page' = IF Total(data) < page + 1 THEN Total(data) ELSE page + 1
    /\ StartFetch(debouncedSearch, status, page')
    /\ UNCHANGED <<keys, search, timer, debouncedSearch, status, data>>

\* "Tentar novamente": calls the current fetchLeads directly.
Retry ==
    /\ error
    /\ UserBudget
    /\ StartFetch(debouncedSearch, status, page)
    /\ UNCHANGED <<keys, search, timer, debouncedSearch, status, page, data>>

\* The request resolves: setData(response), then setLoading(false).
FetchSucceeds(r) ==
    /\ r \in pending
    /\ data' = r
    /\ loading' = FALSE
    /\ pending' = pending \ {r}
    /\ UNCHANGED <<keys, search, timer, debouncedSearch, status, page, error,
                   issued, lastQuery>>

\* The request rejects: setError(message), then setLoading(false).
FetchFails(r) ==
    /\ r \in pending
    /\ error' = TRUE
    /\ loading' = FALSE
    /\ pending' = pending \ {r}
    /\ UNCHANGED <<keys, search, timer, debouncedSearch, status, page, data,
                   issued, lastQuery>>

Next ==
    \/ \E s \in Searches : Type(s)
    \/ DebounceFires
    \/ \E st \in Statuses : ChangeStatus(st)
    \/ PrevPage
    \/ NextPage
    \/ Retry
    \/ \E r \in pending : FetchSucceeds(r) \/ FetchFails(r)

(***************************************************************************)
(* The browser fires an armed timer and settles every request; the user is *)
(* not fair.                                                               *)
(***************************************************************************)
Spec ==
    /\ Init /\ [][Next]_vars
    /\ WF_vars(DebounceFires)
    /\ \A r \in Request : WF_vars(FetchSucceeds(r) \/ FetchFails(r))

-----------------------------------------------------------------------------
(***************************************************************************)
(* Properties.                                                             *)
(***************************************************************************)

(* A new filter starts on its first page: whenever a fetch is started for  *)
(* a search or status other than the previous fetch's, it asks for page 1 *)
(* (handleStatusChange and the debounce callback both call setPage(1),     *)
(* batched with the filter update, before the fetch effect runs).         *)
FirstPageOnNewFilter ==
    [][ issued' # issued
        /\ <<lastQuery'.search, lastQuery'.status>> # <<lastQuery.search, lastQuery.status>>
        => lastQuery'.page = 1 ]_vars

(* Typing always takes effect: once the user stops typing, the debounced  *)
(* search (the one the fetch uses) becomes the text in the box.           *)
SearchApplied == (search # debouncedSearch) ~> (search = debouncedSearch)

(* The pager clamps page to 1..data.total_pages and "Reset to first page  *)
(* on new search": the page state never points past the last page of the *)
(* filter it is fetched with (else the table is empty and the pager, which *)
(* is only drawn under a non-empty table, is gone).                        *)
PageInRange == page <= IF Total(lastQuery) > 1 THEN Total(lastQuery) ELSE 1

=============================================================================
