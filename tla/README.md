# Formal models of the VisitAImovel dashboard

This directory holds TLA+ models of the client-side state machines of the
Next.js dashboard in `src/visitaimovel-dashboard` (and of the components
whose sources ended up in `src/unnamed/part_*`), the TLC configurations that
check them, and TLAPS proofs of their main safety properties.

## The system

The dashboard is a set of React client components that each fetch from a
REST backend (`apiClient`, `brokersApi`) and render what they got. There is
no shared client store: every page component owns its `useState` variables
and its fetches. What makes them worth modelling is that each component can
have **several fetches in flight at once** (a new one starts whenever a
filter, a period or a page changes, and on retry), that **nothing orders or
cancels them**, and that each one, when it settles, writes the component
state and clears the loading flag in a `finally` block. The order in which
responses settle is up to the network.

| Part | Source | What changes state |
|---|---|---|
| Analytics page | `components/analytics/analytics-content.tsx`, `time-series-chart.tsx` | period tabs, `fetchAnalyticsData` (Promise.all of four GETs) |
| Leads table | `src/unnamed/part_006` lines 63-245 (`LeadsContent`) | search box + 500 ms debounce timer, status select, pager, retry, `fetchLeads` |
| Brokers admin | `app/brokers/page.tsx`, `src/unnamed/part_006` lines 246-380 (`BrokerFormDialog`), `components/ui/dialog.tsx` | list load, add/edit dialog, save, delete |
| Broker ranking | `components/broker-stats.tsx` | period buttons, `loadRanking` |
| Visits agenda | `components/leads/lead-detail-skeleton.tsx` lines 80-363 (`VisitsContent`) | status select, list/calendar tab, `fetchVisits`, retry |
| Dashboard metrics | `src/unnamed/part_005` (`DashboardContent`) | one fetch at mount |
| Chart transforms | `funnel-chart.tsx`, `neighborhood-bar-chart.tsx`, `time-series-chart.tsx`, `src/unnamed/part_001` (source pie) | none (pure functions of the props) |
| Lead detail | `components/leads/lead-detail-content.tsx` | none: an async server component |
| Webhook relay, REST API | `src/api/README_*.md` | only documented; their code is not in the repository |

## Modules

### `AnalyticsView` (analytics page) — `MCAnalyticsView`, `AnalyticsViewProofs`

State: `period` (the selected tab; the chart's own period state is set in
the same click handler and starts equal, so one variable stands for both),
`data` (the fetch whose response is shown, or the model value `NoData`),
`isLoading`, `error` (whether an error is set), `pending` (fetches started
and not settled, each a record of its id and period) and `issued`.

Actions: `SelectPeriod(p)` is a tab click followed by the effect on
`[period]`, which runs the synchronous part of `fetchAnalyticsData`
(`StartFetch`); the tabs exist only while no error is shown. `FetchSucceeds(f)`
and `FetchFails(f)` are the settling of one pending fetch: the `try`/`catch`
body and then the `finally`. Responses carry only their period: the four
payloads are abstracted to the fetch that produced them. `Shown` is what the
page draws (the alert, or the charts' own choice `ChartShown` between
"Carregando dados...", "Nenhum dado disponível" and the charts, from
`TimeSeriesChart`'s `isLoading` and `data.length === 0` branches).

### `LeadsList` (leads table) — `MCLeadsList`, `LeadsListProofs`

State: `search` (the text box), `timer` (the debounce timer is armed),
`debouncedSearch`, `status`, `page`, `data` (the request whose response is
shown), `loading`, `error`, `pending`, `issued`; two history variables,
`lastQuery` (the request of the latest fetch) and `keys` (keystrokes so far).
The backend is abstracted to `TotalPages`, the number of pages each
(search, status) filter has; a response has rows iff its page is within it.

Actions: `Type(s)` (setSearch; the effect on `[search]` clears and re-arms
the timer), `DebounceFires` (setDebouncedSearch and setPage(1), batched into
one render, then the effect on `[fetchLeads]` fetches iff the query
changed), `ChangeStatus(st)` (setStatus and setPage(1)), `PrevPage` and
`NextPage` (the pager, drawn only under a non-empty table with
`total_pages > 1`, computing the new page from the *displayed* response),
`Retry` (the "Tentar novamente" button), `FetchSucceeds(r)`, `FetchFails(r)`.

### `BrokersAdmin` (brokers page, form dialog, modal) — `MCBrokersAdmin`, `BrokersAdminProofs`

State of the page: `list` (the `brokers` state, a function from ids to a
broker or `Absent`), `loading`, `dialogOpen`, `selected` (`selectedBroker`),
and the requests in flight: `loads` (list requests), `deletes`, `save`.
State of the dialog, which stays mounted while closed: `form` (the name
field standing for the four fields), `saving` (its `loading`), `formError`.
The backend store `db` is modelled from the spec, because its code is not in
the repository: a list request reads it when it reaches the backend
(`ServeLoad`), a delete deactivates the broker (`ApplyDelete`, a soft delete),
and an update or create writes it (`ApplySave`). Each request reaches the
backend and its response reaches the page in separate steps, and either may
be lost, so a write can take effect while the page sees the failure.

`BrokerStore` is the abstract specification of that store, written from spec
sections 6 and 7: its only steps are `Create(i, v)` under a free id,
`Rename(i, v)` of a stored broker and `Deactivate(i)`, with a non-empty name.
`BrokersAdmin` instantiates it with `db` for `db` (`Store == INSTANCE
BrokerStore`), and `BrokersAdminProofs` proves `Spec => Store!Spec`: every
write the page causes, in any interleaving with lost requests and answers,
is one of those operations.

Actions of the page: `OpenAdd`, `OpenEdit(b)`, and `StartDelete(b)` (after
the `confirm()`); the table and its buttons exist only when the list is not
loading. `LoadSucceeds`/`LoadFails` are `loadBrokers` settling; its failure
is only logged. `DeleteSucceeds` (which calls `loadBrokers` without awaiting
it) and `DeleteFails` (an `alert`) settle a delete. Actions of the dialog:
`EditField`, `Submit` (the browser refuses a submit while a `required`
field is empty, and the button is disabled while saving), `Cancel`
(disabled while saving), `SaveSucceeds` (`onSuccess`, which reloads the list,
then `onOpenChange(false)`) and `SaveFails` (`setError`). The overlay
(`components/ui/dialog.tsx`) covers the page, and its backdrop `onClick` is
unreachable because the `inset-0` content wrapper lies above it. That stops
only the mouse. The dialog has no focus trap, so the page's Add, Edit and
Delete buttons stay reachable with Tab and Enter while it is open.
`OpenAdd`, `OpenEdit(b)` and `StartDelete(b)` are therefore not guarded by
`~dialogOpen`. In particular a keyboard Edit during a save retargets the
open dialog to another broker, and the old save's answer then closes it.

### `FetchedView` (abstract fetched view)

The promise a view fed by filtered read requests makes (spec sections 6
and 7), with no code of its own. Its variables are `filter`, `shown` (the
filter whose answer is shown, or `NoData`), `loading`, `failed` and `asked`
(the filters with a request in flight). Its actions:
* `Ask(f)`: another filter, or the retry of a reported failure, issues a
  request and shows the loading state.
* `Answer(f)`: a request for a filter in `asked` settles and its answer is
  shown, even if the user has since left that filter.
* `Fail(f)`: the same, but the answer is not shown, and the error is shown
  only if `ReportsFailure`. An error stays until the next `Ask`.
`Spec` adds weak fairness on settling each filter. `AnalyticsView`
and `VisitsList` each define `View == INSTANCE FetchedView WITH ...`, mapping
`asked` to the set of filters of their `pending` requests.

### `BrokerRanking` (ranking card) — `MCBrokerRanking`, `BrokerRankingProofs`

`period`, `ranking` (the period whose ranking is shown), `loading`,
`pending`, `issued`. `SelectPeriod(p)` is a click on another period
followed by the effect's `loadRanking`. `RankingArrives` replaces the
ranking; `RankingFails` only logs. Both clear `loading`.

### `VisitsList` (visits agenda) — `MCVisitsList`, `VisitsListProofs`

`status`, `data`, `loading`, `error`, `pending`, `issued`. The actions are
`ChangeStatus(st)` (the memoised `fetchVisits` changes, so the effect
fetches), `Retry` (the error branch's button), `FetchSucceeds` and
`FetchFails`. The list/calendar tab only changes the drawing and is the
subject of `ViewTransforms`. In `View`, the status is the filter, the
status of the request whose visits are shown is `shown`, `error` is
`failed` and `ReportsFailure` is `TRUE`.

### `ViewTransforms` (pure transforms) — `MCViewTransforms`; `FunnelRates`, `FunnelRatesProofs`

The transforms the views apply to a response, written as operators:
`TopNeighborhoods` (`[...data].sort(...).slice(0, 10).reverse()`),
`MaxCount`, `BarColor` (`getBarColor` in integer arithmetic), `LeaderCount`
(the summary's leader), `ListOrder` (the list tab's sort),
`GroupVisitsByDate`, `SortedDates` and `CalendarOrder` (the calendar tab),
`TopTotal` and `TopShare` (the neighborhood tooltip's "Do Top 10" share),
`FormatDate`, `CalendarHeadings` and `ListDayBadges` (the agenda's dates),
`TimeSeriesFormatDate`, `AxisLabels` and `TooltipDate` (the time series),
and `Label`, `ConversionRate` and `ConversionRows` (the funnel; its
tooltip's `findIndex` lookup is not modelled). `ConversionRate` (`calculateConversionRate`) and its reference
`SpecRate` sit in their own module `FunnelRates`, which `ViewTransforms`
extends. This keeps them away from the recursive operators of
`SequencesExt`, so that `FunnelRatesProofs` can prove them.
`Array.prototype.sort` is stable, so a sort by a key is `StableOrder`: a
sort by the key, then by the position in the input. The state is one
response of each kind, all empty at first (the `data?.x || []` fallback).
Each `Receive...` action sets one of them to any input of up to `MaxItems`
entries and clears the others: the transforms are pure and each reads only
its own response, so the states are the sum of the input sets rather than
their product, and every small input is still reached.

Numbers keep what the code does to them. `toFixed(1)` percentages are
integers of tenths, rounded half up; `''` and NaN are the model values
`NoRate` and `NotARate`. A date is a day number. `new Date("YYYY-MM-DD")`
is midnight UTC and `Intl.DateTimeFormat` prints it in the browser's zone,
so the day printed is `(d * 1440 + UtcOffset) \div 1440`, with `UtcOffset`
the zone's offset in minutes. Each operator is checked against a reference definition written
from the spec (`TopReference` uses ranks, and `CalendarMatchesList` compares
the calendar with the list tab).

## Runs

| Run | Config | Expect | Checks |
|---|---|---|---|
| analytics | `AnalyticsView.cfg` | pass | `NoStuckSpinner`, `SettledShowsOutcome`, `LoadingEnds`, `AnalyticsViewRefinement` |
| analytics_stale | `AnalyticsStale.cfg` | violation | `LatestResponseShown` |
| analytics_error_stuck | `AnalyticsErrorStuck.cfg` | violation | `ErrorRecoverable` |
| leads | `LeadsList.cfg` | pass | `TypeOK`, `FirstPageOnNewFilter`, `SearchApplied` |
| leads_page_range | `LeadsPageRange.cfg` | violation | `PageInRange` |
| brokers | `BrokersAdmin.cfg` | pass | `SaveKeepsDialogOpen`, `NoBlankBroker`, `ListLoadingEnds` |
| brokers_empty_list | `BrokersEmptyList.cfg` | violation | `EmptyMeansNoBrokers` |
| brokers_dialog_form | `BrokersDialogForm.cfg` | violation | `DialogOpensClean` |
| ranking | `BrokerRanking.cfg` | pass | `RankingLoadingEnds` |
| visits | `VisitsList.cfg` | pass | `VisitsSettledShowsOutcome`, `VisitsViewRefinement` |
| transforms | `ViewTransforms.cfg` | pass | `TopMatchesReference`, `LeaderSummary`, `TopSharesSumTo100`, `CalendarMatchesList`, `ConversionRowsMatchSpec` |
| date_shift | `DateShift.cfg` | violation | `DatesShownAsReceived` |

What they show:

* **analytics**: up to four fetches may settle in any order. Whatever the
  order, the page never shows the spinner once nothing is in flight. It never
  shows an empty page after a failed load, because the catch block surfaces
  the failure. And it always leaves the loading state.
  `AnalyticsViewRefinement` (`View!Spec`) checks that the page implements a
  fetched view that reports failures: a late success never clears the
  alert. Its mutant clears the error on a success.
* **analytics_stale** (finding): the user switches from 30d to 7d while the
  mount fetch is in flight. The mount's 30d fetch then settles while the 7d
  fetch is still pending: its `setData` shows the 30-day charts and its
  `finally` clears `isLoading`, so the 30-day charts are shown as final
  under the 7d tab. (A slower 30d fetch settling after the 7d one would
  overwrite the 7d charts the same way.) Spec section 5 requires that a
  stale response never overwrite newer state.
* **analytics_error_stuck** (finding): after a failure, the alert replaces
  the whole view, tabs included, and nothing clears `error`. The page is stuck
  until reloaded, while spec section 7 promises a manual "try again".
* **leads**: the run covers every interleaving of typing, debounce firing,
  status changes, paging, retries and out-of-order responses. In all of them:
  * every fetch for a new filter asks for page 1 (`FirstPageOnNewFilter`, an
    action property over consecutive fetches);
  * the typed search is eventually the one fetched (`SearchApplied`).
* **leads_page_range** (finding): the user changes the status while the
  mount fetch (3 pages) is in flight, and the old response is shown.
  "Próxima" clamps to that response's `total_pages`, so the page becomes 2
  for a filter with one page. The table is then empty and the pager is gone.
* **brokers**: the run covers deletes, adds, edits, cancels and list reloads
  in any interleaving, with requests and responses lost. Add, Edit and
  Delete are also taken while the dialog is open, as the keyboard allows.
  In all of them:
  * a save in flight keeps the dialog open with `saving` set, so Cancel and
    the submit button stay disabled until its answer
    (`SaveKeepsDialogOpen`). The broker the dialog shows may change
    meanwhile: TLC reaches a keyboard Edit during a save, after which the
    old save's answer closes the dialog on the other broker. No spec
    statement says which dialog an answer may close, so this is recorded as
    a hazard rather than a finding;
  * the backend never stores a broker without a name, because the
    `required` inputs guard update as well as create;
  * the list always leaves "Carregando...".
* **brokers_empty_list** (finding): the mount load fails, and the page shows
  "Nenhum corretor cadastrado ainda" over a non-empty backend. The failure is
  only logged, against spec section 7.
* **brokers_dialog_form** (finding): `BrokerFormDialog` reads its `broker`
  prop only in `useState`'s initializer and is never unmounted. As a result,
  "Editar" opens with empty fields (or with the last text typed), and a
  submit would overwrite the broker with them.
* **ranking**: whatever the order in which the requests of several period
  clicks settle, the ranking card leaves "Carregando...".
* **visits**: with status changes, retries and out-of-order responses, a
  failed load is never shown as "Nenhuma visita encontrada".
  `VisitsViewRefinement` (`View!Spec`) checks that the agenda implements a
  fetched view that reports failures. In particular an error stays until
  the user asks again, even when an older request then succeeds. Its
  mutant clears the error on a success.
* **transforms**: the check covers every response of up to four
  neighborhoods with counts 0..3, up to four visits over two dates and two
  times, and every funnel of up to three distinct stages (two with labels,
  one without) with counts 0..3. For all of them:
  * the chart draws exactly the spec's top-N, descending with ties in
    response order;
  * the summary's leader is the largest count, and its bar has the strongest
    colour;
  * the tooltip shares of the drawn bars add up to 100% within the rounding
    of `toFixed(1)`, because they are shares of the top-N total
    (`TopSharesSumTo100`);
  * the calendar tab lists the visits in the list tab's order;
  * the funnel has one conversion row per pair of consecutive stages, at the
    spec's rate to the nearest tenth, and 0% (not NaN%) after an empty stage;

  Ties are frequent at these sizes, which is where a sort goes wrong.
* **date_shift** (finding): in a browser at UTC-3 (Brasília, `MCUtcOffset`),
  `formatDate` in `VisitsContent` parses the date-only `scheduled_date` as
  midnight UTC and prints it in local time. So every calendar heading and
  list day badge shows the day before the visit's date. `TimeSeriesChart`'s
  `formatDate` does the same to every axis tick and tooltip.

The same stale-response race exists in `BrokerStats` (a period click during
a request) and in `VisitsContent` (a status change during a request). It is
listed as a hazard of each, but not run again: the three violation runs
above show it on the same code shape. For the same reason the brokers page's
version (a post-save reload overtaken by the slow mount load) has no run of
its own.

### Bounds

* `MCAnalyticsView`: at most 4 fetches (`MaxFetches`). With three periods,
  this lets two tab changes overlap the mount fetch and a third settle in
  between.
* `MCLeadsList`:
  * two searches (`""`, `"ana"`) and two statuses (`""`, `"novo"`);
  * filters with 3, 2, 1 and 0 pages, so paging, clamping, the empty table
    and a filter without a pager all occur;
  * at most 5 user-started fetches and 3 keystrokes.
* `MCBrokersAdmin`:
  * two ids: one broker at mount and one free id for a create;
  * three field values, the empty one included;
  * at most 3 deletes and saves. That allows a save and a delete to overlap
    a reload, and a second save after a failed one.
* `MCBrokerRanking` and `MCVisitsList`: at most 4 requests, enough for two
  to be in flight while a third settles.
* `MCViewTransforms`: `TopN` is 2 (the code's 10, scaled to the input
  size), so with 4 entries the cut-off falls inside a group of ties, and
  neighborhoods are left out of the top-N total. Counts 0..3 give shares and
  rates that need rounding (1/3, 2/3) and zero totals.

The request bounds guard only the user's actions: settling, the debounce
timer and the backend are never bounded. So the liveness properties are not
cut off by a bound.

### Fairness

Weak fairness is assumed on the settling of every request: the browser
resolves or rejects every fetch, and a fetch hanging forever is outside the
model. In `BrokersAdmin`, it is also assumed on the backend serving each
request. In `LeadsList`, it is assumed on the debounce timer firing:
`setTimeout` fires once armed, and the user, who types at most `MaxKeys`
times, stops re-arming it. The user has no fairness, so no click is ever
assumed to happen. The runs of the page components set `CHECK_DEADLOCK
FALSE`, because the page really stops: once every request has settled and
the user does nothing, no step is enabled.

## Proofs

`AnalyticsViewProofs` proves, for every value of `MaxFetches`:

* `TypeCorrect`: `Spec => []TypeOK`, from `TypeInit` and `TypeStep`.
* `LoadingStateSafe`: `Spec => [](NoStuckSpinner /\ SettledShowsOutcome)`.
  Neither invariant is inductive alone, but `IInv == TypeOK /\
  NoStuckSpinner /\ SettledShowsOutcome` is. Why each part is needed:
  * `TypeOK` gives that a settled fetch is a record, and so differs from
    `NoData` (assumption `NoDataAssumption`). `FetchSucceeds` needs this for
    `SettledShowsOutcome`.
  * `StartFetch` sets the loading flag while adding to `pending`, and both
    settle paths clear it.

`BrokersAdminProofs` proves `SaveDialogSafe`: `Spec => [](SaveKeepsDialogOpen /\
NoBlankBroker)`. It holds for every set of ids and values, every operation
bound, and every initial store without a blank name
(`BrokersStoreAssumption`, which also says `NoReq` is not a save request).
The inductive invariant `IInv` adds three parts:

* `TypeP`: the types without `TypeOK`'s bounds, which would need a count of
  the requests in flight.
* `KnownExist`: every id the page holds is still in the store. That covers
  the rows of the list, the rows of each snapshot on its way back, each
  delete's target, the broker the dialog edits and, separately, the broker
  the save in flight writes. The last is a conjunct of its own because a
  keyboard Edit during a save can retarget the dialog, so the save's target
  need not be the dialog's broker. Without `KnownExist`, an update or a soft
  delete could write to a missing broker, leaving a record without a name
  in the store.
* `SaveValueNamed`: the save in flight carries a non-empty name.

`KnownExist` is preserved for three reasons:
* the store only ever deactivates or adds a broker;
* every id of the page comes from a snapshot of the store;
* the only actions that take an id (`OpenEdit`, `StartDelete`) take a listed
  one.

`BrokersAdminProofs` also proves `StoreRefined`: `Spec => Store!Spec`. No
run checks this property: its only code-side guards are the ones
`KnownExist` rests on, and the store's own actions are modelled from the
spec.
The initial store is `BrokerStore`'s initial store. For the steps, three
lemmas cover the actions:
* `PageStepsKeepDb`: every action other than `ApplyDelete` and `ApplySave`
  leaves `db` unchanged, a stutter of the store.
* `ApplyDeleteRefines`: `ApplyDelete` is `Store!Deactivate` of its target,
  which `KnownExist` says is stored.
* `ApplySaveRefines`: `ApplySave` is `Store!Create` under a free id when
  the dialog has no broker (`NoBroker`, which is not an id), and
  `Store!Rename` otherwise. `KnownExist` makes the broker stored and
  `SaveValueNamed` makes the name non-empty.
The theorem combines them with the same inductive invariant `IInv`.

`BrokersAdminProofs` also states the corollary `NoBlankBrokerAlways`
(`Spec => []NoBlankBroker`), and `AnalyticsViewProofs` states
`OutcomeShown` (`Spec => []SettledShowsOutcome`), so each invariant the runs
check has a theorem of its own.

`VisitsListProofs` proves `VisitsTypeCorrect` and `VisitsOutcomeSafe`
(`Spec => []VisitsSettledShowsOutcome`) for every set of statuses and every
request bound. `TypeOK /\ VisitsSettledShowsOutcome` is inductive:
* a status change and a retry both set `loading`;
* a resolved request shows a response, which differs from `NoData` by
  `VisitsNoDataAssumption`;
* a rejected request sets `error`.

`LeadsListProofs` proves two theorems for every filter set, every page
count per filter and every bound on fetches and keystrokes:
* `LeadsTypeCorrect`: `Spec => []TypeOK`. `TypeOK` alone is not inductive,
  because a debounce fire starts a fetch outside the user's budget, so
  nothing local bounds the ids. The strengthening `IssuedBound`
  (`issued + [timer armed] <= MaxFetches + keys + 1`) counts why they stay
  within `MaxIds`: every debounce fetch spends a timer, and only a keystroke
  (or the mount) arms one.
* `FirstPageOnNewFilterHolds`: `Spec => FirstPageOnNewFilter`, the action
  property. It rests on `QueryMatchesState`: the latest fetch's search,
  status and page are the current `debouncedSearch`, `status` and `page`.
  With it, the pager and the retry button provably keep the filter, and only
  the debounce callback and `handleStatusChange` change it. Both reset the
  page in the same render.
TLC checked `IssuedBound` and `QueryMatchesState` as invariants of the
`leads` run (200,676 states) before they were proved.

`AnalyticsViewProofs` and `VisitsListProofs` prove the refinement of
`FetchedView`: `AnalyticsRefinesView` and `VisitsRefinesView`, each
`Spec => View!SafetySpec`. `BrokerRankingProofs` proves
`RankingTypeCorrect`. The proofs go step by step:
* `ViewInit`: the mount state maps to `FetchedView`'s `Init`. Its one
  request in flight gives `asked = {Initial}`.
* `ViewStep`: every step maps to a step of `FetchedView` or a stutter.
  - A status change, a retry and a tab click are `Ask`.
  - A success is `Answer` and a failure is `Fail`, each for the filter of
    its request.
  - `AskedAdd` and `AskedRemove` are the lemmas on the image of `pending`.
    Settling a request removes its filter from `asked` exactly when no
    other request in flight has that filter.
* The step needs the types. A request in flight has a filter in the set,
  and (in `AnalyticsView` and `VisitsList`) a response differs from
  `NoData`. So the page's and the agenda's proofs use their `IInv`.
The fairness part of `View!Spec` is TLC-checked only.

`FunnelRatesProofs` proves `ConversionRateIsSpecRate`: for every funnel
and every stage after the first whose counts are natural numbers,
`ConversionRate` equals `SpecRate`. That is 0 after an empty stage, and
otherwise the ratio times 100 to the nearest tenth, halves up. The
transforms run checks this for counts 0..3 only. The argument:
* `DivBounds` gives the bounds of integer division.
* `RoundedQuotient` shows the code's quotient `(2000 * cur + prev) \div
  (2 * prev)` meets both bounds of `SpecRate`, and that the bounds leave an
  interval of width one, so the `CHOOSE` can pick nothing else.
The model's rounding is exact half-up, so the theorem says nothing about
binary floating point, where a quotient on an exact half can round the
other way.

The empty field value is a constant, `Empty`, rather than the literal `""`,
because the SMT backend of tlapm 1.4.5 rejects an obligation that contains
the empty string. For the same reason, the proofs of `LeadsList` and
`VisitsList`, whose filter sets contain `""`, restate the numeric parts of
their constant assumptions as lemmas (`LeadsBounds`, `MaxFetchesPositive`).
The steps that do need `""` go to Zenon.

Only model-checked:
* the liveness properties (`LoadingEnds`, `SearchApplied`,
  `ListLoadingEnds`, `RankingLoadingEnds`), because TLAPS does not reason
  about fairness and `ENABLED` here;
* the fairness conjunct of `AnalyticsViewRefinement` and
  `VisitsViewRefinement`, for the same reason. Their safety part is
  proved;
* `ErrorRecoverable` (the `analytics_error_stuck` violation), which is
  stated with `ENABLED`;
* `ViewTransforms` apart from the funnel rate. Its operators sort and fold
  sequences through `SequencesExt`, which declares RECURSIVE operators that
  a module with theorems may not reach. What a sort or a fold returns for
  every input would also need induction over data, which the provers cannot
  instantiate. So `TopMatchesReference`, `LeaderSummary`,
  `TopSharesSumTo100` and `CalendarMatchesList` stay
  model-checked. `ConversionRowsMatchSpec` is model-checked as a whole, and
  its arithmetic core is proved by `ConversionRateIsSpecRate`.

## Plan

Done: `AnalyticsView`, `LeadsList`, `BrokersAdmin`, `BrokerRanking`,
`VisitsList`, `ViewTransforms` (with the funnel, the time series' dates and
the agenda's dates), `BrokerStore` with the refinement, `FunnelRates`,
`FetchedView` with the refinements from `AnalyticsView` and `VisitsList`,
and the proofs above. Next:

1. a refinement of `FetchedView` from `LeadsList`, whose page and search
   make the filter a record and whose debounce timer delays the request;
2. `DashboardContent` (a single fetch at mount; only its error branch is of
   interest).

## Not modelled

* The webhook relay and the REST backend: there is no code in the
  repository. The broker store is modelled from the spec, in `BrokerStore`
  and inside `BrokersAdmin`.
* The lead detail page: a server component with no client state. Its one
  doubtful display (a `bedrooms` of 0 renders a bare "0", a `min_price` of
  0 reads "Sem mínimo") is listed as a hazard. Neither the spec nor a comment
  says what should be shown, so there is no statement to check.
* The theme toggle: the resolved system theme lives in `next-themes`,
  outside the repository.
* Error boundaries, layout and skeletons: rendering only.
* Formatting that no property tells apart (`formatPhone`, currency, the
  source pie's labels and its 5% label threshold). The date formatting is
  modelled, because the dates it prints are wrong.
* The source pie's percentages, which the backend computes.
