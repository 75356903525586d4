---------------------------- MODULE BrokerRanking ---------------------------
(***************************************************************************)
(* The performance ranking card of the brokers page: BrokerStats           *)
(* (components/broker-stats.tsx).                                          *)
(*                                                                         *)
(* A period button sets `period'; the effect on [period] calls             *)
(* loadRanking, which reads `period' from the render it was created in,    *)
(* sets loading and awaits brokersApi.ranking(period).  On success it      *)
(* replaces the ranking, on failure it only logs, and in both cases it     *)
(* clears loading.  Requests are neither cancelled nor ordered, and the    *)
(* buttons stay clickable while one is in flight.  A ranking is abstracted *)
(* to the period it was computed for; the backend has no broker with       *)
(* visits in the periods of EmptyPeriods.                                  *)
(***************************************************************************)
EXTENDS Naturals

CONSTANTS
    EmptyPeriods,  \* periods whose ranking the backend returns empty
    MaxFetches,    \* bound on the requests the user starts
    NoData         \* model value: `ranking' is still []

Periods == {"7d", "30d", "90d"}

ASSUME RankingConstantsAssumption ==
    /\ EmptyPeriods \subseteq Periods
    /\ MaxFetches \in Nat \ {0}
    /\ NoData \notin Periods

VARIABLES
    period,    \* the highlighted period button
    ranking,   \* the period of the ranking shown, or NoData
    loading,
    pending,   \* requests in flight: [id, period]
    issued     \* requests started so far

vars == <<period, ranking, loading, pending, issued>>

Request == [id : 1..MaxFetches, period : Periods]

TypeOK ==
    /\ period \in Periods
    /\ ranking \in Periods \cup {NoData}
    /\ loading \in BOOLEAN
    /\ pending \subseteq Request
    /\ issued \in 1..MaxFetches

\* The card: "Carregando...", "Nenhum corretor com visitas no período" or the top five.
Shown ==
    CASE loading                                    -> "loading"
      [] ranking = NoData \/ ranking \in EmptyPeriods -> "empty"
      [] OTHER                                      -> "ranking"

\* Mount: period '30d', loading, and the effect's first request.
Init ==
    /\ period = "30d"
    /\ ranking = NoData
    /\ loading = TRUE
    /\ pending = {[id |-> 1, period |-> "30d"]}
    /\ issued = 1

(***************************************************************************)
(* A click on another period: setPeriod(p), then the effect's loadRanking: *)
(* setLoading(true) and the request.  A click on the highlighted button    *)
(* sets the same value and renders nothing new.                            *)
(***************************************************************************)
SelectPeriod(p) ==
    /\ p # period
    /\ issued < MaxFetches
    /\ period' = p
    /\ loading' = TRUE
    /\ pending' = pending \cup {[id |-> issued + 1, period |-> p]}
    /\ issued' = issued + 1
    /\ UNCHANGED ranking

(* Variant of RankingArrives without the finally block. *)
RankingArrivesKeepsLoading(r) ==
    /\ r \in pending
    /\ ranking' = r.period
    /\ pending' = pending \ {r}
    /\ UNCHANGED <<period, loading, issued>>

\* The request resolves: setRanking(response.data), finally setLoading(false).
RankingArrives(r) ==
    /\ r \in pending
    /\ ranking' = r.period
    /\ loading' = FALSE
    /\ pending' = pending \ {r}
    /\ UNCHANGED <<period, issued>>

\* The request rejects: console.error, finally setLoading(false).
RankingFails(r) ==
    /\ r \in pending
    /\ loading' = FALSE
    /\ pending' = pending \ {r}
    /\ UNCHANGED <<period, ranking, issued>>

Next ==
    \/ \E p \in Periods : SelectPeriod(p)
    \/ \E r \in pending : RankingArrives(r) \/ RankingFails(r)

\* Every request settles; the user need not click.
Spec ==
    /\ Init /\ [][Next]_vars
    /\ \A r \in Request : WF_vars(RankingArrives(r) \/ RankingFails(r))

-----------------------------------------------------------------------------

(* The card leaves "Carregando..." whatever the order in which the        *)
(* requests of several period clicks settle.                              *)
RankingLoadingEnds == loading ~> ~loading

=============================================================================
