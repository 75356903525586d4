------------------------ MODULE AnalyticsViewProofs ------------------------
(***************************************************************************)
(* Proofs about AnalyticsView for every value of MaxFetches.               *)
(***************************************************************************)
EXTENDS AnalyticsView, TLAPS

\* The fetch a tab click adds to `pending' has the type of a fetch.
LEMMA NewFetchType ==
    ASSUME TypeOK, NEW p \in Periods, issued < MaxFetches
    PROVE  [id |-> issued + 1, period |-> p] \in Fetch
BY MaxFetchesAssumption DEF TypeOK, Fetch

\* The mount state has the types of TypeOK.
LEMMA TypeInit == Init => TypeOK
<1> SUFFICES ASSUME Init PROVE TypeOK
  OBVIOUS
<1>1. [id |-> 1, period |-> "30d"] \in Fetch
  BY MaxFetchesAssumption DEF Fetch, Periods
<1>2. 1 \in 1..MaxFetches
  BY MaxFetchesAssumption
<1>3. QED
  BY <1>1, <1>2 DEF Init, TypeOK, Periods

\* Every step keeps the types of TypeOK.
LEMMA TypeStep == TypeOK /\ [Next]_vars => TypeOK'
<1> SUFFICES ASSUME TypeOK, [Next]_vars PROVE TypeOK'
  OBVIOUS
<1>1. ASSUME NEW p \in Periods, SelectPeriod(p) PROVE TypeOK'
  <2>1. issued < MaxFetches
    BY <1>1 DEF SelectPeriod, StartFetch
  <2>2. [id |-> issued + 1, period |-> p] \in Fetch
    BY <2>1, NewFetchType
  <2>3. pending' \subseteq Fetch
    BY <1>1, <2>2 DEF SelectPeriod, StartFetch, TypeOK
  <2>4. issued' \in 1..MaxFetches
    BY <1>1, <2>1, MaxFetchesAssumption DEF SelectPeriod, StartFetch, TypeOK
  <2>5. QED
    BY <1>1, <2>3, <2>4 DEF SelectPeriod, StartFetch, TypeOK
<1>2. ASSUME NEW f \in pending, FetchSucceeds(f) PROVE TypeOK'
  BY <1>2 DEF FetchSucceeds, TypeOK
<1>3. ASSUME NEW f \in pending, FetchFails(f) PROVE TypeOK'
  BY <1>3 DEF FetchFails, TypeOK
<1>4. CASE UNCHANGED vars
  BY <1>4 DEF vars, TypeOK
<1>5. QED
  BY <1>1, <1>2, <1>3, <1>4 DEF Next

(* Type correctness: every reachable state has the types of TypeOK. *)
THEOREM TypeCorrect == Spec => []TypeOK
BY TypeInit, TypeStep, PTL DEF Spec

(***************************************************************************)
(* The two loading-state invariants are inductive together with TypeOK.   *)
(* NoStuckSpinner needs the finally block of both settle paths;           *)
(* SettledShowsOutcome needs the resolve path to set data and the reject  *)
(* path to set the error, and NoData to differ from every fetch.           *)
(***************************************************************************)
IInv == TypeOK /\ NoStuckSpinner /\ SettledShowsOutcome

LEMMA IInvInit == Init => IInv
BY TypeInit DEF Init, IInv, NoStuckSpinner, SettledShowsOutcome

LEMMA IInvNext == IInv /\ [Next]_vars => IInv'
<1> SUFFICES ASSUME IInv, [Next]_vars PROVE IInv'
  OBVIOUS
<1>1. TypeOK'
  BY TypeStep DEF IInv
<1>2. ASSUME NEW p \in Periods, SelectPeriod(p)
      PROVE  NoStuckSpinner' /\ SettledShowsOutcome'
  BY <1>2 DEF SelectPeriod, StartFetch, NoStuckSpinner, SettledShowsOutcome
<1>3. ASSUME NEW f \in pending, FetchSucceeds(f)
      PROVE  NoStuckSpinner' /\ SettledShowsOutcome'
  <2>1. f \in Fetch
    BY <1>3 DEF IInv, TypeOK
  <2>2. data' # NoData
    BY <1>3, <2>1, NoDataAssumption DEF FetchSucceeds
  <2>3. QED
    BY <1>3, <2>2 DEF FetchSucceeds, NoStuckSpinner, SettledShowsOutcome
<1>4. ASSUME NEW f \in pending, FetchFails(f)
      PROVE  NoStuckSpinner' /\ SettledShowsOutcome'
  BY <1>4 DEF FetchFails, NoStuckSpinner, SettledShowsOutcome
<1>5. ASSUME UNCHANGED vars
      PROVE  NoStuckSpinner' /\ SettledShowsOutcome'
  BY <1>5 DEF IInv, vars, NoStuckSpinner, SettledShowsOutcome
<1>6. NoStuckSpinner' /\ SettledShowsOutcome'
  BY <1>2, <1>3, <1>4, <1>5 DEF Next
<1>7. QED
  BY <1>1, <1>6 DEF IInv

(* The analytics page never shows a spinner with no fetch in flight, and  *)
(* never shows an empty page after a load that failed.                    *)
THEOREM LoadingStateSafe == Spec => [](NoStuckSpinner /\ SettledShowsOutcome)
<1>1. IInv => NoStuckSpinner /\ SettledShowsOutcome
  BY DEF IInv
<1>2. QED
  BY IInvInit, IInvNext, <1>1, PTL DEF Spec


(***************************************************************************)
(* A failed analytics load is never shown as an empty page: in every       *)
(* reachable state, once loading is over without an error, some fetch's    *)
(* response is displayed.  The catch block of fetchAnalyticsData is what   *)
(* surfaces the failure.                                                   *)
(***************************************************************************)
THEOREM OutcomeShown == Spec => []SettledShowsOutcome
BY LoadingStateSafe, PTL

-----------------------------------------------------------------------------
(***************************************************************************)
(* Refinement of FetchedView.  The periods asked are the image of          *)
(* `pending' under the period of a fetch; settling one fetch removes its  *)
(* period from that image exactly when no other fetch in flight is for    *)
(* the same period.                                                        *)
(***************************************************************************)
Asked(P) == {x.period : x \in P}

LEMMA AskedRemove ==
    ASSUME NEW P, NEW f \in P
    PROVE  Asked(P \ {f}) \in {Asked(P), Asked(P) \ {f.period}}
<1>1. CASE \E y \in P \ {f} : y.period = f.period
  BY <1>1 DEF Asked
<1>2. CASE ~\E y \in P \ {f} : y.period = f.period
  <2>1. Asked(P \ {f}) = Asked(P) \ {f.period}
    BY <1>2 DEF Asked
  <2>2. QED
    BY <2>1
<1>3. QED
  BY <1>1, <1>2

\* Starting a fetch adds its period to the periods asked.
LEMMA AskedAdd ==
    ASSUME NEW P, NEW q
    PROVE  Asked(P \cup {q}) = Asked(P) \cup {q.period}
BY DEF Asked

\* The mount state is the fetched view's initial state.
LEMMA ViewInit == Init => View!Init
BY DEF Init, View!Init

(***************************************************************************)
(* Every step of the page is a step of the fetched view or leaves its      *)
(* variables unchanged: a tab click is Ask, a resolved fetch is Answer and *)
(* a rejected one is Fail, each for the period of the fetch.  The types   *)
(* of IInv give that period and that a fetch differs from NoData.         *)
(***************************************************************************)
LEMMA ViewStep == IInv /\ [Next]_vars => [View!Next]_View!vars
<1> SUFFICES ASSUME IInv, [Next]_vars PROVE [View!Next]_View!vars
  OBVIOUS
<1> USE DEF IInv, TypeOK
<1>1. ASSUME NEW p \in Periods, SelectPeriod(p) PROVE View!Ask(p)
  <2>1. Asked(pending') = Asked(pending) \cup {p}
    BY <1>1, AskedAdd DEF SelectPeriod, StartFetch
  <2>2. QED
    BY <1>1, <2>1 DEF SelectPeriod, StartFetch, View!Ask, Asked
<1>2. ASSUME NEW f \in pending, FetchSucceeds(f) PROVE View!Answer(f.period)
  <2>1. f \in Fetch /\ f # NoData
    BY NoDataAssumption
  <2>2. Asked(pending') \in {Asked(pending), Asked(pending) \ {f.period}}
    BY <1>2, AskedRemove DEF FetchSucceeds
  <2>3. f.period \in Asked(pending)
    BY DEF Asked
  <2>4. QED
    BY <1>2, <2>1, <2>2, <2>3 DEF FetchSucceeds, View!Answer, View!Settled, Asked
<1>3. ASSUME NEW f \in pending, FetchFails(f) PROVE View!Fail(f.period)
  <2>1. Asked(pending') \in {Asked(pending), Asked(pending) \ {f.period}}
    BY <1>3, AskedRemove DEF FetchFails
  <2>2. f.period \in Asked(pending)
    BY DEF Asked
  <2>3. QED
    BY <1>3, <2>1, <2>2 DEF FetchFails, View!Fail, View!Settled, Asked
<1>4. ASSUME NEW f \in pending PROVE f.period \in Periods
  BY DEF Fetch
<1>5. ASSUME NEW g \in Periods, View!Ask(g) \/ View!Answer(g) \/ View!Fail(g)
      PROVE  View!Next
  BY <1>5 DEF View!Next
<1>6. CASE \E p \in Periods : SelectPeriod(p)
  BY <1>6, <1>1, <1>5
<1>7. CASE \E f \in pending : FetchSucceeds(f) \/ FetchFails(f)
  <2>1. PICK f \in pending : FetchSucceeds(f) \/ FetchFails(f)
    BY <1>7
  <2>2. QED
    BY <2>1, <1>2, <1>3, <1>4, <1>5
<1>8. CASE UNCHANGED vars
  BY <1>8 DEF vars, View!vars
<1>9. QED
  BY <1>6, <1>7, <1>8 DEF Next

(***************************************************************************)
(* The analytics page implements the fetched view (its safety part):      *)
(* every behaviour of the page, seen through the mapping of               *)
(* AnalyticsView's View, is a behaviour of FetchedView, so a late        *)
(* success never clears the alert of a failed fetch.  That every fetch    *)
(* settles, the view's fairness, is checked by TLC only                   *)
(* (AnalyticsViewRefinement).                                              *)
(***************************************************************************)
THEOREM AnalyticsRefinesView == Spec => View!SafetySpec
BY IInvInit, IInvNext, ViewInit, ViewStep, PTL DEF Spec, View!SafetySpec

=============================================================================
