------------------------- MODULE VisitsListProofs --------------------------
(***************************************************************************)
(* Proofs about VisitsList for every set of statuses and every bound on    *)
(* the requests the user starts.                                           *)
(***************************************************************************)
EXTENDS VisitsList, TLAPS

(* The bound on requests is a positive number (VisitsConstantsAssumption, *)
(* restated without the "" filter value, which the SMT backend rejects).  *)
LEMMA MaxFetchesPositive == MaxFetches \in Nat \ {0}
BY VisitsConstantsAssumption

\* A request a status change or a retry adds to `pending' has the type of a request.
LEMMA NewRequestType ==
    ASSUME TypeOK, NEW st \in Statuses, issued < MaxFetches
    PROVE  /\ [id |-> issued + 1, status |-> st] \in Request
           /\ issued + 1 \in 1..MaxFetches
BY MaxFetchesPositive DEF TypeOK, Request

\* The mount state has the types of TypeOK.
LEMMA TypeInit == Init => TypeOK
<1> SUFFICES ASSUME Init PROVE TypeOK
  OBVIOUS
<1>1. "" \in Statuses
  BY VisitsConstantsAssumption
<1>2. 1 \in 1..MaxFetches
  BY MaxFetchesPositive
<1>3. [id |-> 1, status |-> ""] \in Request
  BY <1>1, <1>2, Zenon DEF Request
<1>4. QED
  BY <1>1, <1>2, <1>3, Zenon DEF Init, TypeOK

(***************************************************************************)
(* StartFetch, the synchronous part of fetchVisits shared by a status      *)
(* change and a retry, keeps the types of TypeOK.                          *)
(***************************************************************************)
LEMMA StartFetchType ==
    ASSUME TypeOK, NEW st \in Statuses, StartFetch(st)
    PROVE  /\ loading' \in BOOLEAN /\ error' \in BOOLEAN
           /\ pending' \subseteq Request
           /\ issued' \in 1..MaxFetches
<1>1. issued < MaxFetches
  BY DEF StartFetch
<1>2. QED
  BY <1>1, NewRequestType DEF StartFetch, TypeOK

\* Every step keeps the types of TypeOK.
LEMMA TypeStep == TypeOK /\ [Next]_vars => TypeOK'
<1> SUFFICES ASSUME TypeOK, [Next]_vars PROVE TypeOK'
  OBVIOUS
<1>1. ASSUME NEW st \in Statuses, ChangeStatus(st) PROVE TypeOK'
  BY <1>1, StartFetchType DEF ChangeStatus, TypeOK
<1>2. CASE Retry
  BY <1>2, StartFetchType DEF Retry, TypeOK
<1>3. ASSUME NEW r \in pending, FetchSucceeds(r) PROVE TypeOK'
  BY <1>3 DEF FetchSucceeds, TypeOK
<1>4. ASSUME NEW r \in pending, FetchFails(r) PROVE TypeOK'
  BY <1>4 DEF FetchFails, TypeOK
<1>5. CASE UNCHANGED vars
  BY <1>5 DEF vars, TypeOK
<1>6. QED
  BY <1>1, <1>2, <1>3, <1>4, <1>5 DEF Next

(***************************************************************************)
(* VisitsSettledShowsOutcome is inductive together with TypeOK: both       *)
(* ways of starting a request set `loading', a resolved request sets       *)
(* `data' to a response, which TypeOK and VisitsNoDataAssumption make      *)
(* differ from NoData, and a rejected one sets `error'.                    *)
(***************************************************************************)
IInv == TypeOK /\ VisitsSettledShowsOutcome

LEMMA IInvInit == Init => IInv
BY TypeInit DEF Init, IInv, VisitsSettledShowsOutcome

LEMMA IInvNext == IInv /\ [Next]_vars => IInv'
<1> SUFFICES ASSUME IInv, [Next]_vars PROVE IInv'
  OBVIOUS
<1>1. TypeOK'
  BY TypeStep DEF IInv
<1>2. ASSUME NEW st \in Statuses, ChangeStatus(st) PROVE VisitsSettledShowsOutcome'
  BY <1>2 DEF ChangeStatus, StartFetch, VisitsSettledShowsOutcome
<1>3. Retry => VisitsSettledShowsOutcome'
  BY DEF Retry, StartFetch, VisitsSettledShowsOutcome
<1>4. ASSUME NEW r \in pending, FetchSucceeds(r) PROVE VisitsSettledShowsOutcome'
  <2>1. r \in Request
    BY <1>4 DEF IInv, TypeOK
  <2>2. data' # NoData
    BY <1>4, <2>1, VisitsNoDataAssumption DEF FetchSucceeds
  <2>3. QED
    BY <2>2 DEF VisitsSettledShowsOutcome
<1>5. ASSUME NEW r \in pending, FetchFails(r) PROVE VisitsSettledShowsOutcome'
  BY <1>5 DEF FetchFails, VisitsSettledShowsOutcome
<1>6. UNCHANGED vars => VisitsSettledShowsOutcome'
  BY DEF vars, IInv, VisitsSettledShowsOutcome
<1>7. QED
  BY <1>1, <1>2, <1>3, <1>4, <1>5, <1>6 DEF Next, IInv

(***************************************************************************)
(* Type correctness of the visits agenda: every reachable state has the    *)
(* types of TypeOK.                                                        *)
(***************************************************************************)
THEOREM VisitsTypeCorrect == Spec => []TypeOK
BY TypeInit, TypeStep, PTL DEF Spec

(***************************************************************************)
(* A failed load of the visits is never shown as "Nenhuma visita           *)
(* encontrada": whatever the order in which the requests of several status *)
(* changes and retries settle, once loading is over without an error some  *)
(* response is shown.                                                      *)
(***************************************************************************)
THEOREM VisitsOutcomeSafe == Spec => []VisitsSettledShowsOutcome
<1>1. IInv => VisitsSettledShowsOutcome
  BY DEF IInv
<1>2. QED
  BY IInvInit, IInvNext, <1>1, PTL DEF Spec

-----------------------------------------------------------------------------
(***************************************************************************)
(* Refinement of FetchedView.  The filters asked are the image of          *)
(* `pending' under the status of a request; settling one request removes  *)
(* its status from that image exactly when no other request in flight has *)
(* the same status.                                                        *)
(***************************************************************************)
Asked(P) == {x.status : x \in P}

LEMMA AskedRemove ==
    ASSUME NEW P, NEW r \in P
    PROVE  Asked(P \ {r}) \in {Asked(P), Asked(P) \ {r.status}}
<1>1. CASE \E y \in P \ {r} : y.status = r.status
  <2>1. Asked(P \ {r}) = Asked(P)
    BY <1>1 DEF Asked
  <2>2. QED
    BY <2>1
<1>2. CASE ~\E y \in P \ {r} : y.status = r.status
  <2>1. Asked(P \ {r}) = Asked(P) \ {r.status}
    BY <1>2 DEF Asked
  <2>2. QED
    BY <2>1
<1>3. QED
  BY <1>1, <1>2

\* Issuing a request adds its status to the filters asked.
LEMMA AskedAdd ==
    ASSUME NEW P, NEW q
    PROVE  Asked(P \cup {q}) = Asked(P) \cup {q.status}
BY DEF Asked

\* The mount state is the fetched view's initial state.
LEMMA ViewInit == Init => View!Init
<1> SUFFICES ASSUME Init PROVE View!Init
  OBVIOUS
<1> DEFINE q == [id |-> 1, status |-> ""]
<1>1. pending = {q} /\ q.status = ""
  BY Zenon DEF Init
<1> HIDE DEF q
<1>2. {r.status : r \in {q}} = {q.status}
  OBVIOUS
<1>3. {r.status : r \in pending} = {""}
  BY <1>1, <1>2, Zenon
<1>4. QED
  BY <1>3, Zenon DEF Init, View!Init

(***************************************************************************)
(* Every step of the agenda is a step of the fetched view or leaves its    *)
(* variables unchanged: a status change and a retry are Ask, a success is *)
(* Answer and a failure is Fail, each for the status of its request.  The *)
(* types of IInv give that status and that a response differs from        *)
(* NoData.                                                                 *)
(***************************************************************************)
LEMMA ViewStep == IInv /\ [Next]_vars => [View!Next]_View!vars
<1> SUFFICES ASSUME IInv, [Next]_vars PROVE [View!Next]_View!vars
  OBVIOUS
<1> USE DEF IInv, TypeOK
<1>1. ASSUME NEW st \in Statuses, ChangeStatus(st) PROVE View!Ask(st)
  <2>1. Asked(pending') = Asked(pending) \cup {st}
    BY <1>1, AskedAdd DEF ChangeStatus, StartFetch
  <2>2. QED
    BY <1>1, <2>1 DEF ChangeStatus, StartFetch, View!Ask, Asked
<1>2. ASSUME NEW st \in Statuses, st = status, Retry PROVE View!Ask(st)
  <2>1. Asked(pending') = Asked(pending) \cup {st}
    BY <1>2, AskedAdd DEF Retry, StartFetch
  <2>2. QED
    BY <1>2, <2>1 DEF Retry, StartFetch, View!Ask, Asked
<1>3. ASSUME NEW r \in pending, FetchSucceeds(r) PROVE View!Answer(r.status)
  <2>1. r \in Request /\ r # NoData
    BY VisitsNoDataAssumption
  <2>2. Asked(pending') \in {Asked(pending), Asked(pending) \ {r.status}}
    BY <1>3, AskedRemove DEF FetchSucceeds
  <2>3. r.status \in Asked(pending)
    BY DEF Asked
  <2>4. QED
    BY <1>3, <2>1, <2>2, <2>3 DEF FetchSucceeds, View!Answer, View!Settled, Asked
<1>4. ASSUME NEW r \in pending, FetchFails(r) PROVE View!Fail(r.status)
  <2>1. Asked(pending') \in {Asked(pending), Asked(pending) \ {r.status}}
    BY <1>4, AskedRemove DEF FetchFails
  <2>2. r.status \in Asked(pending)
    BY DEF Asked
  <2>3. QED
    BY <1>4, <2>1, <2>2 DEF FetchFails, View!Fail, View!Settled, Asked
<1>5. ASSUME NEW r \in pending PROVE r.status \in Statuses
  BY DEF Request
<1>6. CASE UNCHANGED vars
  BY <1>6 DEF vars, View!vars
<1>7. ASSUME NEW f \in Statuses, View!Ask(f) \/ View!Answer(f) \/ View!Fail(f)
      PROVE  View!Next
  BY <1>7 DEF View!Next
<1>8. CASE \E st \in Statuses : ChangeStatus(st)
  BY <1>8, <1>1, <1>7
<1>9. CASE Retry
  <2>1. PICK st \in Statuses : st = status
    OBVIOUS
  <2>2. QED
    BY <1>9, <1>2, <1>7, <2>1
<1>10. CASE \E r \in pending : FetchSucceeds(r) \/ FetchFails(r)
  <2>1. PICK r \in pending : FetchSucceeds(r) \/ FetchFails(r)
    BY <1>10
  <2>2. QED
    BY <2>1, <1>3, <1>4, <1>5, <1>7
<1>11. QED
  BY <1>6, <1>8, <1>9, <1>10 DEF Next

(***************************************************************************)
(* The visits agenda implements the fetched view (its safety part): every *)
(* behaviour of the agenda, seen through the mapping of VisitsList's View, *)
(* is a behaviour of FetchedView.  That the view's requests all settle, its *)
(* fairness, is checked by TLC only (VisitsViewRefinement).               *)
(***************************************************************************)
THEOREM VisitsRefinesView == Spec => View!SafetySpec
BY IInvInit, IInvNext, ViewInit, ViewStep, PTL DEF Spec, View!SafetySpec

=============================================================================
