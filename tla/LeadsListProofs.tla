-------------------------- MODULE LeadsListProofs --------------------------
(***************************************************************************)
(* Proofs about LeadsList for every set of searches and statuses, every    *)
(* page count the backend may return and every bound on fetches and       *)
(* keystrokes.                                                             *)
(***************************************************************************)
EXTENDS LeadsList, TLAPS

(* LeadsConstantsAssumption without the "" filter values, which the SMT    *)
(* backend rejects: the bounds are numbers and TotalPages a page count per *)
(* filter.                                                                 *)
LEMMA LeadsBounds ==
    /\ MaxPages \in Nat \ {0}
    /\ TotalPages \in [Searches \X Statuses -> 0..MaxPages]
    /\ MaxFetches \in Nat \ {0}
    /\ MaxKeys \in Nat
BY LeadsConstantsAssumption

(***************************************************************************)
(* TypeOK is not inductive: a debounce fire starts a fetch without the     *)
(* user's budget, so `issued' stays within MaxIds only because every such  *)
(* fetch spends an armed timer, and every timer is armed by a keystroke    *)
(* (or at mount).  IssuedBound counts this.                                *)
(***************************************************************************)
IssuedBound == issued + (IF timer THEN 1 ELSE 0) <= MaxFetches + keys + 1

(***************************************************************************)
(* The latest fetch asked for the current filter and page: the fetch       *)
(* effect runs after every change of page, debouncedSearch or status, and  *)
(* nothing else changes them.                                              *)
(***************************************************************************)
QueryMatchesState ==
    /\ lastQuery.search = debouncedSearch
    /\ lastQuery.status = status
    /\ lastQuery.page = page

IInv == TypeOK /\ IssuedBound /\ QueryMatchesState

-----------------------------------------------------------------------------

\* What StartFetch does to the types, given room for one more request id.
LEMMA StartFetchType ==
    ASSUME TypeOK, NEW s \in Searches, NEW st \in Statuses, NEW p \in Pages,
           issued + 1 <= MaxIds, StartFetch(s, st, p)
    PROVE  /\ lastQuery' = [id |-> issued + 1, search |-> s, status |-> st, page |-> p]
           /\ lastQuery' \in Request
           /\ pending' \subseteq Request
           /\ issued' = issued + 1 /\ issued' \in 1..MaxIds
           /\ loading' \in BOOLEAN /\ error' \in BOOLEAN
<1> DEFINE r == [id |-> issued + 1, search |-> s, status |-> st, page |-> p]
<1>1. issued + 1 \in 1..MaxIds
  BY DEF TypeOK
<1>2. r \in Request
  BY <1>1 DEF Request
<1>3. lastQuery' = r /\ pending' = pending \cup {r} /\ issued' = issued + 1
      /\ loading' = TRUE /\ error' = FALSE
  BY DEF StartFetch
<1>4. pending' \subseteq Request
  BY <1>2, <1>3 DEF TypeOK
<1>5. QED
  BY <1>1, <1>2, <1>3, <1>4, Zenon

\* The pager is drawn only under a response with more than one page.
LEMMA PagerShownData ==
    ASSUME TypeOK, PagerShown
    PROVE  data \in Request /\ Total(data) \in 2..MaxPages
<1>1. data # NoData
  BY DEF PagerShown, Shown
<1>2. data \in Request
  BY <1>1 DEF TypeOK
<1>3. Total(data) \in 0..MaxPages
  BY <1>2, LeadsBounds DEF Total, Request
<1>4. QED
  BY <1>2, <1>3 DEF PagerShown

\* The mount state satisfies the inductive invariant.
LEMMA IInvInit == Init => IInv
<1> SUFFICES ASSUME Init PROVE IInv
  OBVIOUS
<1>1. "" \in Searches /\ "" \in Statuses
  BY LeadsConstantsAssumption
<1>2. 1 \in Pages /\ 1 \in 1..MaxIds /\ 0 \in 0..MaxKeys
  BY LeadsBounds DEF Pages, MaxIds
<1>3. [id |-> 1, search |-> "", status |-> "", page |-> 1] \in Request
  BY <1>1, <1>2, Zenon DEF Request
<1>4. TypeOK
  BY <1>1, <1>2, <1>3, Zenon DEF Init, TypeOK
<1>5. issued = 1 /\ timer /\ keys = 0
  BY Zenon DEF Init
<1>6. IssuedBound
  BY <1>5, LeadsBounds DEF IssuedBound
<1>7. QED
  BY <1>4, <1>6, Zenon DEF Init, IInv, QueryMatchesState

\* A fetch the user starts: ChangeStatus, PrevPage, NextPage and Retry.
LEMMA UserFetchStep ==
    ASSUME IInv, NEW s \in Searches, NEW st \in Statuses, NEW p \in Pages,
           UserBudget, StartFetch(s, st, p),
           UNCHANGED <<keys, search, timer>>,
           debouncedSearch' = s, status' = st, page' = p, UNCHANGED data
    PROVE  IInv'
<1>1. issued + 1 <= MaxFetches
  BY LeadsBounds DEF UserBudget, IInv, TypeOK
<1>2. issued + 1 <= MaxIds
  BY <1>1, LeadsBounds DEF IInv, TypeOK, MaxIds
<1>3. /\ lastQuery' = [id |-> issued + 1, search |-> s, status |-> st, page |-> p]
      /\ lastQuery' \in Request /\ pending' \subseteq Request
      /\ issued' = issued + 1 /\ issued' \in 1..MaxIds
      /\ loading' \in BOOLEAN /\ error' \in BOOLEAN
  BY <1>2, StartFetchType DEF IInv
<1>4. TypeOK'
  BY <1>3 DEF IInv, TypeOK
<1>5. IssuedBound'
  BY <1>1, <1>3, LeadsBounds DEF IInv, TypeOK, IssuedBound
<1>6. QueryMatchesState'
  BY <1>3 DEF QueryMatchesState
<1>7. QED
  BY <1>4, <1>5, <1>6 DEF IInv

LEMMA IInvNext == IInv /\ [Next]_vars => IInv'
<1> SUFFICES ASSUME IInv, [Next]_vars PROVE IInv'
  OBVIOUS
<1>1. ASSUME NEW s \in Searches, Type(s) PROVE IInv'
  <2>1. TypeOK'
    BY <1>1, LeadsBounds DEF Type, IInv, TypeOK
  <2>2. IssuedBound'
    BY <1>1, LeadsBounds DEF Type, IInv, TypeOK, IssuedBound
  <2>3. QED
    BY <1>1, <2>1, <2>2 DEF Type, IInv, QueryMatchesState
<1>2. CASE DebounceFires
  <2>1. timer /\ timer' = FALSE /\ debouncedSearch' = search /\ page' = 1
        /\ UNCHANGED <<keys, search, status, data>>
    BY <1>2 DEF DebounceFires
  <2>2. issued + 1 <= MaxIds
    BY <2>1, LeadsBounds DEF IInv, TypeOK, IssuedBound, MaxIds
  <2>3. CASE <<search, status, 1>> # <<debouncedSearch, status, page>>
    <3>1. StartFetch(search, status, 1)
      BY <1>2, <2>3 DEF DebounceFires, FetchIfChanged
    <3>2. 1 \in Pages
      BY LeadsBounds DEF Pages
    <3>3. /\ lastQuery' = [id |-> issued + 1, search |-> search, status |-> status, page |-> 1]
          /\ lastQuery' \in Request /\ pending' \subseteq Request
          /\ issued' = issued + 1 /\ issued' \in 1..MaxIds
          /\ loading' \in BOOLEAN /\ error' \in BOOLEAN
      BY <2>2, <3>1, <3>2, StartFetchType DEF IInv, TypeOK
    <3>4. TypeOK'
      BY <2>1, <3>2, <3>3 DEF IInv, TypeOK
    <3>5. IssuedBound'
      BY <2>1, <3>3, LeadsBounds DEF IInv, TypeOK, IssuedBound
    <3>6. QueryMatchesState'
      BY <2>1, <3>3 DEF QueryMatchesState
    <3>7. QED
      BY <3>4, <3>5, <3>6 DEF IInv
  <2>4. CASE <<search, status, 1>> = <<debouncedSearch, status, page>>
    <3>1. UNCHANGED <<loading, error, pending, issued, lastQuery>>
      BY <1>2, <2>4 DEF DebounceFires, FetchIfChanged
    <3>2. search = debouncedSearch /\ page = 1
      BY <2>4
    <3>3. TypeOK'
      BY <2>1, <3>1, <3>2 DEF IInv, TypeOK
    <3>4. IssuedBound'
      BY <2>1, <3>1, LeadsBounds DEF IInv, TypeOK, IssuedBound
    <3>5. QueryMatchesState'
      BY <2>1, <3>1, <3>2 DEF IInv, QueryMatchesState
    <3>6. QED
      BY <3>3, <3>4, <3>5 DEF IInv
  <2>5. QED
    BY <2>3, <2>4
<1>3. ASSUME NEW st \in Statuses, ChangeStatus(st) PROVE IInv'
  <2>1. 1 \in Pages /\ debouncedSearch \in Searches
    BY LeadsBounds DEF Pages, IInv, TypeOK
  <2>2. QED
    BY <1>3, <2>1, UserFetchStep DEF ChangeStatus
<1>4. CASE PrevPage
  <2>1. page' \in Pages
    BY <1>4, LeadsBounds DEF PrevPage, IInv, TypeOK, Pages
  <2>2. debouncedSearch \in Searches /\ status \in Statuses
    BY DEF IInv, TypeOK
  <2>3. QED
    BY <1>4, <2>1, <2>2, UserFetchStep DEF PrevPage
<1>5. CASE NextPage
  <2>1. Total(data) \in 2..MaxPages
    BY <1>5, PagerShownData DEF NextPage, IInv
  <2>2. page' \in Pages
    BY <1>5, <2>1, LeadsBounds DEF NextPage, IInv, TypeOK, Pages
  <2>3. debouncedSearch \in Searches /\ status \in Statuses
    BY DEF IInv, TypeOK
  <2>4. QED
    BY <1>5, <2>2, <2>3, UserFetchStep DEF NextPage
<1>6. CASE Retry
  <2>1. debouncedSearch \in Searches /\ status \in Statuses /\ page \in Pages
    BY DEF IInv, TypeOK
  <2>2. QED
    BY <1>6, <2>1, UserFetchStep DEF Retry
<1>7. ASSUME NEW r \in pending, FetchSucceeds(r) PROVE IInv'
  BY <1>7 DEF FetchSucceeds, IInv, TypeOK, IssuedBound, QueryMatchesState
<1>8. ASSUME NEW r \in pending, FetchFails(r) PROVE IInv'
  BY <1>8 DEF FetchFails, IInv, TypeOK, IssuedBound, QueryMatchesState
<1>9. CASE UNCHANGED vars
  BY <1>9 DEF vars, IInv, TypeOK, IssuedBound, QueryMatchesState
<1>10. QED
  BY <1>1, <1>2, <1>3, <1>4, <1>5, <1>6, <1>7, <1>8, <1>9 DEF Next

LEMMA IInvAlways == Spec => []IInv
BY IInvInit, IInvNext, PTL DEF Spec

-----------------------------------------------------------------------------

(***************************************************************************)
(* Type correctness of the leads table: every reachable state has the      *)
(* types of TypeOK; in particular the fetch ids never exceed MaxIds,       *)
(* although the debounce timer starts fetches outside the user's budget.   *)
(***************************************************************************)
THEOREM LeadsTypeCorrect == Spec => []TypeOK
<1>1. IInv => TypeOK
  BY DEF IInv
<1>2. QED
  BY IInvAlways, <1>1, PTL

(***************************************************************************)
(* A new filter starts on its first page: every fetch started for a search *)
(* or status other than the previous fetch's asks for page 1.  Only the    *)
(* debounce callback and handleStatusChange change the filter, and both    *)
(* reset the page in the same render; the pager and the retry button keep *)
(* the filter of the latest fetch, by QueryMatchesState.                   *)
(***************************************************************************)
THEOREM FirstPageOnNewFilterHolds == Spec => FirstPageOnNewFilter
<1> DEFINE NewFilterFirstPage ==
      issued' # issued
      /\ <<lastQuery'.search, lastQuery'.status>> # <<lastQuery.search, lastQuery.status>>
      => lastQuery'.page = 1
<1>1. IInv /\ [Next]_vars => [NewFilterFirstPage]_vars
  <2> SUFFICES ASSUME IInv, [Next]_vars PROVE [NewFilterFirstPage]_vars
    OBVIOUS
  <2>1. ASSUME NEW s \in Searches, Type(s) PROVE NewFilterFirstPage
    BY <2>1 DEF Type
  <2>2. CASE DebounceFires
    <3>1. CASE <<search, status, 1>> # <<debouncedSearch, status, page>>
      BY <2>2, <3>1 DEF DebounceFires, FetchIfChanged, StartFetch
    <3>2. CASE <<search, status, 1>> = <<debouncedSearch, status, page>>
      BY <2>2, <3>2 DEF DebounceFires, FetchIfChanged
    <3>3. QED
      BY <3>1, <3>2
  <2>3. ASSUME NEW st \in Statuses, ChangeStatus(st) PROVE NewFilterFirstPage
    BY <2>3 DEF ChangeStatus, StartFetch
  <2>4. CASE PrevPage
    BY <2>4 DEF PrevPage, StartFetch, IInv, QueryMatchesState
  <2>5. CASE NextPage
    BY <2>5 DEF NextPage, StartFetch, IInv, QueryMatchesState
  <2>6. CASE Retry
    BY <2>6 DEF Retry, StartFetch, IInv, QueryMatchesState
  <2>7. ASSUME NEW r \in pending, FetchSucceeds(r) PROVE NewFilterFirstPage
    BY <2>7 DEF FetchSucceeds
  <2>8. ASSUME NEW r \in pending, FetchFails(r) PROVE NewFilterFirstPage
    BY <2>8 DEF FetchFails
  <2>9. CASE UNCHANGED vars
    BY <2>9
  <2>10. QED
    BY <2>1, <2>2, <2>3, <2>4, <2>5, <2>6, <2>7, <2>8, <2>9 DEF Next
<1>2. QED
  BY <1>1, IInvAlways, PTL DEF Spec, FirstPageOnNewFilter

=============================================================================
