------------------------ MODULE BrokerRankingProofs ------------------------
(***************************************************************************)
(* Proofs about BrokerRanking for every set of empty periods and every     *)
(* bound on the requests the user starts.                                  *)
(***************************************************************************)
EXTENDS BrokerRanking, TLAPS

\* The mount state has the types of TypeOK.
LEMMA TypeInit == Init => TypeOK
BY RankingConstantsAssumption DEF Init, TypeOK, Request, Periods

\* Every step keeps the types of TypeOK.
LEMMA TypeStep == TypeOK /\ [Next]_vars => TypeOK'
<1> SUFFICES ASSUME TypeOK, [Next]_vars PROVE TypeOK'
  OBVIOUS
<1>1. ASSUME NEW p \in Periods, SelectPeriod(p) PROVE TypeOK'
  BY <1>1, RankingConstantsAssumption DEF SelectPeriod, TypeOK, Request
<1>2. ASSUME NEW r \in pending, RankingArrives(r) PROVE TypeOK'
  BY <1>2 DEF RankingArrives, TypeOK, Request
<1>3. ASSUME NEW r \in pending, RankingFails(r) PROVE TypeOK'
  BY <1>3 DEF RankingFails, TypeOK
<1>4. CASE UNCHANGED vars
  BY <1>4 DEF vars, TypeOK
<1>5. QED
  BY <1>1, <1>2, <1>3, <1>4 DEF Next

(***************************************************************************)
(* Type correctness of the ranking card: every reachable state has the     *)
(* types of TypeOK.                                                        *)
(***************************************************************************)
THEOREM RankingTypeCorrect == Spec => []TypeOK
BY TypeInit, TypeStep, PTL DEF Spec

=============================================================================
