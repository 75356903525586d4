---------------------------- MODULE MCLeadsList ----------------------------
(* Model-checking instance of LeadsList.  Two searches and two statuses   *)
(* give four filters with 3, 2, 1 and 0 pages, so that a filter change    *)
(* can move from a many-page result to a one-page or empty one.  Five     *)
(* fetches allow two to be in flight while the user pages and filters.    *)
EXTENDS LeadsList

MCSearches == {"", "ana"}
MCStatuses == {"", "novo"}
MCTotalPages ==
    [q \in MCSearches \X MCStatuses |->
        CASE q = <<"", "">>       -> 3
          [] q = <<"", "novo">>   -> 1
          [] q = <<"ana", "">>    -> 2
          [] OTHER                -> 0]
MCMaxPages == 3
MCMaxFetches == 5
MCMaxKeys == 3

=============================================================================
