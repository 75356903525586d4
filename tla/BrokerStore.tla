----------------------------- MODULE BrokerStore -----------------------------
(***************************************************************************)
(* What the backend's broker store promises the brokers page.  Spec       *)
(* section 6: POST /brokers, PATCH /brokers/{id}, DELETE /brokers/{id}    *)
(* (soft-deactivate); section 7: a missing name is a ValidationError, an  *)
(* unknown id a NotFoundError.  So brokers are created under a free id,    *)
(* renamed and deactivated, each write atomic, a broker never without a    *)
(* name and never removed.  BrokersAdmin implements this specification    *)
(* with db mapped to db: every write the page causes is one of these.     *)
(***************************************************************************)
CONSTANTS
    Ids,      \* broker ids the store can hold
    Values,   \* names
    Empty,    \* the empty name
    InitDb,   \* the store's brokers at the start
    Absent    \* no broker under that id

VARIABLE db

Broker == [name : Values, active : BOOLEAN]

\* A broker is stored under i.
Stored(i) == db[i] # Absent

Init == db = InitDb

\* POST /brokers: a new active broker under a free id.
Create(i, v) ==
    /\ ~Stored(i)
    /\ v # Empty
    /\ db' = [db EXCEPT ![i] = [name |-> v, active |-> TRUE]]

\* PATCH /brokers/{id}: a stored broker gets a new, non-empty name.
Rename(i, v) ==
    /\ Stored(i)
    /\ v # Empty
    /\ db' = [db EXCEPT ![i].name = v]

\* DELETE /brokers/{id}: a stored broker is deactivated, never removed.
Deactivate(i) ==
    /\ Stored(i)
    /\ db' = [db EXCEPT ![i].active = FALSE]

Next ==
    \E i \in Ids :
        \/ Deactivate(i)
        \/ \E v \in Values : Create(i, v) \/ Rename(i, v)

Spec == Init /\ [][Next]_db

=============================================================================
