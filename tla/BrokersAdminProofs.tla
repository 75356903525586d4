------------------------- MODULE BrokersAdminProofs -------------------------
(***************************************************************************)
(* Proofs about BrokersAdmin for every set of ids and field values, every  *)
(* initial store and every bound on the user's operations.                 *)
(***************************************************************************)
EXTENDS BrokersAdmin, TLAPS

(***************************************************************************)
(* The types a proof needs, without the bounds of TypeOK (which rest on    *)
(* counting the requests in flight): requests are records, ids of the      *)
(* store, the form and the save carry field values.                        *)
(***************************************************************************)
LoadT == [id : Nat, served : BOOLEAN, snap : Db \cup {Absent}]

DeleteT == [id : Nat, target : Ids, applied : BOOLEAN]

TypeP ==
    /\ db \in Db
    /\ reqs \in Nat
    /\ loads \subseteq LoadT
    /\ deletes \subseteq DeleteT
    /\ selected \in Ids \cup {NoBroker}
    /\ form \in Values
    /\ save \in Save \cup {NoReq}

(***************************************************************************)
(* Every broker the page knows of still exists in the store: the rows of   *)
(* the list, the rows of every snapshot on its way back, the target of     *)
(* every delete, the broker the dialog edits and the target of the save   *)
(* in flight (which the keyboard can make differ from the broker the       *)
(* dialog now edits).  The store only ever deactivates a broker, and every *)
(* id the page holds came from a snapshot.                                 *)
(***************************************************************************)
Stored(i) == db[i] # Absent

KnownExist ==
    /\ \A i \in Ids : list[i] # Absent => Stored(i)
    /\ \A l \in loads : l.served => \A i \in Ids : l.snap[i] # Absent => Stored(i)
    /\ \A d \in deletes : Stored(d.target)
    /\ selected \in Ids => Stored(selected)
    /\ save # NoReq /\ save.target \in Ids => Stored(save.target)

\* A save in flight carries a non-empty name (the `required' inputs).
SaveValueNamed == save # NoReq => save.value # Empty

IInv == TypeP /\ KnownExist /\ SaveValueNamed /\ SaveKeepsDialogOpen /\ NoBlankBroker

-----------------------------------------------------------------------------

\* TypeP of the next state, from the type of each variable.
LEMMA TypePPrime ==
    ASSUME db' \in Db, reqs' \in Nat, loads' \subseteq LoadT,
           deletes' \subseteq DeleteT, selected' \in Ids \cup {NoBroker},
           form' \in Values, save' \in Save \cup {NoReq}
    PROVE  TypeP'
BY DEF TypeP

\* The request loadBrokers adds has the type of a list request.
LEMMA NewLoadType ==
    ASSUME NEW n \in Nat
    PROVE  [id |-> n + 1, served |-> FALSE, snap |-> Absent] \in LoadT
BY DEF LoadT

LEMMA IInvInit == Init => IInv
<1> SUFFICES ASSUME Init PROVE IInv
  OBVIOUS
<1>1. TypeP
  <2>1. [id |-> 1, served |-> FALSE, snap |-> Absent] \in LoadT
    BY DEF LoadT
  <2>2. QED
    BY <2>1, BrokersConstantsAssumption DEF Init, TypeP, Db
<1>2. KnownExist
  <2>1. \A l \in loads : ~l.served
    BY DEF Init
  <2>2. \A i \in Ids : list[i] = Absent
    BY DEF Init
  <2>3. QED
    BY <2>1, <2>2, BrokersConstantsAssumption DEF Init, KnownExist
<1>5. SaveValueNamed /\ SaveKeepsDialogOpen
  BY DEF Init, SaveValueNamed, SaveKeepsDialogOpen
<1>3. NoBlankBroker
  BY BrokersConstantsAssumption, BrokersStoreAssumption DEF Init, NoBlankBroker
<1>4. QED
  BY <1>1, <1>2, <1>3, <1>5 DEF IInv

\* The fields a step leaves alone keep their part of the invariant.
LEMMA IInvNext == IInv /\ [Next]_vars => IInv'
<1> SUFFICES ASSUME IInv, [Next]_vars PROVE IInv'
  OBVIOUS
<1> USE BrokersConstantsAssumption, BrokersStoreAssumption
<1>1. CASE OpenAdd
  BY <1>1 DEF OpenAdd, IInv, TypeP, KnownExist, Stored, SaveValueNamed,
             SaveKeepsDialogOpen, NoBlankBroker
<1>2. ASSUME NEW b \in Ids, OpenEdit(b) PROVE IInv'
  <2>1. Stored(b)
    BY <1>2 DEF OpenEdit, Listed, IInv, KnownExist
  <2>2. QED
    BY <1>2, <2>1 DEF OpenEdit, IInv, TypeP, KnownExist, Stored, SaveValueNamed,
                   SaveKeepsDialogOpen, NoBlankBroker
<1>3. ASSUME NEW b \in Ids, StartDelete(b) PROVE IInv'
  <2>1. Stored(b)
    BY <1>3 DEF StartDelete, Listed, IInv, KnownExist
  <2>2. [id |-> reqs + 1, target |-> b, applied |-> FALSE] \in DeleteT
    BY DEF IInv, TypeP, DeleteT
  <2>3. TypeP'
    <3>1. deletes' \subseteq DeleteT
      BY <1>3, <2>2 DEF StartDelete, IInv, TypeP
    <3>4. reqs' \in Nat
      BY <1>3 DEF StartDelete, IInv, TypeP
    <3>2. UNCHANGED <<db, loads, selected, form, save>>
      BY <1>3 DEF StartDelete
    <3>3. QED
      BY <3>1, <3>2, <3>4 DEF IInv, TypeP
  <2>4. QED
    BY <1>3, <2>1, <2>3 DEF StartDelete, IInv, KnownExist, Stored, SaveValueNamed,
                          SaveKeepsDialogOpen, NoBlankBroker
<1>4. ASSUME NEW v \in Values, EditField(v) PROVE IInv'
  BY <1>4 DEF EditField, IInv, TypeP, KnownExist, Stored, SaveValueNamed,
             SaveKeepsDialogOpen, NoBlankBroker
<1>5. CASE Submit
  <2> DEFINE req == [target |-> selected, value |-> form, applied |-> FALSE]
  <2>1. req \in Save
    BY DEF IInv, TypeP, Save
  <2>2. req # NoReq
    BY <2>1
  <2>3. QED
    BY <1>5, <2>1, <2>2 DEF Submit, IInv, TypeP, KnownExist, Stored, SaveValueNamed,
                         SaveKeepsDialogOpen, NoBlankBroker
<1>6. CASE Cancel
  BY <1>6 DEF Cancel, IInv, TypeP, KnownExist, Stored, SaveValueNamed,
             SaveKeepsDialogOpen, NoBlankBroker
<1>7. ASSUME NEW l \in loads, ServeLoad(l) PROVE IInv'
  <2> DEFINE nl == [l EXCEPT !.served = TRUE, !.snap = db]
  <2>1. nl \in LoadT /\ nl.served /\ nl.snap = db
    BY DEF IInv, TypeP, LoadT, Db
  <2>2. TypeP'
    BY <1>7, <2>1 DEF ServeLoad, IInv, TypeP
  <2>3. KnownExist'
    BY <1>7, <2>1 DEF ServeLoad, IInv, KnownExist, Stored
  <2>4. QED
    BY <1>7, <2>2, <2>3 DEF ServeLoad, IInv, SaveValueNamed, SaveKeepsDialogOpen,
                          NoBlankBroker
<1>8. ASSUME NEW l \in loads, LoadSucceeds(l) PROVE IInv'
  BY <1>8 DEF LoadSucceeds, IInv, TypeP, KnownExist, Stored, SaveValueNamed,
             SaveKeepsDialogOpen, NoBlankBroker
<1>9. ASSUME NEW l \in loads, LoadFails(l) PROVE IInv'
  BY <1>9 DEF LoadFails, IInv, TypeP, KnownExist, Stored, SaveValueNamed,
             SaveKeepsDialogOpen, NoBlankBroker
<1>10. ASSUME NEW d \in deletes, ApplyDelete(d) PROVE IInv'
  <2>1. d.target \in Ids /\ db[d.target] \in Broker
    BY DEF IInv, TypeP, DeleteT, KnownExist, Stored, Db
  <2>2. db'[d.target] = [db[d.target] EXCEPT !.active = FALSE]
    BY <1>10, <2>1 DEF ApplyDelete, IInv, TypeP, Db
  <2>3. db'[d.target] \in Broker /\ db'[d.target].name = db[d.target].name
    BY <2>1, <2>2 DEF Broker
  <2>4. \A i \in Ids : i # d.target => db'[i] = db[i]
    BY <1>10, <2>1 DEF ApplyDelete, IInv, TypeP, Db
  <2>5. db' \in Db
    BY <1>10, <2>3, <2>4 DEF ApplyDelete, IInv, TypeP, Db
  <2>6. \A i \in Ids : Stored(i) => Stored(i)'
    BY <2>3, <2>4, BrokersConstantsAssumption DEF Stored
  <2>8. [d EXCEPT !.applied = TRUE] \in DeleteT
    BY DEF IInv, TypeP, DeleteT
  <2>9. deletes' \subseteq DeleteT
    BY <1>10, <2>8 DEF ApplyDelete, IInv, TypeP
  <2>10. TypeP'
    BY <1>10, <2>5, <2>9, TypePPrime DEF ApplyDelete, IInv, TypeP
  <2>11. KnownExist'
    BY <1>10, <2>6 DEF ApplyDelete, IInv, TypeP, DeleteT, KnownExist
  <2>12. NoBlankBroker'
    BY <2>1, <2>3, <2>4 DEF IInv, NoBlankBroker
  <2>13. QED
    BY <1>10, <2>10, <2>11, <2>12 DEF ApplyDelete, IInv, SaveValueNamed, SaveKeepsDialogOpen
<1>11. ASSUME NEW d \in deletes, DeleteSucceeds(d) PROVE IInv'
  <2>1. loads' \subseteq LoadT
    BY <1>11, NewLoadType DEF DeleteSucceeds, StartLoad, IInv, TypeP
  <2>2. reqs' \in Nat
    BY <1>11 DEF DeleteSucceeds, StartLoad, IInv, TypeP
  <2>3. deletes' \subseteq DeleteT
    BY <1>11 DEF DeleteSucceeds, IInv, TypeP
  <2>4. TypeP'
    BY <1>11, <2>1, <2>2, <2>3, TypePPrime DEF DeleteSucceeds, IInv, TypeP
  <2>5. \A l \in loads' : l \in loads \/ ~l.served
    BY <1>11 DEF DeleteSucceeds, StartLoad
  <2>6. KnownExist'
    BY <1>11, <2>5 DEF DeleteSucceeds, IInv, KnownExist, Stored
  <2>7. QED
    BY <1>11, <2>4, <2>6 DEF DeleteSucceeds, IInv, SaveValueNamed, SaveKeepsDialogOpen,
                          NoBlankBroker
<1>12. ASSUME NEW d \in deletes, DeleteFails(d) PROVE IInv'
  BY <1>12 DEF DeleteFails, IInv, TypeP, KnownExist, Stored, SaveValueNamed,
              SaveKeepsDialogOpen, NoBlankBroker
<1>13. CASE ApplySave
  <2>1. save \in Save /\ save.value # Empty
    BY <1>13 DEF ApplySave, IInv, TypeP, SaveValueNamed
  <2>2. save' \in Save /\ save' # NoReq /\ save'.value = save.value
        /\ save'.target = save.target
    BY <1>13, <2>1 DEF ApplySave, Save
  <2>3. PICK t \in Ids : /\ \A i \in Ids : i # t => db'[i] = db[i]
                         /\ db'[t] \in Broker
                         /\ db'[t].name = save.value
                         /\ db' \in Db
    <3>1. save.value \in Values
      BY <2>1 DEF Save
    <3>2. CASE save.target \in Ids
      <4>1. db[save.target] \in Broker
        BY <3>2, <2>1 DEF IInv, TypeP, KnownExist, Stored, Db
      <4>2. db'[save.target] = [db[save.target] EXCEPT !.name = save.value]
        BY <1>13, <3>2 DEF ApplySave, IInv, TypeP, Db
      <4>3. db'[save.target] \in Broker /\ db'[save.target].name = save.value
        BY <3>1, <4>1, <4>2 DEF Broker
      <4>4. \A i \in Ids : i # save.target => db'[i] = db[i]
        BY <1>13, <3>2 DEF ApplySave, IInv, TypeP, Db
      <4>5. db' \in Db
        BY <1>13, <3>2, <4>3, <4>4 DEF ApplySave, IInv, TypeP, Db
      <4>6. QED
        BY <3>2, <4>3, <4>4, <4>5
    <3>3. CASE save.target = NoBroker
      <4>1. save.target \notin Ids
        BY <3>3, BrokersConstantsAssumption
      <4>2. PICK i \in Ids : db' = [db EXCEPT ![i] = [name |-> save.value, active |-> TRUE]]
        BY <1>13, <4>1 DEF ApplySave
      <4>3. [name |-> save.value, active |-> TRUE] \in Broker
        BY <3>1 DEF Broker
      <4>4. db' \in Db
        BY <4>2, <4>3 DEF IInv, TypeP, Db
      <4>5. QED
        BY <4>2, <4>3, <4>4 DEF IInv, TypeP, Db
    <3>4. QED
      BY <3>2, <3>3, <2>1 DEF Save
  <2>4. \A i \in Ids : Stored(i) => Stored(i)'
    BY <2>3, BrokersConstantsAssumption DEF Stored
  <2>6. TypeP'
    BY <1>13, <2>2, <2>3, TypePPrime DEF ApplySave, IInv, TypeP
  <2>7. KnownExist'
    <3>1. UNCHANGED <<list, loads, deletes, selected>> /\ save'.target = save.target
      BY <1>13, <2>2 DEF ApplySave
    <3>2. \A d \in deletes : d.target \in Ids
      BY DEF IInv, TypeP, DeleteT
    <3>3. save'.target \in Ids => db'[save'.target] # Absent
      <4>1. save # NoReq
        BY <2>1, BrokersStoreAssumption
      <4>2. save.target \in Ids => Stored(save.target)
        BY <4>1 DEF IInv, KnownExist
      <4>3. QED
        BY <4>2, <2>2, <2>4 DEF Stored
    <3>4. QED
      BY <3>1, <3>2, <3>3, <2>2, <2>4 DEF IInv, KnownExist, Stored
  <2>8. NoBlankBroker'
    BY <2>1, <2>3 DEF IInv, NoBlankBroker
  <2>9. QED
    BY <1>13, <2>1, <2>2, <2>6, <2>7, <2>8 DEF ApplySave, IInv, SaveValueNamed,
                                             SaveKeepsDialogOpen
<1>14. CASE SaveSucceeds
  <2>1. loads' \subseteq LoadT
    BY <1>14, NewLoadType DEF SaveSucceeds, StartLoad, IInv, TypeP
  <2>2. reqs' \in Nat
    BY <1>14 DEF SaveSucceeds, StartLoad, IInv, TypeP
  <2>3. save' \in Save \cup {NoReq}
    BY <1>14 DEF SaveSucceeds
  <2>4. TypeP'
    BY <1>14, <2>1, <2>2, <2>3, TypePPrime DEF SaveSucceeds, IInv, TypeP
  <2>5. \A l \in loads' : l \in loads \/ ~l.served
    BY <1>14 DEF SaveSucceeds, StartLoad
  <2>6. KnownExist'
    BY <1>14, <2>5 DEF SaveSucceeds, IInv, KnownExist, Stored
  <2>7. QED
    BY <1>14, <2>4, <2>6 DEF SaveSucceeds, IInv, SaveValueNamed, SaveKeepsDialogOpen,
                          NoBlankBroker
<1>15. CASE SaveFails
  BY <1>15 DEF SaveFails, IInv, TypeP, KnownExist, Stored, SaveValueNamed,
              SaveKeepsDialogOpen, NoBlankBroker
<1>16. CASE UNCHANGED vars
  BY <1>16 DEF vars, IInv, TypeP, KnownExist, Stored, SaveValueNamed,
              SaveKeepsDialogOpen, NoBlankBroker
<1>17. QED
  BY <1>1, <1>2, <1>3, <1>4, <1>5, <1>6, <1>7, <1>8, <1>9, <1>10, <1>11,
     <1>12, <1>13, <1>14, <1>15, <1>16 DEF Next

(***************************************************************************)
(* A save in flight keeps the dialog open with its loading flag set        *)
(* (Cancel disabled while loading, the backdrop unreachable, the page's    *)
(* keyboard-reachable buttons only opening it), and the backend never      *)
(* stores a broker with an empty name (the `required' inputs guard update *)
(* as well as create).  The second rests on KnownExist: an update or a     *)
(* delete only ever targets a stored broker, even when Edit was pressed   *)
(* during the save.                                                        *)
(***************************************************************************)
THEOREM SaveDialogSafe == Spec => [](SaveKeepsDialogOpen /\ NoBlankBroker)
<1>1. IInv => SaveKeepsDialogOpen /\ NoBlankBroker
  BY DEF IInv
<1>2. QED
  BY IInvInit, IInvNext, <1>1, PTL DEF Spec

-----------------------------------------------------------------------------
(***************************************************************************)
(* Refinement of BrokerStore.  The store's state is db itself; the page's  *)
(* actions leave it alone and the backend's writes are store operations.   *)
(***************************************************************************)

\* The page's own steps and the responses never touch the store.
LEMMA PageStepsKeepDb ==
    ASSUME [Next]_vars, ~ApplySave, ~\E d \in deletes : ApplyDelete(d)
    PROVE  UNCHANGED db
<1>1. CASE OpenAdd \/ Submit \/ Cancel \/ SaveSucceeds \/ SaveFails
  BY <1>1 DEF OpenAdd, Submit, Cancel, SaveSucceeds, SaveFails
<1>2. CASE \E b \in Ids : OpenEdit(b) \/ StartDelete(b)
  BY <1>2 DEF OpenEdit, StartDelete
<1>3. CASE \E v \in Values : EditField(v)
  BY <1>3 DEF EditField
<1>4. CASE \E l \in loads : ServeLoad(l) \/ LoadSucceeds(l) \/ LoadFails(l)
  BY <1>4 DEF ServeLoad, LoadSucceeds, LoadFails
<1>5. CASE \E d \in deletes : DeleteSucceeds(d) \/ DeleteFails(d)
  BY <1>5 DEF DeleteSucceeds, DeleteFails
<1>6. CASE UNCHANGED vars
  BY <1>6 DEF vars
<1>7. QED
  BY <1>1, <1>2, <1>3, <1>4, <1>5, <1>6 DEF Next

\* A delete the backend applies deactivates a stored broker.
LEMMA ApplyDeleteRefines ==
    ASSUME IInv, NEW d \in deletes, ApplyDelete(d)
    PROVE  Store!Next
<1>1. d.target \in Ids /\ Stored(d.target)
  BY DEF IInv, TypeP, DeleteT, KnownExist
<1>2. Store!Deactivate(d.target)
  BY <1>1 DEF ApplyDelete, Store!Deactivate, Store!Stored, Stored
<1>3. QED
  BY <1>1, <1>2 DEF Store!Next

\* A save the backend applies renames a stored broker or creates one.
LEMMA ApplySaveRefines ==
    ASSUME IInv, ApplySave
    PROVE  Store!Next
<1>1. save \in Save /\ save.value \in Values /\ save.value # Empty
  BY DEF ApplySave, IInv, TypeP, SaveValueNamed, Save
<1>2. CASE save.target \in Ids
  <2>1. Stored(save.target)
    BY <1>2 DEF ApplySave, IInv, KnownExist
  <2>2. db' = [db EXCEPT ![save.target].name = save.value]
    BY <1>2, BrokersConstantsAssumption DEF ApplySave
  <2>3. Store!Rename(save.target, save.value)
    BY <1>1, <2>1, <2>2 DEF Store!Rename, Store!Stored, Stored
  <2>4. QED
    BY <1>1, <1>2, <2>3 DEF Store!Next
<1>3. CASE save.target = NoBroker
  <2>1. save.target \notin Ids
    BY <1>3, BrokersConstantsAssumption
  <2>2. PICK i \in Ids : db[i] = Absent
                         /\ db' = [db EXCEPT ![i] = [name |-> save.value, active |-> TRUE]]
    BY <2>1 DEF ApplySave
  <2>3. Store!Create(i, save.value)
    BY <1>1, <2>2 DEF Store!Create, Store!Stored
  <2>4. QED
    BY <1>1, <2>3 DEF Store!Next
<1>4. QED
  BY <1>1, <1>2, <1>3 DEF Save

(***************************************************************************)
(* The page implements the store: every write it causes                    *)
(* is a create under a free id, a rename of a stored broker or the         *)
(* deactivation of one, always with a name.  The update and the delete     *)
(* target ids taken from earlier list responses; KnownExist, part of the   *)
(* inductive invariant, is what keeps those ids stored.                    *)
(***************************************************************************)
THEOREM StoreRefined == Spec => Store!Spec
<1>1. Init => Store!Init
  BY DEF Init, Store!Init
<1>2. IInv /\ [Next]_vars => [Store!Next]_db
  <2> SUFFICES ASSUME IInv, [Next]_vars PROVE [Store!Next]_db
    OBVIOUS
  <2>1. CASE ApplySave
    BY <2>1, ApplySaveRefines
  <2>2. CASE \E d \in deletes : ApplyDelete(d)
    BY <2>2, ApplyDeleteRefines
  <2>3. CASE ~ApplySave /\ ~\E d \in deletes : ApplyDelete(d)
    BY <2>3, PageStepsKeepDb
  <2>4. QED
    BY <2>1, <2>2, <2>3
<1>3. QED
  BY <1>1, <1>2, IInvInit, IInvNext, PTL DEF Spec, Store!Spec

(***************************************************************************)
(* The backend never holds a broker without a name, whatever the page's    *)
(* interleaving of creates, edits, deletes and lost answers: the `required'*)
(* inputs guard the update as well as the create.                          *)
(***************************************************************************)
THEOREM NoBlankBrokerAlways == Spec => []NoBlankBroker
BY SaveDialogSafe, PTL

=============================================================================
