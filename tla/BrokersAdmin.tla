---------------------------- MODULE BrokersAdmin ----------------------------
(***************************************************************************)
(* The brokers page: BrokersPage (app/brokers/page.tsx) with its           *)
(* BrokerFormDialog (src/unnamed/part_006, lines 246-380) and the modal    *)
(* Dialog (components/ui/dialog.tsx), against the backend's broker store.  *)
(*                                                                         *)
(* loadBrokers runs at mount, after every successful delete and after      *)
(* every successful save; its responses are not ordered and its errors are *)
(* only logged.  A request reaches the backend (its effect, or the         *)
(* snapshot a list request reads, happens then) and its response reaches  *)
(* the page later; either can be lost, so a write can take effect while    *)
(* the page sees a failure.                                                *)
(*                                                                         *)
(* The dialog component stays mounted while closed (Dialog renders null),  *)
(* so its formData, loading and error state survive closing.  Its overlay  *)
(* covers the page, and the backdrop's onClick is unreachable because the  *)
(* content wrapper (also inset-0) lies above it, so only Cancel or a save  *)
(* closes it.  The overlay stops the mouse only: Dialog has no focus trap  *)
(* and leaves the page behind it focusable, so the page's Add, Edit and    *)
(* Delete buttons stay reachable with Tab and Enter while it is open.     *)
(*                                                                         *)
(* The four form fields are abstracted to one value (the name, which like  *)
(* the phone is `required'); a broker is its name and its active flag.     *)
(***************************************************************************)
EXTENDS Naturals, FiniteSets

CONSTANTS
    Ids,       \* broker ids the backend can hold
    Values,    \* contents of the form fields
    Empty,     \* the empty field, ""
    InitDb,    \* the backend's brokers when the page mounts
    MaxOps,    \* bound on the deletes and saves the user starts
    Absent,    \* model value: no broker with that id
    NoBroker,  \* model value: selectedBroker / broker prop is null
    NoReq      \* model value: no save in flight

Broker == [name : Values, active : BOOLEAN]

ASSUME BrokersConstantsAssumption ==
    /\ Empty \in Values
    /\ InitDb \in [Ids -> Broker \cup {Absent}]
    /\ MaxOps \in Nat
    /\ Absent \notin Broker
    /\ NoBroker \notin Ids

VARIABLES
    db,          \* the backend's brokers
    list,        \* the `brokers' state: the list shown, by id
    loading,     \* the page's loading state
    loads,       \* list requests in flight
    deletes,     \* delete requests in flight
    dialogOpen,
    selected,    \* selectedBroker: the broker the dialog edits, or NoBroker
    form,        \* the dialog's formData
    saving,      \* the dialog's loading state
    formError,   \* the dialog's error # null
    save,        \* the save request in flight, or NoReq
    ops,         \* deletes and saves started so far
    reqs         \* requests started so far (their ids)

vars == <<db, list, loading, loads, deletes, dialogOpen,
          selected, form, saving, formError, save, ops, reqs>>

MaxReqs == 2 * MaxOps + 1

Db == [Ids -> Broker \cup {Absent}]

\* brokersApi.list: `snap' is the backend's list when the request reached it.
Load == [id : 1..MaxReqs, served : BOOLEAN, snap : Db \cup {Absent}]

\* brokersApi.delete(broker.id).
Delete == [id : 1..MaxReqs, target : Ids, applied : BOOLEAN]

\* brokersApi.update(broker.id, formData) or brokersApi.create(formData).
Save == [target : Ids \cup {NoBroker}, value : Values, applied : BOOLEAN]

\* No save is the NoReq value, and the store holds no broker without a name.
ASSUME BrokersStoreAssumption ==
    /\ NoReq \notin Save
    /\ \A i \in Ids : InitDb[i] # Absent => InitDb[i].name # Empty

TypeOK ==
    /\ db \in Db
    /\ list \in Db
    /\ loading \in BOOLEAN
    /\ loads \subseteq Load
    /\ deletes \subseteq Delete
    /\ dialogOpen \in BOOLEAN
    /\ selected \in Ids \cup {NoBroker}
    /\ form \in Values
    /\ saving \in BOOLEAN
    /\ formError \in BOOLEAN
    /\ save \in Save \cup {NoReq}
    /\ ops \in 0..MaxOps
    /\ reqs \in 0..MaxReqs

\* The rows of the table.
Listed == {i \in Ids : list[i] # Absent}

\* The list card: "Carregando...", the empty state, or the table.
Shown ==
    CASE loading        -> "loading"
      [] Listed = {}    -> "empty"
      [] OTHER          -> "table"

\* The bound on what the user starts.
UserBudget == ops < MaxOps

(***************************************************************************)
(* loadBrokers up to its await: setLoading(true) and the list request.     *)
(***************************************************************************)
StartLoad ==
    /\ loading' = TRUE
    /\ loads' = loads \cup {[id |-> reqs + 1, served |-> FALSE, snap |-> Absent]}
    /\ reqs' = reqs + 1

\* Mount: empty list, loading, the dialog closed with empty fields, first load.
Init ==
    /\ db = InitDb
    /\ list = [i \in Ids |-> Absent]
    /\ loading = TRUE
    /\ loads = {[id |-> 1, served |-> FALSE, snap |-> Absent]}
    /\ deletes = {}
    /\ dialogOpen = FALSE
    /\ selected = NoBroker
    /\ form = Empty
    /\ saving = FALSE
    /\ formError = FALSE
    /\ save = NoReq
    /\ ops = 0
    /\ reqs = 1

(***************************************************************************)
(* The page's handlers.  The table (and its Edit and Delete buttons) is    *)
(* rendered only when not loading; the buttons can be reached from the     *)
(* keyboard while the dialog is open.                                      *)
(***************************************************************************)

\* handleAdd: setSelectedBroker(null), setDialogOpen(true).
OpenAdd ==
    /\ dialogOpen' = TRUE
    /\ selected' = NoBroker
    /\ UNCHANGED <<db, list, loading, loads, deletes, form,
                   saving, formError, save, ops, reqs>>

\* handleEdit(broker): setSelectedBroker(broker), setDialogOpen(true).
OpenEdit(b) ==
    /\ Shown = "table"
    /\ b \in Listed
    /\ dialogOpen' = TRUE
    /\ selected' = b
    /\ UNCHANGED <<db, list, loading, loads, deletes, form,
                   saving, formError, save, ops, reqs>>

(***************************************************************************)
(* handleDelete(broker) once confirm() returned true: the delete request.  *)
(* A cancelled confirm() changes nothing.                                  *)
(***************************************************************************)
StartDelete(b) ==
    /\ Shown = "table"
    /\ b \in Listed
    /\ UserBudget
    /\ deletes' = deletes \cup {[id |-> reqs + 1, target |-> b, applied |-> FALSE]}
    /\ reqs' = reqs + 1
    /\ ops' = ops + 1
    /\ UNCHANGED <<db, list, loading, loads, dialogOpen,
                   selected, form, saving, formError, save>>

\* Typing in a field of the dialog: setFormData({...formData, name}).
EditField(v) ==
    /\ dialogOpen
    /\ form' = v
    /\ UNCHANGED <<db, list, loading, loads, deletes,
                   dialogOpen, selected, saving, formError, save, ops, reqs>>

(* Variant of Submit without the `required' attribute on the inputs. *)
SubmitWithoutRequired ==
    /\ dialogOpen
    /\ ~saving
    /\ UserBudget
    /\ saving' = TRUE
    /\ formError' = FALSE
    /\ save' = [target |-> selected, value |-> form, applied |-> FALSE]
    /\ ops' = ops + 1
    /\ UNCHANGED <<db, list, loading, loads, deletes,
                   dialogOpen, selected, form, reqs>>

(***************************************************************************)
(* The form is submitted: the submit button is disabled while loading and  *)
(* the browser refuses a submit while a `required' field is empty (which   *)
(* makes the create-only check at line 282 unreachable).  handleSubmit     *)
(* sets loading, clears the error and sends update for the `broker' prop   *)
(* or create.                                                              *)
(***************************************************************************)
Submit ==
    /\ dialogOpen
    /\ ~saving
    /\ form # Empty
    /\ UserBudget
    /\ saving' = TRUE
    /\ formError' = FALSE
    /\ save' = [target |-> selected, value |-> form, applied |-> FALSE]
    /\ ops' = ops + 1
    /\ UNCHANGED <<db, list, loading, loads, deletes,
                   dialogOpen, selected, form, reqs>>

(* Variant of Cancel without disabled={loading}. *)
CancelWhileSaving ==
    /\ dialogOpen
    /\ dialogOpen' = FALSE
    /\ UNCHANGED <<db, list, loading, loads, deletes, selected,
                   form, saving, formError, save, ops, reqs>>

\* "Cancelar": onOpenChange(false); disabled while loading.
Cancel ==
    /\ dialogOpen
    /\ ~saving
    /\ dialogOpen' = FALSE
    /\ UNCHANGED <<db, list, loading, loads, deletes, selected,
                   form, saving, formError, save, ops, reqs>>

(***************************************************************************)
(* The backend.  A list request reads the store; a delete deactivates the  *)
(* broker (soft delete); an update overwrites it; a create stores a new    *)
(* active broker under a free id.                                          *)
(***************************************************************************)
ServeLoad(l) ==
    /\ l \in loads
    /\ ~l.served
    /\ loads' = (loads \ {l}) \cup {[l EXCEPT !.served = TRUE, !.snap = db]}
    /\ UNCHANGED <<db, list, loading, deletes, dialogOpen,
                   selected, form, saving, formError, save, ops, reqs>>

ApplyDelete(d) ==
    /\ d \in deletes
    /\ ~d.applied
    /\ db' = [db EXCEPT ![d.target].active = FALSE]
    /\ deletes' = (deletes \ {d}) \cup {[d EXCEPT !.applied = TRUE]}
    /\ UNCHANGED <<list, loading, loads, dialogOpen, selected, form,
                   saving, formError, save, ops, reqs>>

ApplySave ==
    /\ save # NoReq
    /\ ~save.applied
    /\ \/ /\ save.target \in Ids
          /\ db' = [db EXCEPT ![save.target].name = save.value]
       \/ /\ save.target = NoBroker
          /\ \E i \in Ids :
                /\ db[i] = Absent
                /\ db' = [db EXCEPT ![i] = [name |-> save.value, active |-> TRUE]]
    /\ save' = [save EXCEPT !.applied = TRUE]
    /\ UNCHANGED <<list, loading, loads, deletes, dialogOpen,
                   selected, form, saving, formError, ops, reqs>>

(***************************************************************************)
(* Responses reaching the page.                                            *)
(***************************************************************************)

\* loadBrokers resolves: setBrokers, setTotal, then finally setLoading(false).
LoadSucceeds(l) ==
    /\ l \in loads
    /\ l.served
    /\ list' = l.snap
    /\ loading' = FALSE
    /\ loads' = loads \ {l}
    /\ UNCHANGED <<db, deletes, dialogOpen, selected, form, saving,
                   formError, save, ops, reqs>>

(* Variant of LoadFails with setLoading(false) in the try block. *)
LoadFailsKeepsLoading(l) ==
    /\ l \in loads
    /\ loads' = loads \ {l}
    /\ UNCHANGED <<db, list, loading, deletes, dialogOpen,
                   selected, form, saving, formError, save, ops, reqs>>

\* loadBrokers rejects (before or after the backend): console.error, finally.
LoadFails(l) ==
    /\ l \in loads
    /\ loading' = FALSE
    /\ loads' = loads \ {l}
    /\ UNCHANGED <<db, list, deletes, dialogOpen, selected,
                   form, saving, formError, save, ops, reqs>>

\* The delete resolves: loadBrokers() (not awaited).
DeleteSucceeds(d) ==
    /\ d \in deletes
    /\ d.applied
    /\ deletes' = deletes \ {d}
    /\ StartLoad
    /\ UNCHANGED <<db, list, dialogOpen, selected, form,
                   saving, formError, save, ops>>

\* The delete rejects: console.error and alert(), nothing else.
DeleteFails(d) ==
    /\ d \in deletes
    /\ deletes' = deletes \ {d}
    /\ UNCHANGED <<db, list, loading, loads, dialogOpen,
                   selected, form, saving, formError, save, ops, reqs>>

(***************************************************************************)
(* The save resolves: onSuccess() (= loadBrokers()), onOpenChange(false),  *)
(* then finally setLoading(false).                                         *)
(***************************************************************************)
SaveSucceeds ==
    /\ save # NoReq
    /\ save.applied
    /\ StartLoad
    /\ dialogOpen' = FALSE
    /\ saving' = FALSE
    /\ save' = NoReq
    /\ UNCHANGED <<db, list, deletes, selected, form,
                   formError, ops>>

\* The save rejects: setError(message), then finally setLoading(false).
SaveFails ==
    /\ save # NoReq
    /\ formError' = TRUE
    /\ saving' = FALSE
    /\ save' = NoReq
    /\ UNCHANGED <<db, list, loading, loads, deletes,
                   dialogOpen, selected, form, ops, reqs>>

Next ==
    \/ OpenAdd
    \/ \E b \in Ids : OpenEdit(b) \/ StartDelete(b)
    \/ \E v \in Values : EditField(v)
    \/ Submit
    \/ Cancel
    \/ \E l \in loads : ServeLoad(l) \/ LoadSucceeds(l) \/ LoadFails(l)
    \/ \E d \in deletes : ApplyDelete(d) \/ DeleteSucceeds(d) \/ DeleteFails(d)
    \/ ApplySave \/ SaveSucceeds \/ SaveFails

(***************************************************************************)
(* The backend serves every request it receives and the browser settles    *)
(* every request; the user is not fair.                                    *)
(***************************************************************************)
Spec ==
    /\ Init /\ [][Next]_vars
    /\ \A n \in 1..MaxReqs :
          /\ WF_vars(\E l \in loads : l.id = n /\ ServeLoad(l))
          /\ WF_vars(\E l \in loads : l.id = n /\ (LoadSucceeds(l) \/ LoadFails(l)))
          /\ WF_vars(\E d \in deletes : d.id = n /\ (ApplyDelete(d) \/ DeleteFails(d)))
          /\ WF_vars(\E d \in deletes : d.id = n /\ (DeleteSucceeds(d) \/ DeleteFails(d)))
    /\ WF_vars(ApplySave \/ SaveFails)
    /\ WF_vars(SaveSucceeds \/ SaveFails)

(***************************************************************************)
(* The store as BrokerStore specifies it, seen through the page's db.      *)
(***************************************************************************)
Store == INSTANCE BrokerStore

-----------------------------------------------------------------------------
(***************************************************************************)
(* Properties.                                                             *)
(***************************************************************************)

(* A save in flight keeps the dialog open and its buttons disabled: the   *)
(* dialog's loading flag is set exactly while a save is in flight, and    *)
(* meanwhile nothing closes the dialog (Cancel is disabled, the backdrop   *)
(* unreachable, and the page's buttons only open it), so the              *)
(* onOpenChange(false) of the answer closes a dialog that is open.  The   *)
(* broker it shows may have changed meanwhile: Edit is reachable from the *)
(* keyboard.                                                               *)
SaveKeepsDialogOpen ==
    /\ saving = (save # NoReq)
    /\ save # NoReq => dialogOpen

(* The backend never holds a broker without a name: create and update both *)
(* send formData, and only the `required' inputs stop an empty one (the    *)
(* explicit check in handleSubmit covers create only).                     *)
NoBlankBroker == \A i \in Ids : db[i] # Absent => db[i].name # Empty

(* The list leaves "Carregando..." whatever the order in which the mount, *)
(* post-delete and post-save loads settle.                                *)
ListLoadingEnds == loading ~> ~loading

(* Spec section 7: failures are never silently swallowed.  The empty      *)
(* state ("Nenhum corretor cadastrado ainda") is shown only when the       *)
(* backend has no broker.                                                  *)
EmptyMeansNoBrokers == Shown = "empty" => \A i \in Ids : db[i] = Absent

(* Opening the dialog shows the broker's saved fields (empty ones for     *)
(* "Adicionar") and no error from an earlier opening.                     *)
DialogOpensClean ==
    [][ ~dialogOpen /\ dialogOpen' =>
          /\ form' = IF selected' = NoBroker THEN Empty ELSE list[selected'].name
          /\ ~formError' ]_vars

=============================================================================
