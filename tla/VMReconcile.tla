----------------------------- MODULE VMReconcile -----------------------------
(***************************************************************************)
(* One virtual machine reconciled onto hubs.  Three actors share its row   *)
(* in the fulfillment database:                                            *)
(*   - the forward reconciler (fulfillment-service controllers/vm/         *)
(*     vm_reconciler_function.go), which picks a hub, creates or patches   *)
(*     the native VirtualMachine there, and saves the object it was given  *)
(*     with the hub pinned in status;                                      *)
(*   - the feedback reconciler of each hub (cloudkit-operator              *)
(*     virtualmachine_feedback_controller.go), which reads the row, maps   *)
(*     the native phase onto the state and saves the object it read;       *)
(*   - the user, who updates or deletes the virtual machine, or deletes   *)
(*     its template, through the public servers.                           *)
(* Both reconcilers save through the private VirtualMachines.Update        *)
(* (template validation, then GenericDAO.update), which writes the whole   *)
(* object sent: there is no version check.                                 *)
(*                                                                         *)
(* Conditions are left out here (module FeedbackConditions); whether the   *)
(* feedback reconciler saves although the state is unchanged is the        *)
(* constant ConditionsChurn.  The row has no finalizers (nothing in these  *)
(* sources adds one), so the DAO archives it as soon as it is deleted.     *)
(***************************************************************************)
EXTENDS Naturals, FiniteSets

CONSTANTS
    Hubs,            \* hub identifiers returned by Hubs.List
    NoHub,           \* status.hub not set
    NoRow,           \* the row has been archived
    MaxCreates,      \* bound on native objects ever created (generateName)
    Failures,        \* hub cache lookups and saves may fail transiently
    ConditionsChurn  \* the feedback reconciler saves on every pass

ASSUME Hubs # {} /\ NoHub \notin Hubs /\ MaxCreates \in Nat

States == {"UNSPECIFIED", "PROGRESSING", "READY", "FAILED"}
Phases == {"Progressing", "Ready"}

\* The part of privatev1.VirtualMachine these reconcilers read and write.
VM == [state: States, hub: Hubs \cup {NoHub}, deleted: BOOLEAN]

\* A native VirtualMachine in a hub namespace, labelled with the VM id.
Native == [hub: Hubs, name: 1..MaxCreates, phase: Phases]

VARIABLES
    row,        \* the live row, or NoRow once archived
    lastObj,    \* the object carried by the last DAO event for the VM
    templateOK, \* the VM's template row still exists
    native,     \* native objects labelled with the VM id, in all hubs
    created,    \* number of native objects ever created
    fwd,        \* forward reconciler: [pc, vm, hub]
    fb,         \* feedback reconciler of each hub: [pc, vm, changed]
    usr         \* the object the user's public Update got, or NoRow

vars == <<row, lastObj, templateOK, native, created, fwd, fb, usr>>

OnHub(h) == {n \in native : n.hub = h}

-----------------------------------------------------------------------------
(* Helpers translated from the code. *)

\* setDefaults: an unspecified state becomes progressing.
setDefaults(vm) ==
    IF vm.state = "UNSPECIFIED" THEN [vm EXCEPT !.state = "PROGRESSING"] ELSE vm

\* Mutant of syncPhase: copies the hub phase name instead of mapping it.
syncPhaseRaw(vm, phase) == [vm EXCEPT !.state = phase]

\* syncPhase: Progressing and Ready map onto the state.
syncPhase(vm, phase) ==
    [vm EXCEPT !.state = IF phase = "Ready" THEN "READY" ELSE "PROGRESSING"]

\* Private VirtualMachines.Update: validateTemplate fails once the template
\* is gone; GenericDAO.update writes state and status.hub of the object
\* sent, keeps the deletion timestamp, and fails when the row is gone.
Save(vm) ==
    /\ templateOK
    /\ row # NoRow
    /\ LET new == [row EXCEPT !.state = vm.state, !.hub = vm.hub]
       IN /\ row' = new
          /\ lastObj' = new

-----------------------------------------------------------------------------
Init ==
    /\ row = [state |-> "UNSPECIFIED", hub |-> NoHub, deleted |-> FALSE]
    /\ lastObj = row
    /\ templateOK = TRUE
    /\ native = {}
    /\ created = 0
    /\ fwd = [pc |-> "idle", vm |-> lastObj, hub |-> NoHub]
    /\ fb = [h \in Hubs |-> [pc |-> "idle", vm |-> lastObj, changed |-> FALSE]]
    /\ usr = NoRow

\* run, up to the hub: the reconciler gets the object of the last event.
\* Not deleted: setDefaults; stop after saving when not progressing;
\* selectHub keeps status.hub or picks any listed hub; hubCache.Get may
\* fail.  Deleted: getHub for status.hub, or only save when it is unset.
FwdStart ==
    /\ fwd.pc = "idle"
    /\ LET vm == IF lastObj.deleted THEN lastObj ELSE setDefaults(lastObj)
       IN \/ /\ vm.deleted \/ vm.state # "PROGRESSING"
             /\ vm.hub = NoHub \/ ~vm.deleted
             /\ fwd' = [pc |-> "save", vm |-> vm, hub |-> NoHub]
          \/ /\ vm.deleted /\ vm.hub # NoHub
             /\ fwd' = [pc |-> "delete", vm |-> vm, hub |-> vm.hub]
          \/ /\ ~vm.deleted /\ vm.state = "PROGRESSING"
             /\ \E h \in IF vm.hub = NoHub THEN Hubs ELSE {vm.hub} :
                  fwd' = [pc |-> "kube", vm |-> [vm EXCEPT !.hub = h], hub |-> h]
    /\ UNCHANGED <<row, lastObj, templateOK, native, created, fb, usr>>

\* hubCache.Get failing inside selectHub or getHub: the run returns the
\* error and the controller retries it later.
FwdHubCacheFails ==
    /\ Failures
    /\ fwd.pc \in {"kube", "delete"}
    /\ fwd' = [fwd EXCEPT !.pc = "idle"]
    /\ UNCHANGED <<row, lastObj, templateOK, native, created, fb, usr>>

\* update, after selectHub: getKubeObject lists by label in the hub
\* namespace (more than one is an error); create with generateName when
\* there is none, patch the spec otherwise.
FwdKube ==
    /\ fwd.pc = "kube"
    /\ LET objs == OnHub(fwd.hub) IN
       \/ /\ Cardinality(objs) > 1
          /\ fwd' = [fwd EXCEPT !.pc = "idle"]
          /\ UNCHANGED <<native, created>>
       \/ /\ objs = {}
          /\ created < MaxCreates
          /\ native' = native \cup
                {[hub |-> fwd.hub, name |-> created + 1, phase |-> "Progressing"]}
          /\ created' = created + 1
          /\ fwd' = [fwd EXCEPT !.pc = "save"]
       \/ /\ Cardinality(objs) = 1
          /\ fwd' = [fwd EXCEPT !.pc = "save"]
          /\ UNCHANGED <<native, created>>
    /\ UNCHANGED <<row, lastObj, templateOK, fb, usr>>

\* delete: getKubeObject on the pinned hub; delete the object if found.
FwdDelete ==
    /\ fwd.pc = "delete"
    /\ LET objs == OnHub(fwd.hub) IN
       \/ /\ Cardinality(objs) > 1
          /\ fwd' = [fwd EXCEPT !.pc = "idle"]
          /\ UNCHANGED native
       \/ /\ Cardinality(objs) <= 1
          /\ native' = native \ objs
          /\ fwd' = [fwd EXCEPT !.pc = "save"]
    /\ UNCHANGED <<row, lastObj, templateOK, created, fb, usr>>

\* run, last statement: vmsClient.Update with the object it was given.
\* On error the controller retries the whole run.
FwdSave ==
    /\ fwd.pc = "save"
    /\ \/ /\ Save(fwd.vm)
       \/ /\ ~(templateOK /\ row # NoRow) \/ Failures
          /\ UNCHANGED <<row, lastObj>>
    /\ fwd' = [fwd EXCEPT !.pc = "idle"]
    /\ UNCHANGED <<templateOK, native, created, fb, usr>>

\* Feedback Reconcile on hub h for native object n: skipped when the
\* object carries no id label or is being deleted (neither happens here);
\* fetchVirtualMachine fails when the row is gone; syncPhase on a clone,
\* which differs from what was fetched when the state changed or, when
\* the condition timestamps churn, always.
FbStart(h) ==
    /\ fb[h].pc = "idle"
    /\ row # NoRow
    /\ \E n \in OnHub(h) :
         LET after == syncPhase(row, n.phase) IN
         fb' = [fb EXCEPT ![h] = [pc |-> "save", vm |-> after,
                                  changed |-> ConditionsChurn \/ after # row]]
    /\ UNCHANGED <<row, lastObj, templateOK, native, created, fwd, usr>>

\* saveVirtualMachine: Update with the clone when it differs.
FbSave(h) ==
    /\ fb[h].pc = "save"
    /\ \/ fb[h].changed /\ Save(fb[h].vm)
       \/ /\ ~fb[h].changed \/ ~(templateOK /\ row # NoRow) \/ Failures
          /\ UNCHANGED <<row, lastObj>>
    /\ fb' = [fb EXCEPT ![h].pc = "idle"]
    /\ UNCHANGED <<templateOK, native, created, fwd, usr>>

\* The hub operator sees the KubeVirt machine ready (handleKubeVirtVM).
NativeReady ==
    /\ \E n \in native :
         /\ n.phase = "Progressing"
         /\ native' = (native \ {n}) \cup {[n EXCEPT !.phase = "Ready"]}
    /\ UNCHANGED <<row, lastObj, templateOK, created, fwd, fb, usr>>

\* User deletes the VM: GenericDAO.delete sets the deletion timestamp,
\* fires `deleted` and, with no finalizers, archives the row.
UserDeleteVM ==
    /\ row # NoRow
    /\ lastObj' = [row EXCEPT !.deleted = TRUE]
    /\ row' = NoRow
    /\ UNCHANGED <<templateOK, native, created, fwd, fb, usr>>

\* Public VirtualMachines.Update, first call: the private Get of the
\* object by id (NotFound once the row is archived).
UserGet ==
    /\ usr = NoRow
    /\ row # NoRow
    /\ usr' = row
    /\ UNCHANGED <<row, lastObj, templateOK, native, created, fwd, fb>>

\* Public VirtualMachines.Update, second call: the public fields the user
\* sent (the spec, left out here) are copied onto the object got above,
\* which keeps its state and status.hub as read ("preserving private
\* data"), and the merged object goes to the private Update.
UserUpdate ==
    /\ usr # NoRow
    /\ \/ Save(usr)
       \/ /\ ~(templateOK /\ row # NoRow) \/ Failures
          /\ UNCHANGED <<row, lastObj>>
    /\ usr' = NoRow
    /\ UNCHANGED <<templateOK, native, created, fwd, fb>>

\* User deletes the template the VM was created from.
UserDeleteTemplate ==
    /\ templateOK
    /\ templateOK' = FALSE
    /\ UNCHANGED <<row, lastObj, native, created, fwd, fb, usr>>

Next ==
    \/ FwdStart \/ FwdHubCacheFails \/ FwdKube \/ FwdDelete \/ FwdSave
    \/ \E h \in Hubs : FbStart(h) \/ FbSave(h)
    \/ NativeReady \/ UserDeleteVM \/ UserDeleteTemplate
    \/ UserGet \/ UserUpdate

Spec == Init /\ [][Next]_vars

\* The controller framework runs the forward reconciler again after every
\* event and every error (spec.md 5: reconciler errors are retried), and
\* a started run proceeds.  Users, the hub operator and the feedback
\* reconcilers are not assumed to act.
Fairness ==
    /\ WF_vars(FwdStart) /\ WF_vars(FwdKube)
    /\ WF_vars(FwdDelete) /\ WF_vars(FwdSave)

FairSpec == Spec /\ Fairness

-----------------------------------------------------------------------------
TypeOK ==
    /\ row \in VM \cup {NoRow}
    /\ lastObj \in VM
    /\ templateOK \in BOOLEAN
    /\ native \subseteq Native
    /\ created \in 0..MaxCreates
    /\ fwd \in [pc: {"idle", "kube", "delete", "save"}, vm: VM,
                hub: Hubs \cup {NoHub}]
    /\ fb \in [Hubs -> [pc: {"idle", "save"}, vm: VM, changed: BOOLEAN]]
    /\ usr \in VM \cup {NoRow}

\* The VM runs on one hub: all native objects created for it live in one
\* hub namespace (spec.md 4.12 step 4 pins the hub in status). When the
\* save after a create fails, the retry finds status.hub still empty and
\* selectHub picks a hub at random again (vm_reconciler_function.go 177,
\* 288), so this can fail.
NativeOnOneHub ==
    \A n, m \in native : n.hub = m.hub

\* Once status.hub is pinned in the database it is kept while the row
\* lives (spec.md 4.12 step 4: "if one is pinned in status, use it"):
\* no save by either reconciler clears or changes it.
HubBindingKept ==
    [][row # NoRow /\ row.hub # NoHub /\ row' # NoRow => row'.hub = row.hub]_vars

\* Once the user has deleted the VM and its row is gone, every native
\* object created for it is eventually deleted by the forward
\* reconciler's delete branch (vm_reconciler_function.go delete), which
\* looks only at the hub pinned in the deleted object.
NativeRemovedAfterDelete ==
    row = NoRow ~> native = {}
=============================================================================
