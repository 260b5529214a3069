----------------------------- MODULE HubOperator -----------------------------
(***************************************************************************)
(* The hub operator's VirtualMachineReconciler (cloudkit-operator          *)
(* controllers/controller/virtualmachine_controller.go) for one native    *)
(* VirtualMachine, with the actors around it:                             *)
(*   - the API server, which holds the VM with a resource version and     *)
(*     rejects writes of a stale version, and removes a deleted VM once   *)
(*     its last finalizer is gone;                                        *)
(*   - the informer caches the reconciler reads the VM and namespaces     *)
(*     from, which may lag the API server (StaleVMCache, StaleNsCache);  *)
(*   - the user, who deletes the VM;                                      *)
(*   - the webhook receiver's automation, which creates the KubeVirt      *)
(*     machine on a create hook and deletes the namespace on a delete     *)
(*     hook, and the namespace controller that finishes the deletion.     *)
(* One worker reconciles the key at a time; a watch event during a run    *)
(* queues the key again.  Each API call of Reconcile is one step.         *)
(* Conditions are left out (module FeedbackConditions) but for the one   *)
(* fact that matters here: SetStatusCondition stamps LastTransitionTime   *)
(* with the current time on every call.  The webhook's rate limit is     *)
(* abstracted to its three outcomes (module WebhookCache).  Resource      *)
(* versions are abstracted to whether a copy is of the current version,   *)
(* which is all the API server compares.                                  *)
(***************************************************************************)
EXTENDS Naturals

CONSTANTS
    StaleVMCache,     \* reads of the VM may return an old version
    StaleNsCache,     \* lists of namespaces may return an old state
    CreateVMWebhook,  \* a create webhook URL is configured
    DeleteVMWebhook,  \* a delete webhook URL is configured
    Annotation        \* management-state annotation: "none", "manual", "unmanaged"

ASSUME Annotation \in {"none", "manual", "unmanaged"}

Phases == {"", "Progressing", "Ready", "Deleting"}
NsStates == {"absent", "active", "terminating"}

\* The VM object as the API server stores it and as the reconciler holds it.
VM == [exists: BOOLEAN, deleting: BOOLEAN, fin: BOOLEAN, phase: Phases]

VARIABLES
    cr,       \* the VM in the API server
    crSeen,   \* the VM in the informer cache
    seenCur,  \* the cached VM has the API server's resource version
    ns,       \* the VM's namespace in the API server
    nsSeen,   \* the namespace in the informer cache
    kv,       \* the KubeVirt machine: "absent", "running", "ready"
    hooks,    \* webhook requests delivered and not yet acted on
    queued,   \* the key is in the work queue
    pc,       \* the reconcile's next API call
    inst,     \* the reconcile's copy of the VM
    instCur,  \* the copy has the API server's resource version
    stamped,  \* the copy's conditions carry a LastTransitionTime of now
    old,      \* oldstatus: the phase of the copy as read
    requeue   \* the handler asked for Requeue or RequeueAfter

vars == <<cr, crSeen, seenCur, ns, nsSeen, kv, hooks, queued, pc, inst,
          instCur, stamped, old, requeue>>

nsRead == IF StaleNsCache THEN nsSeen ELSE ns

-----------------------------------------------------------------------------
(* Helpers translated from the code. *)

\* Mutant of findNamespace: overlooks namespaces being terminated.
findNamespaceActiveOnly(n) == n = "active"

\* findNamespace: a namespace labelled for the VM is listed, terminating
\* or not.
findNamespace(n) == n # "absent"

\* Mutant of kvPhase: copies the KubeVirt machine's state into the phase.
kvPhaseRunning(phase) == IF kv # "absent" THEN "Running" ELSE phase

\* Mutant of kvPhase: the ready machine's condition is not looked at.
kvPhaseIgnored(phase) == phase

\* handleKubeVirtVM: a ready KubeVirt machine makes the phase Ready.
kvPhase(phase) == IF kv = "ready" THEN "Ready" ELSE phase

\* Reconcile: the status is written only when it differs from oldstatus.
\* A condition set with SetStatusCondition carries LastTransitionTime
\* metav1.Now(), with nanoseconds, which oldstatus (read back from the
\* API server, to the second) never equals under equality.Semantic.
statusChanged == inst.phase # old \/ stamped

\* The status differs from the stored one only by a LastTransitionTime
\* that serializes to the same second as the stored stamp.
sameSecondPossible == inst.phase = old /\ stamped

\* Mutant of requeueOnHookError: a failed webhook is not retried.
requeueOnHookErrorDropped == FALSE

\* A failed webhook returns Result{Requeue: true}.
requeueOnHookError == TRUE

\* The watches on the VM, its namespace and its KubeVirt machine map every
\* change onto the VM's key (SetupWithManager, mapObjectToVirtualMachine).
Enqueue == queued' = TRUE

\* An Update or UpdateStatus of the copy succeeds only on the current
\* version of a VM that still exists.
Accepts == cr.exists /\ instCur

\* The reconcile's own write: a new resource version, which the copy
\* takes and the cache does not have yet; the watch queues the key.
OwnWrite(new) ==
    /\ cr' = new
    /\ instCur' = TRUE
    /\ seenCur' = FALSE
    /\ Enqueue

\* The reconcile returns an error: no status update, the key is requeued.
Fail ==
    /\ pc' = "idle"
    /\ Enqueue
    /\ UNCHANGED <<cr, seenCur, inst, instCur>>

-----------------------------------------------------------------------------
Init ==
    /\ cr = [exists |-> TRUE, deleting |-> FALSE, fin |-> FALSE, phase |-> ""]
    /\ crSeen = cr
    /\ seenCur = TRUE
    /\ ns = "absent"
    /\ nsSeen = "absent"
    /\ kv = "absent"
    /\ hooks = {}
    /\ queued = TRUE
    /\ pc = "idle"
    /\ inst = cr
    /\ instCur = TRUE
    /\ stamped = FALSE
    /\ old = ""
    /\ requeue = FALSE

\* Reconcile: Get the VM (not found: done), skip unmanaged VMs, keep
\* oldstatus, and branch.  handleUpdate sets phase Progressing and goes on
\* to the finalizer; handleDelete sets phase Deleting and returns at once
\* when the finalizer is already gone.
Start ==
    /\ pc = "idle"
    /\ queued
    /\ queued' = FALSE
    /\ LET obj == IF StaleVMCache THEN crSeen ELSE cr IN
       \/ /\ ~obj.exists \/ Annotation = "unmanaged"
          /\ UNCHANGED <<pc, inst, instCur, stamped, old, requeue>>
       \/ /\ obj.exists /\ Annotation # "unmanaged"
          /\ old' = obj.phase
          /\ requeue' = FALSE
          /\ stamped' = FALSE
          /\ instCur' = (~StaleVMCache \/ seenCur)
          /\ IF obj.deleting
             THEN /\ inst' = [obj EXCEPT !.phase = "Deleting"]
                  /\ pc' = IF obj.fin THEN "d_find" ELSE "status"
             ELSE /\ inst' = [obj EXCEPT !.phase = "Progressing"]
                  /\ pc' = "u_fin"
    /\ UNCHANGED <<cr, crSeen, seenCur, ns, nsSeen, kv, hooks>>

\* handleUpdate: AddFinalizer and Update when it was missing.
UFin ==
    /\ pc = "u_fin"
    /\ \/ /\ inst.fin
          /\ pc' = "u_ns"
          /\ UNCHANGED <<cr, seenCur, inst, instCur, queued>>
       \/ /\ ~inst.fin /\ Accepts
          /\ OwnWrite([cr EXCEPT !.fin = TRUE])
          /\ inst' = [inst EXCEPT !.fin = TRUE]
          /\ pc' = "u_ns"
       \/ /\ ~inst.fin /\ ~Accepts
          /\ Fail
    /\ UNCHANGED <<crSeen, ns, nsSeen, kv, hooks, stamped, old, requeue>>

\* handleUpdate, the Namespace component: CreateOrUpdate gets the
\* namespace from the cache and creates it when missing (AlreadyExists if
\* the cache was behind) or updates it (NotFound if it is gone).
UNs ==
    /\ pc = "u_ns"
    /\ \/ /\ nsRead = "absent" /\ ns = "absent"
          /\ ns' = "active"
          /\ pc' = "u_find"
          /\ Enqueue
       \/ /\ nsRead # "absent" /\ ns # "absent"
          /\ pc' = "u_find"
          /\ UNCHANGED <<ns, queued>>
       \/ /\ (nsRead = "absent") # (ns = "absent")
          /\ Fail
          /\ UNCHANGED ns
    /\ UNCHANGED <<cr, crSeen, seenCur, nsSeen, kv, hooks, inst, instCur,
                   stamped, old, requeue>>

\* handleUpdate: SetStatusCondition(Accepted) stamps the copy; then
\* findNamespace; with none listed, ns.GetName() on the nil result
\* panics, which the controller recovers as an error.  Otherwise the
\* KubeVirt machine sets the phase; a VM not Ready gets the create webhook
\* unless none is configured or the annotation says manual.
UFind ==
    /\ pc = "u_find"
    /\ stamped' = TRUE
    /\ \/ /\ ~findNamespace(nsRead)
          /\ Fail
       \/ /\ findNamespace(nsRead)
          /\ inst' = [inst EXCEPT !.phase = kvPhase(@)]
          /\ pc' = IF inst'.phase = "Ready" \/ ~CreateVMWebhook
                      \/ Annotation = "manual"
                   THEN "status" ELSE "u_hook"
          /\ UNCHANGED <<queued, instCur>>
    /\ UNCHANGED <<cr, crSeen, seenCur, ns, nsSeen, kv, hooks, old, requeue>>

\* handleDelete: findNamespace; while one is listed, fire the delete
\* webhook (unless none is configured or manual) and return; when none is
\* left, go on to remove the finalizer.
DFind ==
    /\ pc = "d_find"
    /\ pc' = IF ~findNamespace(nsRead) THEN "d_fin"
             ELSE IF DeleteVMWebhook /\ Annotation # "manual" THEN "d_hook"
             ELSE "status"
    /\ UNCHANGED <<cr, crSeen, seenCur, ns, nsSeen, kv, hooks, queued, inst,
                   instCur, stamped, old, requeue>>

HookKind == IF pc = "u_hook" THEN "create" ELSE "delete"

\* The reconcile state a webhook call leaves alone.
HookFrame == UNCHANGED <<cr, crSeen, seenCur, ns, nsSeen, kv, queued, inst,
                         instCur, stamped, old>>

\* TriggerWebhook succeeds: the receiver got the request.
HookOk ==
    /\ pc \in {"u_hook", "d_hook"}
    /\ hooks' = hooks \cup {HookKind}
    /\ pc' = "status"
    /\ UNCHANGED requeue
    /\ HookFrame

\* TriggerWebhook skips the call within the minimum interval: RequeueAfter.
HookSkip ==
    /\ pc \in {"u_hook", "d_hook"}
    /\ requeue' = TRUE
    /\ pc' = "status"
    /\ UNCHANGED hooks
    /\ HookFrame

\* TriggerWebhook fails (refused, non-2xx, or timed out after delivery):
\* the handler returns Requeue with a nil error, so the status is still
\* written.
HookFail ==
    /\ pc \in {"u_hook", "d_hook"}
    /\ \E delivered \in BOOLEAN :
         hooks' = IF delivered THEN hooks \cup {HookKind} ELSE hooks
    /\ requeue' = requeueOnHookError
    /\ pc' = "status"
    /\ HookFrame

\* handleDelete: RemoveFinalizer and Update; the API server then removes
\* the deleted VM.
DFin ==
    /\ pc = "d_fin"
    /\ \/ /\ Accepts
          /\ OwnWrite([cr EXCEPT !.exists = FALSE, !.fin = FALSE])
          /\ inst' = [inst EXCEPT !.fin = FALSE]
          /\ pc' = "status"
       \/ /\ ~Accepts
          /\ Fail
    /\ UNCHANGED <<crSeen, ns, nsSeen, kv, hooks, stamped, old, requeue>>

\* Reconcile, after a handler that returned no error: Status().Update when
\* the status differs from oldstatus (an error if it fails), then return.
Status ==
    /\ pc = "status"
    /\ pc' = "idle"
    /\ \/ /\ ~statusChanged
          /\ queued' = (queued \/ requeue)
          /\ UNCHANGED <<cr, seenCur, instCur>>
       \/ /\ statusChanged /\ Accepts
          /\ OwnWrite([cr EXCEPT !.phase = inst.phase])
       \/ /\ statusChanged /\ ~Accepts
          /\ Enqueue
          /\ UNCHANGED <<cr, seenCur, instCur>>
    /\ UNCHANGED <<crSeen, ns, nsSeen, kv, hooks, inst, stamped, old, requeue>>

\* The same Status().Update when the only difference, the re-stamped
\* LastTransitionTime, serializes to the second already stored: the API
\* server finds the object unchanged and stores nothing, so there is no
\* new resource version and no watch event (Status above is the write
\* that crossed into a new second).
StatusSameSecond ==
    /\ pc = "status"
    /\ sameSecondPossible /\ Accepts
    /\ pc' = "idle"
    /\ queued' = (queued \/ requeue)
    /\ UNCHANGED <<cr, crSeen, seenCur, ns, nsSeen, kv, hooks, inst, instCur,
                   stamped, old, requeue>>

-----------------------------------------------------------------------------
(* The environment. *)

\* What the actors around the reconcile leave alone of its state.
RunFrame == UNCHANGED <<pc, inst, stamped, old, requeue>>

\* The user deletes the VM: with a finalizer it is marked for deletion,
\* without one it is removed.  Any copy is now of an old version.
UserDelete ==
    /\ cr.exists /\ ~cr.deleting
    /\ cr' = IF cr.fin THEN [cr EXCEPT !.deleting = TRUE]
             ELSE [cr EXCEPT !.exists = FALSE]
    /\ seenCur' = FALSE
    /\ instCur' = FALSE
    /\ Enqueue
    /\ UNCHANGED <<crSeen, ns, nsSeen, kv, hooks>>
    /\ RunFrame

\* The informers catch up with the API server and deliver the event.
CacheSync ==
    /\ StaleVMCache \/ StaleNsCache
    /\ ~seenCur \/ nsSeen # ns
    /\ crSeen' = cr
    /\ seenCur' = TRUE
    /\ nsSeen' = ns
    /\ Enqueue
    /\ UNCHANGED <<cr, ns, kv, hooks, instCur>>
    /\ RunFrame

\* The automation behind the create webhook provisions the machine in an
\* active namespace.
AutoCreate ==
    /\ "create" \in hooks
    /\ hooks' = hooks \ {"create"}
    /\ IF ns = "active" /\ kv = "absent"
       THEN kv' = "running" /\ Enqueue
       ELSE UNCHANGED <<kv, queued>>
    /\ UNCHANGED <<cr, crSeen, seenCur, ns, nsSeen, instCur>>
    /\ RunFrame

\* The automation behind the delete webhook deletes the namespace.
AutoDelete ==
    /\ "delete" \in hooks
    /\ hooks' = hooks \ {"delete"}
    /\ IF ns = "active"
       THEN ns' = "terminating" /\ Enqueue
       ELSE UNCHANGED <<ns, queued>>
    /\ UNCHANGED <<cr, crSeen, seenCur, nsSeen, kv, instCur>>
    /\ RunFrame

\* The namespace controller finishes deleting the namespace and its
\* contents.
NsFinalized ==
    /\ ns = "terminating"
    /\ ns' = "absent"
    /\ kv' = "absent"
    /\ Enqueue
    /\ UNCHANGED <<cr, crSeen, seenCur, nsSeen, hooks, instCur>>
    /\ RunFrame

\* KubeVirt reports the machine ready.
KvReady ==
    /\ kv = "running"
    /\ kv' = "ready"
    /\ Enqueue
    /\ UNCHANGED <<cr, crSeen, seenCur, ns, nsSeen, hooks, instCur>>
    /\ RunFrame

Next ==
    \/ Start \/ UFin \/ UNs \/ UFind \/ DFind \/ DFin \/ Status \/ StatusSameSecond
    \/ HookOk \/ HookSkip \/ HookFail
    \/ UserDelete \/ CacheSync \/ AutoCreate \/ AutoDelete \/ NsFinalized
    \/ KvReady

Spec == Init /\ [][Next]_vars

\* The work queue runs a queued key and a run proceeds; informers catch
\* up; the receiver's automation and the namespace controller act on what
\* they were given; a webhook receiver asked again and again eventually
\* answers.  The user is not assumed to act.  A reconcile set off by the
\* operator's own status write runs milliseconds after it, so its
\* re-stamped status cannot cross into a new second forever: a write that
\* the API server finds unchanged eventually happens (strong fairness,
\* since it is possible only when the copy is current and unchanged).
Fairness ==
    /\ WF_vars(Start) /\ WF_vars(UFin) /\ WF_vars(UNs) /\ WF_vars(UFind)
    /\ WF_vars(DFind) /\ WF_vars(DFin) /\ WF_vars(Status)
    /\ SF_vars(StatusSameSecond)
    /\ WF_vars(HookOk \/ HookSkip \/ HookFail) /\ SF_vars(HookOk)
    /\ WF_vars(CacheSync) /\ WF_vars(AutoCreate) /\ WF_vars(AutoDelete)
    /\ WF_vars(NsFinalized)

FairSpec == Spec /\ Fairness

-----------------------------------------------------------------------------
TypeOK ==
    /\ cr \in VM
    /\ crSeen \in VM
    /\ seenCur \in BOOLEAN
    /\ ns \in NsStates
    /\ nsSeen \in NsStates
    /\ kv \in {"absent", "running", "ready"}
    /\ hooks \subseteq {"create", "delete"}
    /\ queued \in BOOLEAN
    /\ pc \in {"idle", "u_fin", "u_ns", "u_find", "u_hook", "d_find",
               "d_hook", "d_fin", "status"}
    /\ inst \in VM
    /\ instCur \in BOOLEAN
    /\ stamped \in BOOLEAN
    /\ old \in Phases
    /\ requeue \in BOOLEAN

Lifecycle == INSTANCE HubLifecycle WITH
    vm <- IF ~cr.exists THEN "gone" ELSE IF cr.deleting THEN "deleting" ELSE "live",
    space <- IF ns = "absent" THEN "absent" ELSE "present"

\* The finalizer protocol of handleUpdate and handleDelete implements the
\* lifecycle of HubLifecycle: the VM leaves the API server only after its
\* namespace is gone, and no namespace is created for it afterwards.
LifecycleRefinement == Lifecycle!Spec

\* A VM whose deletion was requested eventually leaves the API server:
\* handleDelete fires the delete webhook while the namespace exists and
\* removes the finalizer once it is gone.
DeletionCompletes ==
    cr.exists /\ cr.deleting ~> ~cr.exists

\* Once the VM has left the API server, no namespace of it is left behind.
NoOrphanNamespace ==
    ~cr.exists => ns = "absent"

\* Once the VM is gone or its KubeVirt machine is ready for good, so that
\* no create webhook is due (a VM not Ready gets the webhook again every
\* interval, by design), the operator eventually stops reconciling it.  Every run re-stamps the Accepted condition
\* (virtualmachine_conditions.go line 28), so Reconcile (line 123) always
\* issues Status().Update, and every write that reaches the API server
\* queues the key again through the operator's own watch; the loop ends
\* only through a write the server finds unchanged and a run that asks for
\* no requeue (webhook delivered, line 271).
ReconcileQuiesces ==
    <>[](kv = "ready" \/ ~cr.exists) => <>[](~queued /\ pc = "idle")
=============================================================================
