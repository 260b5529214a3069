# TLA+ models of the OSAC fulfillment service and hub operator

This directory holds TLA+ modules and the TLC configurations that check them.
It covers the code under `src/`: the fulfillment service's generic DAO and
servers, its forward VM reconciler, and the hub-side operator with its
feedback reconciler. `PROJECT.json` lists the components, the runs, the
mutants, the map from each definition to the source lines it translates, the
findings and the hazards.

## The system and how its parts interact

* **Generic DAO** (`database/dao/generic_dao.go`) stores every object kind in
  a table with these columns: id, creation and deletion timestamps,
  finalizers, creators, tenants and a JSON payload.
  * Delete is soft. It stamps `deletion_timestamp`.
  * A row that is deleted and has no finalizers is moved to `archived_<table>`.
    `delete` does this at once. `update` does it when it removes the last
    finalizer.
  * Every write fires an event to callbacks, inside the transaction.
  * Reads, and delete's write, are filtered by the caller's visible tenants.
  * List runs two statements: a `count(*)` for the total, then a select
    with `offset` (clamped to at least 0) and `limit` (negative gives 0,
    zero the default, above the maximum the maximum).
    An empty set means no filter.
* **Auth** (`auth/`) decides who the caller is and what they may do:
  * the attribution logic gives the creators stamped on new rows;
  * the tenancy logic gives the assigned tenants stamped on new rows and the
    visible tenants that filter queries.
* **Servers** (`servers/`) translate gRPC calls into DAO calls.
  * The private VM server validates the template on Create and on Update.
  * The public servers implement Update as Get, then merge, then private
    Update.
* **Forward reconciler** (`controllers/vm/vm_reconciler_function.go`) takes
  each changed VM and does the following:
  1. sets the defaults;
  2. if the VM is progressing, selects a hub: the one pinned in status, or
     a random one;
  3. creates or patches the native `VirtualMachine` in that hub;
  4. saves the VM with the hub pinned.

  A VM that is being deleted has its native object deleted on the pinned hub.
* **Hub operator** (`openshift/operator/controllers/controller/`):
  * `virtualmachine_controller.go` drives the native object. It adds a
    finalizer, creates the namespace, fires a webhook and sets the phase to
    Progressing or Ready.
  * `virtualmachine_feedback_controller.go` reads the VM from the
    fulfillment service, maps the native conditions and phase onto it, and
    saves it when the result differs.
  * `clusterorder_webhook.go` keeps an in-flight cache so that the same
    webhook is not fired again too soon.

  On the hub, the operator's finalizer keeps the native VM in the API
  server until its namespace is gone. The namespace is created by the
  operator and deleted by the automation behind the delete webhook. The
  operator reads the VM and the namespaces through controller-runtime's
  informer caches, which may lag the API server, and writes with the
  resource version it read. Every status condition it sets carries
  `LastTransitionTime` of now, and every write of the VM, status included,
  comes back to it as a watch event that queues the VM again.

The forward and feedback reconcilers write the same VM row through
`VirtualMachines.Update`. That call writes the whole object sent, with no
version check. This shared row is where most of the interesting behaviour is.

## Modules

| module | models | state | actions |
|---|---|---|---|
| `ObjectStore` | what the DAO promises (spec.md 3, 4.2): an atomic table with soft delete and archival | `table`, `archived` | `Create`, `Update`, `Delete` |
| `GenericDAO` | `generic_dao.go`: create, get, update (two steps: `d.get`, then the equivalence check, UPDATE, event and archive), delete, list (count, then select with the offset and limit clamps), with the tenancy filter | the two above, `view` (last event per id), and per caller `copy`, `pc`, `req`, `cur`, `base`, `lst` (a pending list: its offset, limit and counted total) | `Get`, `Create`, `UpdateGet`, `UpdateWrite`, `UpdateAbort`, `Delete`, `ListCount`, `ListFetch` |
| `MC_GenericDAO` | the callers' attribution and tenancy as definitions for the cfgs | | |
| `HubLifecycle` | what the operator's finalizer promises: the VM leaves only after its namespace is gone, and no namespace is provisioned for it afterwards | `vm`, `space` | `Provision`, `Deprovision`, `Delete`, `Release` |
| `HubOperator` | `virtualmachine_controller.go`: Reconcile, handleUpdate, handleDelete and the status write, one step per API call, against the API server (resource versions, finalizer semantics), lagging informer caches, the user, the webhook automation and the namespace controller | `cr`, `crSeen`, `seenCur`, `ns`, `nsSeen`, `kv`, `hooks`, `queued`, and for the running reconcile `pc`, `inst`, `instCur`, `stamped`, `old`, `requeue` | `Start`, `UFin`, `UNs`, `UFind`, `DFind`, `HookOk`, `HookSkip`, `HookFail`, `DFin`, `Status`, `StatusSameSecond`; environment: `UserDelete`, `CacheSync`, `AutoCreate`, `AutoDelete`, `NsFinalized`, `KvReady` |
| `VMReconcile` | one VM with the forward reconciler, one feedback reconciler per hub, the operator's Ready transition, users deleting the VM or its template, and the user's public Update (`virtual_machines_server.go`: private Get, then private Update of the merged object) | `row`, `lastObj` (object of the last event), `templateOK`, `native`, `created`, `fwd`, `fb`, `usr` (the object the user's Update got) | `FwdStart`, `FwdHubCacheFails`, `FwdKube`, `FwdDelete`, `FwdSave`, `FbStart`, `FbSave`, `NativeReady`, `UserDeleteVM`, `UserDeleteTemplate`, `UserGet`, `UserUpdate` |
| `FeedbackConditions` | `virtualmachine_feedback_controller.go` handleUpdate/syncCondition/syncPhase against the conditions and phase the operator's `handleUpdate` writes | `native` (status per native condition type), `phase`, `kvReady`, `vm` (state and internal conditions with transition times), `clock`, `writes`, `lastSeen` | `FeedbackPass` (one whole Reconcile: fold of `syncCondition` over the native list, `syncPhase`, Update if changed), `OperatorReconcile`, `KubeVirtReady` |
| `WebhookCache` | `clusterorder_webhook.go`: `checkForExistingRequest`, `purgeExpiredRequests` as its two critical sections, the POST, `addInflightRequest`, shared by concurrent reconciles | `inflight` (age per name), per object `pc`, `after`, `expired`, `requeue`, `requeued`; `sinceSent` (age of the last POST the receiver got, per name) | `Check`, `PurgeScan`, `PurgeDelete`, `PostOk`, `PostFail`, `PostTimeout`, `Add`, `Skipped`, `Event`, `Tick` |
| `MC_WebhookCache` | the objects-to-names map for the cfgs | | |

`GenericDAO` instantiates `ObjectStore` with the identity mapping. Its
property `StoreRefinement == Store!Spec` shows that every committed DAO step
is a step of the atomic store.

`HubOperator` instantiates `HubLifecycle` with a refinement mapping:
`vm` is "gone" when the VM is not in the API server, "deleting" when it
carries a deletion timestamp, and "live" otherwise; `space` is "present"
while the namespace exists, terminating or not. `LifecycleRefinement ==
Lifecycle!Spec` is the claim that the operator implements the lifecycle.

Abstractions:
* Payloads are model values.
* Finalizer, creator and tenant lists are sets. The code sorts and
  deduplicates finalizers before writing them.
* Timestamps are reduced to a deletion flag.
* In `VMReconcile`, the VM is the part both reconcilers touch: state,
  `status.hub` and the deletion flag. Native objects are hub, name and phase.
  The user's Update edits only the spec, which is left out. The mapper
  that copies public fields onto the object got is not in these sources,
  so the merged object keeps the state and `status.hub` it was read with.
* In `FeedbackConditions`, timestamps are ticks of a clock and condition
  messages (always empty in the operator) are left out.
* In `WebhookCache`, time is the age of each cache entry in ticks,
  saturated at `Interval + 1`, which keeps every comparison of the code
  (`>=` in the check, `>` in the purge). `time.Since` of an entry made
  during the current tick counts as one tick, since it is always positive;
  so an entry of age `Interval` is already past the interval and the purge
  collects it (`PurgeScan` takes ages `>= Interval`).
  The cache code has no caller in these sources (the ClusterOrder
  controller is not included, and the VM controller calls a
  `WebhookClient` that is not included either); the caller's handling of
  the result, requeue after the returned delay or `Requeue` on error, is
  taken from `virtualmachine_controller.go` lines 270-281.
* In `HubOperator`, the VM is its existence, deletion timestamp, finalizer,
  phase. The resource version is abstracted to whether a copy (the cached
  VM, the reconcile's copy) is of the current version, since the API
  server only compares versions for equality and every write makes a
  new one. Conditions are left to `FeedbackConditions` except for
  `stamped`: `SetStatusCondition` puts `metav1.Now()` into the condition,
  which has nanoseconds while the stored time is serialized to the
  second, so the status of a run that stamped a condition always differs
  from `oldstatus` and is written (`Status`). When the stamp falls in the
  same second as the stored one the API server finds the object
  byte-identical, makes no new version and sends no event
  (`StatusSameSecond`, possible only when the phase is unchanged).
  A webhook call has three outcomes (delivered, skipped within the minimum
  interval, failed with or without delivery); the rate limit itself is in
  `WebhookCache`. An informer cache is a copy of the API server's state
  that catches up in one step; the caches only move forward, as
  controller-runtime's do. `findNamespace` returning nil makes
  `ns.GetName()` panic in handleUpdate; controller-runtime recovers the
  panic into an error, and a crashing operator would equally retry after
  its restart, so both are modelled as an error return.

## Runs

| run | cfg | expect | what it shows |
|---|---|---|---|
| dao | `GenericDAO.cfg` | pass | Two callers interleave create, read-modify-update and delete over two ids. One caller sees tenant t1; the other has empty tenancy. `StoreRefinement`: every committed step, update's archive of a row whose last finalizer goes and delete's archive of a row without finalizers included, is a step of the atomic store. |
| dao_tenancy | `GenericDAO_tenancy.cfg` | violation | `UpdatesRespectTenancy` fails. The caller limited to t1 updates by id, and `update` (line 765) writes `where id = $3` with no tenancy filter, so it overwrites a row created by the other caller that it cannot see. |
| dao_finalizers | `GenericDAO_finalizers.cfg` | violation | `FinalizersRemovedOnlyOnRequest` fails. An update built from a read made before another caller added a finalizer writes its own finalizer list back, so the other caller's finalizer is removed. |
| vm_reconcile | `VMReconcile.cfg` | pass | Both reconcilers and the user's public Update, with transient failures and condition churn, over every interleaving: `TypeOK`, and every action of the module fires. |
| vm_binding | `VMReconcile_binding.cfg` | violation | `HubBindingKept` fails. The feedback reconciler fetches the VM before the forward reconciler saves the pinned hub. It then saves what it fetched, with no hub. The user's public Update breaks it the same way: it gets the object, and then sends it back whole, with the `status.hub` it read. |
| vm_repick | `VMReconcile_repick.cfg` | violation | `NativeOnOneHub` fails. A run picks h2 and creates the native object there (line 177); its save fails, so `status.hub` stays empty; the retry picks h1 at random (line 288) and creates a second object on h1. |
| vm_orphan | `VMReconcile_orphan.cfg` | violation | `NativeRemovedAfterDelete` fails under `FairSpec`. A run creates the native object, the user deletes the VM before the run saves the hub, the save fails, and every later run of the delete branch finds no pinned hub and does nothing (line 243), so the native object is never deleted. |
| feedback | `FeedbackConditions.cfg` | pass | `TypeOK` over every interleaving of operator and feedback passes: every native condition status maps to an internal one; every action fires. |
| feedback_idempotent | `FeedbackConditions_idempotent.cfg` | violation | `FeedbackIdempotent` fails. Accepted, Deleting and Progressing all write the one internal PROGRESSING condition. Accepted=True, Deleting=False, Progressing=True flip it on every pass, which stamps a new transition time and issues an Update although nothing changed natively. |
| webhook_refire | `WebhookCache_refire.cfg` | violation | `NoRefireWithinInterval` fails. Object o2's purge scans name n1 as expired; o1 posts and adds a fresh n1 entry; o2's purge deletes it; o1's next check finds no entry and posts again at once. |
| hub | `HubOperator.cfg` | pass | With a lagging VM cache, an up-to-date namespace cache, webhook skips and failures: `LifecycleRefinement`, the operator implements `HubLifecycle`, and `DeletionCompletes`, a VM whose deletion was requested always leaves the API server. A lagging VM cache is harmless because reconciles of a key are serialized and a cache never goes back, so a reconcile that saw the deletion is never followed by one that did not. `ReconcileQuiesces`: once the KubeVirt VM stays Ready (or the VM is gone), reconciles eventually stop; the loop of status writes, each queueing the key again, ends with a stamp-only write in the same second. `DeletionCompletes` also holds with both caches lagging; that configuration breaks the refinement (hub_orphan), so it is not a run of its own. |
| hub_orphan | `HubOperator_orphan.cfg` | violation | `NoOrphanNamespace` fails when the namespace cache lags. A reconcile reads the VM, the user deletes it, the reconcile creates the namespace and finds it missing from the cache (nil, panic, error). The next reconcile lists no namespace in the cache, removes the finalizer (line 346), and the VM leaves while its namespace stays. |

For each property of a passing run, `PROJECT.json` lists a mutant: a
plausible bug in the code that TLC then finds.

## Bounds

* **dao:** two ids, two payloads, one finalizer, two callers. This is enough
  to show:
  * a caller's read being overtaken by another caller's write;
  * finalizers being added and removed;
  * archival by `delete` and by `update`;
  * two callers with different tenancy.

  List takes offsets -1 and 1 and limits -1, 0, 1 and 3 with a default
  limit of 1 and a maximum of 2, so every branch of both clamps is taken
  and the count and the select are interleaved with the other caller's
  writes; no property is stated about list (see hazards).

  Ids are never reused: `Fresh` models `newId`, which draws a random UUID.
* **vm_reconcile:** two hubs, so a random pick can land on another hub, and
  at most three native objects ever created. That is enough for one object
  per hub plus a retry.
* **feedback:** one VM; clock bounded at 20 ticks, which allows several
  transitions of every condition. The operator writes the whole native
  status, so the reachable native states are few and all of them occur.
* **webhook_refire:** two objects (concurrency between reconciles of
  different objects is what the lock guards; one object's reconciles are
  serialized by the controller), interval 2 ticks.
* **hub:** one VM, the unit the operator reconciles. The state space is
  finite without a bound: versions are the currency flags, and the
  namespace and KubeVirt machine have three states each. Every outcome of
  every API call occurs.

## Fairness

The safety runs assume no fairness. The controller framework retries a
reconcile that returned an error; in the model, the reconciler returns to
`idle` and may start again.

`NativeRemovedAfterDelete` is checked under `FairSpec` of `VMReconcile`:
weak fairness on the forward reconciler's steps only. The framework
re-runs a reconcile that failed and the run's steps are local; users, the
hub operator and the feedback reconcilers are not assumed to act.

`DeletionCompletes` and `ReconcileQuiesces` are checked under `FairSpec` of `HubOperator`:
* weak fairness on `Start`: controller-runtime's work queue runs a queued
  key (queued by a watch event, `Requeue`, `RequeueAfter` or an error);
* weak fairness on every step of a running reconcile;
* weak fairness on `CacheSync`: informers catch up;
* weak fairness on the automation (`AutoCreate`, `AutoDelete`) and on the
  namespace controller (`NsFinalized`): they act on what they were given;
* strong fairness on `HookOk`: a webhook receiver asked again and again
  eventually answers 2xx.
* strong fairness on `StatusSameSecond`: the status write queues the key
  again and the next reconcile follows within milliseconds, so among the
  repeated writes one eventually stamps the same second as the stored
  condition.
* The user is not assumed to act.

## Not modelled yet, and the plan

* Found while modelling and not kept as a run:
  * `WebhookCache`: a skipped call is requeued after the time elapsed
    since the entry (line 33), not the time remaining as spec.md says.
* The external authentication function (`grpc_external_authn_func.go`)
  holds no state: each call is decided alone from the header values and
  the method, and its unit tests cover every branch. Nothing in it can be
  interleaved, so it is not modelled. The authorization decision is Rego,
  outside these sources.
* The cluster server's validation (`private_clusters_server.go`) checks one
  request against one template read. Template delete never looks for
  clusters that refer to the template. So a concurrent template change
  reaches no state that the same calls made one after another do not. The
  node-set merge, and the fact that Update skips it, are sequential, and
  unit tests reach them. The same holds for the VM server's template
  check at create.
* These parts are described in spec.md but their code is not in these
  sources: the filter translator, notifier, transaction manager, generic
  server, hub cache and controller framework.
* List's count and select are two statements. A commit between them makes
  the total disagree with the items. The model has this window, but no
  run checks it: spec.md does not say which answer is intended, and the
  isolation level is set by the database.
* The webhook cache key is the object name without its namespace. With two
  same-named objects, a request can go unposted forever: one object is skipped on
  every retry while the other keeps the shared entry fresh. This needs the
  other object to be re-triggered forever at the wrong moments, so it is
  recorded as a hazard, not a run.
