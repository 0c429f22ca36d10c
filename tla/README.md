# TPU Provisioner in TLA+

A verification project for the TPU Provisioner, a Kubernetes controller manager
that creates and deletes GKE node pools and Slices for TPU workloads. Paths are
relative to the repository; `gke.go` is `internal/cloud/gke.go`, the
`*_controller.go` files are in `internal/controller/`.

## 1. The system

One process (`cmd/main.go`) runs a controller manager. Its parts:

| Part | State it keeps | Operations | Talks to |
|---|---|---|---|
| **GKE provider** (`gke.go`, `gke_service.go`) | three `sync.Map`s of requests in progress: creates by pool name, creates by job key, deletes by pool name | `EnsureNodePoolForPod`, `DeleteNodePool`, `ListNodePools`, `DiffStaticNodePools`, `EnsureStaticNodePools`, `DeleteStaticNodePools` | GKE API: requests that start long operations, polled for up to 30 minutes |
| **Creation reconciler** (`creation_controller.go`) | a workqueue of pods | ask for a pool for an unschedulable leader pod | provider; cached Pods, JobSets |
| **Deletion reconciler** (`deletion_controller.go`) | a workqueue of nodes | delete the pool of a node whose JobSet is gone, completed or failed | provider; cached Nodes, JobSets |
| **Garbage collector** (`nodepool_garbage_collector.go`) | the list of its current pass | delete pools in ERROR without nodes and without a JobSet | provider; cached JobSets, Nodes |
| **JobSet / LWS slice reconcilers** (`jobset_slice_controller.go`, `lws_slice_controller.go`, `slice_shared.go`) | two workqueues | keep the Slices of an owner as its annotation asks, a finalizer on the owner, suspension in sync mode | API server; cached owners and Slices |
| **Static pool reconciler** (`static_nodepool_controller.go`) | one key | make the static pools those of a ConfigMap | provider; cached ConfigMap, Slices, Nodes |
| **Webhooks** (`internal/webhook/`) | none | pin the pods of a Job or StatefulSet to a Slice by a node selector | admission requests; cached LeaderWorkerSets |
| **Node pool construction** (`gke.go`, `static_nodepool_controller.go`, `internal/utils/`) | none | compute a pool and its hash from a pod or from a ConfigMap | called by the provider and the static reconciler |
| **Python admission controller** | none | add node selectors to Jobs; a separate service | admission requests |

What is hard: a provider call takes minutes and shares its maps with other
goroutines; GKE goes on with an operation nobody waits for any more; the outcome
of an operation is not looked at; every read of a Kubernetes object is from a
cache that lags; requests are sent one by one and any of them can fail or be
carried out with its answer lost; the process may die between any two of them
with nothing persisted. `PROJECT.json` lists these hazards at their lines.

What makes each part correct:

- provider: its maps hold keys only of requests that are running (not all of
  them: the first of two racing calls to end deletes the other's key too); every
  call returns; a pool of an older release is not recreated; its
  answers mean what the callers take them to mean;
- dynamic provisioning: a pod gets its pool, a pool is deleted once its JobSet is
  over, and never while the JobSet object the decision was about is active;
- slices: Slices are written only under the finalizer, wakeups are not lost, an
  owner gets what it asks for, a ready JobSet runs, a deleted owner does not hang
  on its finalizer;
- webhooks: a workload is pinned to a Slice that the reconciler really keeps,
  though the two never talk;
- static pools: the ConfigMap is reached, parameter by parameter; a subblock is
  never given to a new pool while a working pool holds it; a reconcile ends.

## 2. Modules

| Module | Models | State and actions |
|---|---|---|
| `GKEProvider` | the provider and GKE | `pools` is what the GKE API shows; `createsNP`, `createsKey`, `deletesNP` are the maps; `pc`, `req`, `op`, `ret` are each goroutine's place in its call, arguments, operation and result. One action per access to shared state, named after the code: `Check`, `CreateLoadNPName`, `CreateStoreNPName`, ..., `DeleteWaits`, `StaticAccepted`. `CreateReturns` and `DeleteReturns` are the deferred deletes. |
| `GKEProviderProofs` | | proofs about the provider under arbitrary callers (`GKESpec`) |
| `ProviderCalls` | the promise of the `cloud.Provider` interface | the abstract specification of a provider: `cluster` is what GKE shows, `call` what each caller asked for, how far the call is and what it was told. No maps, no checks, no polling: a call has at most one request accepted; "duplicate" is answered only while another call is at work on the same pool or job, nil only if the pool is as asked for or the operation of the call has ended, "stopping" only if the pool is being deleted, "recreate" only if the old pool is gone or its deletion has ended. One exception is named, `StoppingTakenForThere`: nil for a matching pool that is being deleted (finding 5). |
| `GKERefinement` | | the refinement mapping from `GKEProvider` (`pc`, `op`, `ret` to the state of a call) and `KeepsPromise == Promise!Spec` |
| `GKERefinementProofs` | | the proof of that refinement |
| `NodePoolSpecs` | node pool construction | pure operators with the names of the Go functions: `nodePoolForPod`, `tpuTopologyToNodeCount`, `tpuMachineType`, `constructDesiredNodePools`, `ParseSubBlocks`, `StaticNodePoolForSubBlock`, `nodePoolHash` |
| `Provisioner` | creation and deletion reconcilers, collector, cluster | extends `GKEProvider`; a reconcile up to its provider call is one action (it only reads caches), the call's steps are the provider's, and `CreationReturns`, `DeletionReturns`, `GCReturns` treat its result. `jsCache` lags behind `jobsets`. `why` records the JobSet a deletion was decided on and is history only. |
| `ProvisionerProofs` | | refinement to `GKESpec` and to the promise, `DeletesJustified` |
| `Slices` | both slice reconcilers, API server, slice controller | `rec[k]` is the reconcile of worker `k`: the objects it has read and the plan it has still to carry out. Each API request is an action. `lab` is an owner's slice label, which `RemoveLabel` takes away and the event filter looks at. |
| `SlicesProofs` | | types, the finalizer, wakeups, and the lists that reconciles work from |
| `SliceWorkloads` | both webhooks | extends `Slices`; `workloads` is the Job or StatefulSet of each owner and replica with the Slice it is pinned to, or none if it lacks the annotations or the owner reference the webhook needs (`bare`): the webhooks let such a workload pass. A workload may come of any object its owner's name has had. A request that is refused leaves no trace. |
| `SliceWorkloadsProofs` | | the webhooks leave what holds of `Slices` alone; `PinnedToOwnSlice` |
| `StaticNodePools` | static pool reconciler | extends `GKEProvider`; `phase` and `plan` are the reconcile, `Threads` its goroutines, `HasSlot` and `DeleteSlots` the semaphores. The pools wanted are computed with `NodePoolSpecs` from the content of the ConfigMap; `built` records what each pool was made from and is history only. `Managed` are the pools the reconciler recognises by the static label and a hash. |
| `StaticNodePoolsProofs` | | refinement to `GKESpec`, `WorkingPoolKeepsSubblock` |
| `MC*` | | constants for TLC |

`Provisioner` and `StaticNodePools` compose their controllers with the provider by
sharing its variables and actions: a step of a provider call leaves the
controllers' variables alone, and a controller starts a call by conjoining the
provider's action. There are two levels of abstraction above them: `GKESpec`, the
provider under arbitrary callers, which `ProvisionerProofs` and
`StaticNodePoolsProofs` show their controllers to implement, and `ProviderCalls`,
which `GKESpec` implements under the mapping of `GKERefinement`. `SliceWorkloads`
composes the webhooks with `Slices` in the same way: every behaviour of it is one
of `Slices`.

Abstractions. A pool is its status and the labels the controllers read. To the
provider its configuration is a hash and its name a value; in the static runs both
are what `NodePoolSpecs` computes. There, a string put together from parts is the
tuple of the parts, a hash is the record of what is hashed, and `None` is a value
that is not set or an error. Pods, nodes and
JobSets have the phases the code tells apart. Time is nondeterministic: a
`RequeueAfter` or a backoff is an item that stays queued, `MinLifetime` is a node
turning from young to old, the recreation wait of a Slice is a choice at each
reconcile. Overlap checks read the cached index in one step. The UID of a JobSet
is a generation number, bounded by `MaxGen`. The UID of a Slice is a number that
no cache or reconcile remembers of an earlier Slice of the name (`FreshUID`): with
one cache and two workers four values do, without a bound on the number of Slices. A reconcile's cached reads fail only
with NotFound: any other error ends in a retry with nothing done.

Environment. GKE refuses a create of a name that exists and a delete of a pool on
which an operation runs, may refuse anything, and ends operations at any time,
well or badly. Pods, nodes, JobSets, the slice controller and the informers are
external, modelled by what the code relies on.

## 3. Runs

| Run | Instance | Shows |
|---|---|---|
| `provider` | two threads, one name, two job keys, two hashes, pools of this and of an older release | `GKETypeOK`, `InProgressOwned`, `LegacyPoolKept`, `EveryCallReturns`, `KeepsPromise` |
| `stopping` | the same | `StoppingPoolAwaited` is violated (finding 5) |
| `prov_live` | a creation worker, a deletion worker, the collector; one JobSet, one pod, one node | `TypeOK`, `DeletesJustified`, `DeletedJobSetCleaned` |
| `pods` | a creation worker and the collector; one JobSet and pod; at the start, no pool, or one of the pod's configuration or of another, running or in ERROR | `PendingPodServed` |
| `ended` | as `prov_live` | `EndedJobSetCleaned` is violated (finding 1) |
| `slices_safety` | one sync JobSet created twice, Slices of the older naming release, Slices that fail and are recreated, a selection that changes or does not parse | `TypeOK`, `AppliesUnderFinalizer`, `Converged`, `DeletesWhatItRead`, `FinalizerOutlivesListedSlices` |
| `slices_live` | one sync JobSet whose selection changes and whose label may be taken away | `Converged`, `DeletedOwnerGoes`, `SlicesServed`, `ReadyJobSetReleased` |
| `workloads` | a JobSet and a LeaderWorkerSet on one partition, a Job and a worker StatefulSet, bare or not | `WorkloadsTypeOK`, `Converged`, `PinnedToOwnSlice` |
| `leak`, `overlap`, `unsuspend` | one or two owners | violated (findings 2 to 4) |
| `static` | two pools, two subblocks, a delete concurrency of 0; the ConfigMap moves a subblock from one pool to the other, or is unusable | `StaticTypeOK`, `WorkingPoolKeepsSubblock`, `UnwantedPoolGoes`, `WantedPoolComes`, `ReconcileEnds` |

Each run over `MCProvisioner` also evaluates three assumptions about
`NodePoolSpecs` over all bounded pods: the nodes of a pool hold the chips of its
topology (`NodesHoldTheChips`), on-demand capacity drops the reservation and spot
(`OnDemandDropsReservation`), and a pod's hash does not depend on the topology
(`TopologyIsNotHashed`, the selective hashing of `gke.go:1006`). `MCStaticNodePools`
evaluates one about static pools: a parameter of the ConfigMap that makes another
pool makes another hash, unless it is auto-repair, and writing out a default makes
none (`HashTellsParameters`).

Bounds. Two threads on one pool are enough for every race on the maps: keys of
different pools do not interact, and the two job keys give the case where only
one map has a duplicate. Two generations of a JobSet in `slices_safety` give the
case that a name is reused; `prov_live` has one, because `DeletesJustified`, where
reuse matters, is proved for any number; one partition wanted by two owners, and a
subblock moved between two pools, give the conflicts. The theorems of section 4
have no bounds.

`pods` starts with pools in the way of the pod: one of another configuration has to
be recreated, one in ERROR may be under deletion by the collector when the pod asks
for it, so that the pod is told "duplicate", or nil while the pool goes, and is not
queued again. `PendingPodServed` is about these delays; the only excuse it allows
is a pool in ERROR of the very configuration the pod asks for. Duplicates between
two creation workers are in `provider` and in the proofs: two creation workers with
two pods have 3.7 million states here, which is out of reach for liveness.
`prov_live` and `ended` have one configuration and start without pools.

In `workloads` the StatefulSet is a worker's, the one whose UID comes from the
cache; a leader's takes it from its owner reference, as a Job does. Owners are
created once there (two generations of two owners with their caches are out of
TLC's reach), so that the only cache a webhook can meet behind its time is an
empty one, and Slices have no conditions, which no webhook looks at. A label that
was taken away is not put back. In `slices_safety` the two partitions are symmetric;
Slices that become ready are in `slices_live`. `static` has one goroutine, because a
second one is out of reach for its liveness; `SubblockKept` is for any number. A
delete concurrency of 0 is the boundary case that `DeleteStaticNodePools` guards
against (`ReconcileEnds`).

Two properties of `Slices` are about lists from a lagging cache. A `DELETE` by name
never reaches a Slice other than the one listed, by its UID, not even one recreated
since with the same partitions (`DeletesWhatItRead`), because the only worker that
could create it is the one that deletes, and it creates no Slice that it lists. An
owner loses its finalizer only after each Slice its cleanup has listed is gone or being deleted
(`FinalizerOutlivesListedSlices`), in this reconcile or in one before; a Slice
that the list lacks is finding 2. Both rest on nobody but the reconcilers deleting
the Slices of an owner.

Fairness. The liveness properties assume `<>[][Running /\ ~Fault]_vars`: any
number of faults (refused requests that could be served, lost answers, failed
polls, timeouts, failed operations, preempted nodes) and restarts may happen, but
they stop at some time. `Running` excludes `Restart` and not the steps that
happen to look like it. From then on, weak fairness for goroutines, informers,
the collector's ticker, the resync of informers, kubelet status updates and GKE's
operations; strong fairness for a worker taking a given key, because the
workqueue is a FIFO and hands out each key in its turn. `EveryCallReturns` of
`provider` assumes only that goroutines run: nothing of GKE, because of the
30-minute timeout.

Findings.

1. `ended`: a pool in ERROR without nodes is left to the garbage collector, which
   skips it as long as the JobSet object exists, completed or failed
   (`nodepool_garbage_collector.go:69-76`); `README.md:11` says pools of completed
   and failed JobSets are cleaned up.
2. `leak`: cleanup deletes the Slices of a lagging list and removes the finalizer;
   a Slice created just before stays
   (`jobset_slice_controller.go:57-91`; `slice_controller_test.go:283`).
3. `overlap`: the partition check and the create are not atomic and read a cache
   (`slice_shared.go:266-292`; `slice_controller_test.go:504`).
4. `unsuspend`: sync mode is decided on the list from before the deletions
   (`jobset_slice_controller.go:264-270`, comment at 262).
5. `stopping`: the status of a pool is looked at only where the Get has failed
   (`gke.go:280-297`), so a pod whose matching pool is being deleted is answered nil
   and not queued again; `gke.go:106` says that "we need to wait for it to be
   deleted", and `creation_controller.go:101-105` has a retry that is never used.
   `PendingPodServed` shows that the pod is served all the same, by a later event.

Noticed beside them, with nothing to run: the hash of a static pool leaves out
auto-repair (`gke.go:1034-1047`, and `HashTellsParameters`), so that a ConfigMap that
changes only that is never applied, though the comment at `gke.go:1024` says that
all fields of the ConfigMap are hashed and `README.md:211` that pools are updated
accordingly; the README's default of
`GKE_MAX_PODS_PER_NODE` is 15 and that of `cmd/config/config.go:52` 16; integrity
monitoring "defaults to nil (GKE default)" and the code sets it to true.

Each property of a passing run has a mutant: an operator next to the definition
it changes, with a plausible bug, under which TLC finds the property violated.

## 4. Proofs

Checked by TLAPS, for every value of the constants that satisfies the named
assumptions (`None` is no other value; the threads are the workers and the
collector; name and key functions have their types; ConfigMaps ask for each pool
name once; a selection names replicas and partitions). Every safety invariant,
action property and refinement that a passing run checks is stated by a theorem.

`GKEProviderProofs`, about `GKESpec`:

- `GKETypeCorrect`: `[]GKETypeOK`. Not inductive alone: the type of a step's
  result depends on the request, so `GKEInv` adds `RequestsOK`: a thread at a
  point of the create, delete or static path has a request of that kind, with a
  name (and a job key, and a hash) that is not `None`.
- `OwnedAlways`: `[]InProgressOwned`, inductive together with `GKEInv`. A thread
  that finishes may delete a key another thread also stored; the invariant is
  one-sided, and this is why it survives.
- The lemma `WaitersAlways`, `[]WaitersMatch`, is bookkeeping of the model, which
  marks a pool with the thread that polls its operation where the code has the
  operation's name: the proofs below need it to know whose operation has ended.
- `LegacyAlways`: `[]LegacyPoolKept`; a pool without a hash never appears, because
  requests carry one.

`GKERefinementProofs`:

- `PromiseKept`: `GKESpec => KeepsPromise`, one lemma per action. The invariant
  `RefInv` joins the invariants above with `CallsOK`: an idle thread has no request, a
  result is set by the return alone, only calls to ensure or delete come to the
  delete path, and a call that waits has started an operation. A duplicate is
  justified by `InProgressOwned` (the key found belongs to a call at work), the
  end of an operation by `WaitersMatch`, the recreate path by `LegacyPoolKept`.
  `ProviderCalls` also allows "stopping", which the provider never answers.

`ProvisionerProofs`, about `Spec`:

- `StepImplementsGKE` and `ImplementsProvider`: `Spec => GKESpec`, by one step per
  action; a controller's call is a call of the provider with a typed request,
  which needs the invariant `PInv` (types, `GKEInv`, and `ObjectsOK`: pods and
  nodes that exist name a JobSet and a pool).
- `TypeCorrect`; `NoKeyLeftBehind` and `ReconcilersSeePromise`: the provider's
  theorems in the composed system.
- `DeletesAlwaysJustified`: `[]DeletesJustified`. The strengthening is that the
  cache is behind (`CacheBehind`: its generation is not later, and within the same
  generation a JobSet the cache has seen over is over) and `Justified`: each
  recorded reason is over now or of an earlier generation.

`StaticNodePoolsProofs`:

- `StaticTypeCorrect` and `StaticImplementsProvider`, from `SInv`: types, `GKEInv`,
  and that the calls under way are those of the phase (`CallsOfPhase`: while pools
  are deleted no goroutine creates). `StaticSeesPromise` follows.
- `SubblockKept`: `Spec => WorkingPoolKeepsSubblock`. `SubblocksOK` follows the
  reconcile through its phases: `BuiltOK` (a pool's hash tells its subblock, by
  `HashTellsSubblock`: nodePoolHash covers the reservation), `ListedOK` (what the
  plan was made from is still there, as nobody else creates static pools),
  `OneDeletePerPool`, `DoneOK`, and `BlockersDealtWith` (once creates begin, a
  pool that holds a wanted subblock is gone or in ERROR). It needs
  `WaitersMatch`, taken from `WaitersAlways` through the refinement: a goroutine
  that reports a deletion done has waited for its own operation.

`SlicesProofs`:

- `SlicesTypeCorrect`, from `TInv`: types, that an object that exists has a UID,
  that workers and queues keep to their own kind, and that a reconcile deletes
  Slices of its owner only.
- `SlicesUnderFinalizer`: `[]AppliesUnderFinalizer`. The strengthening `FInv` is
  about stale reads: a cache that shows a live owner with the finalizer shows the
  very object that has it (`CacheFinalizer`), and while a worker is busy with an
  owner nobody else adds or removes its finalizer (`FinalizeFinalizer`,
  `CleanupFinalizer`).
- `NoLostWakeup`: `[]Converged`. `WakeInv` says why an owner is awake at any time:
  it is queued, or worked on, or an undelivered change of it will queue it, or
  what the cache shows to be wrong has been put right already, so that the news of
  that will queue it (`OwnerAwake`); and of a reconcile under way, that the caches
  are as it read them or the owner is queued again (`StillAsRead`).
- `ListedSliceDeleted`: `[]DeletesWhatItRead`, and `FinalizerGoesLast`, the action
  property `FinalizerOutlivesListedSlices`, from `ListInv`: the cache holds the
  Slice that has the name or one that is gone without a successor
  (`SliceCacheOK`), and the same for the list of a reconcile (`ListingOK`). The
  Slice is identified by its UID, and a new one differs from all that are
  remembered (`FreshTyped`: there are more UIDs than places that remember one).

`SliceWorkloadsProofs`:

- `WorkloadsImplementSlices`: a webhook takes no step of the reconcilers, so
  `Converged` and the rest carry over (`NoLostWakeupWithWorkloads`).
- `WorkloadsTypeCorrect` and `WorkloadsPinned`, from `WakeInv` and `SelectorsOK`
  (a selector is the name of a Slice of the workload's own owner and replica, with
  the UID of its owner object unless it met a stale cache, and of no object that is
  still to come, by `GenGrows`): with the wakeups, a
  Slice of that name is there once nothing is left to do.

Only model-checked: liveness (fairness and `ENABLED` are out of this prover's
reach), and the assumptions about `NodePoolSpecs` (those about pods are about folds
over sequences and would need induction).

## 5. Not modelled

- The auth plugin (a copy of client-go's), the mock provider, generated API types,
  the parsing of the configuration and of YAML, events and logs.
- The Python admission controller: a separate service, stateless, that shares
  nothing with the provisioner.
- Of a pool: disks, tags, locations and upgrade settings, which every pool gets
  unchanged; collisions of the 32-bit hash. Two names can be the same by truncation
  (`gke.go:587`): the theorems allow it, no run has it.
- The shortening of Slice names to 24, 8 and 8 characters (`utils/slice.go:8-15`):
  `SliceName` is injective here, so two replicated jobs of one JobSet whose names
  agree in 8 characters, and then share a Slice, are not in the model.
- Two gscBlocks that ask for one pool name, or two pools on one subblock
  (`ConfigMapsAssumption`; the code checks for neither), and a create
  concurrency of 0, with which the code blocks for ever (`ReconcilerAssumption`).
- In `PinnedToOwnSlice`: bare workloads, which run without a selector; Slices kept under a name of the older release, which the
  webhook never uses (`webhook/job.go:93`), and a worker StatefulSet that met the
  cached LeaderWorkerSet of an earlier object of the name (`MetStaleCache`).
- Users who delete a Slice by hand, or take the finalizer off an owner.
- Static pools whose static label the ConfigMap overwrites (`gke.go:878`), or that
  have no hash: the model has them, the reconciler does not see them or leaves them
  alone, and `WorkingPoolKeepsSubblock` is not about them.
- Events of pods at the deletion reconciler: it watches them, and its event filter
  drops them (`deletion_controller.go:170`).
- A partition that a LeaderWorkerSet names twice (`lws_slice_controller.go:235`) is
  in the model, and makes the second Slice wait for ever; no property is about it.
- Two releases at the same time.

## 6. Plan

Done, in this order: `GKEProvider` and its proofs; `Provisioner` and its proofs;
`Slices`; `StaticNodePools`; `ProviderCalls` and `GKERefinement`; `NodePoolSpecs`
and the static runs computed with it; the semaphores; labels that are taken away;
`SliceWorkloads`; the proofs of the refinement, of `StaticNodePools`, of `Slices`
and of `SliceWorkloads`.

Next:

1. Facts about the operators of `NodePoolSpecs` as theorems, for every pod and
   ConfigMap, where no induction is needed: what the hash of a static pool tells
   apart, which labels survive the user's.
2. An abstract specification of slice ownership that `Slices` implements: an
   owner's Slices appear while it has the finalizer, and go after it asked.
3. Two Jobs that share a pool name, in the liveness of `Provisioner`.
