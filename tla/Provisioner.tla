---------------------------- MODULE Provisioner ----------------------------
(***************************************************************************)
(* Dynamic node pool provisioning: the creation reconciler                 *)
(* (creation_controller.go), the deletion reconciler                       *)
(* (deletion_controller.go) and the garbage collector                      *)
(* (nodepool_garbage_collector.go), all calling the one GKE provider, in a *)
(* cluster whose JobSets, leader pods and nodes come and go.               *)
(*                                                                         *)
(* The controllers read JobSets from an informer cache that lags behind    *)
(* the API server (jsCache); a reconcile reads its caches in one step and  *)
(* acts on what it read in the later steps of the provider call.  A delay  *)
(* (RequeueAfter, backoff) is the item staying in the queue until a worker *)
(* takes it.  A cached read never fails in any other way than NotFound.    *)
(***************************************************************************)
EXTENDS GKEProvider, Naturals

CONSTANTS
    CreationWorkers,  \* MaxConcurrentReconciles of the creation reconciler
    DeletionWorkers,  \* MaxConcurrentReconciles of the deletion reconciler
    GC,               \* the garbage collector's goroutine
    Pods,             \* pods, each created at most once
    LeaderPods,       \* those that pass the fixed part of the creation predicate
    PodConfigs,       \* hashes of the pools pods ask for; None: nodePoolForPod fails
    Nodes,            \* Node objects, reusable
    SliceJobSets,     \* JobSets with the slice provisioning label
    NodePoolName,     \* podToNodePoolName, by JobSet (one Job per JobSet)
    JobKeyOf,         \* the job-key label, by JobSet
    MaxGen            \* bound: times a JobSet of one name is created

ASSUME ThreadsAssumption ==
    /\ Threads = CreationWorkers \cup DeletionWorkers \cup {GC}
    /\ GC \notin CreationWorkers \cup DeletionWorkers
    /\ CreationWorkers \cap DeletionWorkers = {}

ASSUME ClusterAssumption ==
    /\ NodePoolName \in [JobSets -> Names]
    /\ JobKeyOf \in [JobSets -> JobKeys]
    /\ LeaderPods \subseteq Pods
    /\ PodConfigs \subseteq Hashes \cup {None}
    /\ None \notin Pods \cup Nodes
    /\ MaxGen \in Nat

VARIABLES
    jobsets,    \* JobSet objects; gen counts the objects that have had the name
    jsCache,    \* the informer's copy
    pods,       \* leader pods
    nodes,      \* Node objects
    creationQ,  \* workqueue of the creation reconciler
    deletionQ,  \* workqueue of the deletion reconciler
    work,       \* the item a worker is reconciling
    gcList,     \* node pools the garbage collector has listed and not yet looked at
    why         \* the JobSet, as read, that a deletion was decided on

clusterVars == <<jobsets, jsCache, pods, nodes>>
ctrlVars    == <<creationQ, deletionQ, work, gcList, why>>
vars        == <<gkeVars, clusterVars, ctrlVars>>

JobSetStates == [phase : {"none", "active", "ended"}, gen : 0..MaxGen]

PodStates == [phase  : {"none", "pending", "scheduled", "terminating", "gone"},
              jobset : JobSets \cup {None},
              hash   : Hashes \cup {None}]

NodeStates == [state  : {"none", "young", "old", "shutdown"},
               pool   : Names \cup {None},
               labels : Labels]

NoNode == [state |-> "none", pool |-> None, labels |-> NoLabels]

(* What ListNodePools returns for a pool.                                  *)
NodePoolRefs == [name : Names, error : BOOLEAN, labels : Labels]

Reasons == [jobset : JobSets, gen : 0..MaxGen]

ASSUME ReasonsAssumption == None \notin Reasons

TypeOK ==
    /\ GKETypeOK
    /\ jobsets \in [JobSets -> JobSetStates]
    /\ jsCache \in [JobSets -> JobSetStates]
    /\ pods \in [Pods -> PodStates]
    /\ nodes \in [Nodes -> NodeStates]
    /\ creationQ \subseteq Pods
    /\ deletionQ \subseteq Nodes
    /\ work \in [Threads -> Pods \cup Nodes \cup {None}]
    /\ gcList \subseteq NodePoolRefs
    /\ why \in [Threads -> Reasons \cup {None}]

Init ==
    /\ GKEInit
    /\ jobsets = [j \in JobSets |-> [phase |-> "none", gen |-> 0]]
    /\ jsCache = jobsets
    /\ pods = [p \in Pods |-> [phase |-> "none", jobset |-> None, hash |-> None]]
    /\ nodes = [x \in Nodes |-> NoNode]
    /\ creationQ = {} /\ deletionQ = {}
    /\ work = [t \in Threads |-> None]
    /\ gcList = {}
    /\ why = [t \in Threads |-> None]

-----------------------------------------------------------------------------
(* The creation reconciler.                                                *)

(* The event filter: the pod-independent part is LeaderPods (part of a     *)
(* JobSet, completion index 0, requests TPUs, selects a topology, not      *)
(* opted out); "pending" is Pending, Unschedulable and not being deleted.  *)
PassesCreationFilter(p) == p \in LeaderPods /\ pods[p].phase = "pending"

(* Any event of the pod, the informer's periodic resync included.          *)
PodEvent(p) ==
    /\ PassesCreationFilter(p)
    /\ creationQ' = creationQ \cup {p}
    /\ UNCHANGED <<gkeVars, clusterVars, deletionQ, work, gcList, why>>

nodePoolForPod(p) ==
    LET j == pods[p].jobset
    IN  [name   |-> NodePoolName[j], jobKey |-> JobKeyOf[j],
         labels |-> [hash |-> pods[p].hash, jobset |-> j, legacyID |-> None, static |-> FALSE]]

(* The workqueue hands a key to one worker at a time.                      *)
TakesPod(w, p) ==
    /\ pc[w] = "idle"
    /\ p \in creationQ
    /\ \A v \in CreationWorkers : work[v] # p

(* Reconcile up to a return that asks GKE for nothing: the pod is gone,    *)
(* the JobSet is not in the cache yet (requeue), or slices are used.       *)
CreationReconcileEnds(w, p) ==
    /\ TakesPod(w, p)
    /\ \/ /\ pods[p].phase = "gone" \/ (jsCache[pods[p].jobset].phase # "none"
                                        /\ pods[p].jobset \in SliceJobSets)
          /\ creationQ' = creationQ \ {p}
       \/ /\ pods[p].phase # "gone" /\ jsCache[pods[p].jobset].phase = "none"
          /\ UNCHANGED creationQ
    /\ UNCHANGED <<gkeVars, clusterVars, deletionQ, work, gcList, why>>

(* Reconcile up to the call of EnsureNodePoolForPod.                       *)
CreationReconcile(w, p) ==
    /\ TakesPod(w, p)
    /\ pods[p].phase # "gone"
    /\ jsCache[pods[p].jobset].phase # "none"
    /\ pods[p].jobset \notin SliceJobSets
    /\ IF pods[p].hash = None THEN EnsureRejectsPod(w)
                              ELSE EnsureNodePoolForPod(w, nodePoolForPod(p))
    /\ creationQ' = creationQ \ {p}
    /\ work' = [work EXCEPT ![w] = p]
    /\ UNCHANGED <<clusterVars, deletionQ, gcList, why>>

(* Mutant: a failed request is dropped like a duplicate, and the worker    *)
(* forgets which pod it was for.                                           *)
CreationReturnsLosesPod(w) ==
    /\ CallEnds(w)
    /\ creationQ' = IF ret[w] = "Error" THEN creationQ \cup {None} ELSE creationQ
    /\ work' = [work EXCEPT ![w] = None]
    /\ UNCHANGED <<clusterVars, deletionQ, gcList, why>>

(* A duplicate is ignored: neither an error nor a requeue.                 *)
CreationRequeues(r) == r \in {"Stopping", "Recreate", "Error"}

CreationReturns(w) ==
    /\ CallEnds(w)
    /\ creationQ' = IF CreationRequeues(ret[w]) THEN creationQ \cup {work[w]} ELSE creationQ
    /\ work' = [work EXCEPT ![w] = None]
    /\ UNCHANGED <<clusterVars, deletionQ, gcList, why>>

-----------------------------------------------------------------------------
(* The deletion reconciler.                                                *)

(* Any event of the node: the kubelet's status updates and the resync      *)
(* among them.  Pod events do not pass the filter.                         *)
NodeEvent(x) ==
    /\ nodes[x].state # "none"
    /\ deletionQ' = deletionQ \cup {x}
    /\ UNCHANGED <<gkeVars, clusterVars, creationQ, work, gcList, why>>

TakesNode(w, x) ==
    /\ pc[w] = "idle"
    /\ x \in deletionQ
    /\ \A v \in DeletionWorkers : work[v] # x

OwnerOf(labels) == IF labels.jobset # None THEN labels.jobset ELSE labels.legacyID

(* The JobSet is gone, completed or failed, as far as the cache knows.     *)
SeenOver(j) == jsCache[j].phase \in {"none", "ended"}

(* The checks between the read of the node and deleteNodePool.             *)
MayDeletePoolOf(x) ==
    /\ nodes[x].state = "old"
    /\ ~nodes[x].labels.static
    /\ OwnerOf(nodes[x].labels) # None
    /\ SeenOver(OwnerOf(nodes[x].labels))

(* Reconcile with nothing to delete; a node younger than MinLifetime is    *)
(* looked at again later.                                                  *)
DeletionReconcileEnds(w, x) ==
    /\ TakesNode(w, x)
    /\ ~MayDeletePoolOf(x)
    /\ deletionQ' = IF nodes[x].state = "young" THEN deletionQ ELSE deletionQ \ {x}
    /\ UNCHANGED <<gkeVars, clusterVars, creationQ, work, gcList, why>>

Reason(j) == [jobset |-> j, gen |-> jsCache[j].gen]

DeletionReconcile(w, x) ==
    /\ TakesNode(w, x)
    /\ MayDeletePoolOf(x)
    /\ DeleteNodePool(w, nodes[x].pool)
    /\ deletionQ' = deletionQ \ {x}
    /\ work' = [work EXCEPT ![w] = x]
    /\ why' = [why EXCEPT ![w] = Reason(OwnerOf(nodes[x].labels))]
    /\ UNCHANGED <<clusterVars, creationQ, gcList>>

DeletionReturns(w) ==
    /\ CallEnds(w)
    /\ deletionQ' = IF ret[w] = "Error" THEN deletionQ \cup {work[w]} ELSE deletionQ
    /\ work' = [work EXCEPT ![w] = None]
    /\ why' = [why EXCEPT ![w] = None]
    /\ UNCHANGED <<clusterVars, creationQ, gcList>>

-----------------------------------------------------------------------------
(* The garbage collector.                                                  *)

ListNodePools ==
    {[name |-> n, error |-> pools[n].status = "ERROR", labels |-> pools[n].labels] :
        n \in {m \in Names : pools[m].status # "ABSENT"}}

(* Mutant: the Error flag is not looked at the right way round.            *)
GCCandidateHealthy(np) == ~np.labels.static /\ ~np.error /\ np.labels.jobset # None

(* The checks that look at the listed pool alone.                          *)
GCCandidate(np) == ~np.labels.static /\ np.error /\ np.labels.jobset # None

(* A pass over the pools starts: the list is read once, and is as old as   *)
(* the pass.                                                               *)
GCLists ==
    /\ pc[GC] = "idle" /\ gcList = {}
    /\ gcList' = {np \in ListNodePools : GCCandidate(np)}
    /\ UNCHANGED <<gkeVars, clusterVars, creationQ, deletionQ, work, why>>

(* Mutant: the JobSet is not looked up.                                    *)
GCCollectsWithoutJobSetCheck(np) ==
    \A x \in Nodes : nodes[x].state # "none" => nodes[x].pool # np.name

(* The checks that read the JobSet and the nodes, when the pool's turn     *)
(* comes.                                                                  *)
GCCollects(np) ==
    /\ jsCache[np.labels.jobset].phase = "none"
    /\ \A x \in Nodes : nodes[x].state # "none" => nodes[x].pool # np.name

GCSkips(np) ==
    /\ pc[GC] = "idle" /\ np \in gcList
    /\ ~GCCollects(np)
    /\ gcList' = gcList \ {np}
    /\ UNCHANGED <<gkeVars, clusterVars, creationQ, deletionQ, work, why>>

GCDeletes(np) ==
    /\ pc[GC] = "idle" /\ np \in gcList
    /\ GCCollects(np)
    /\ DeleteNodePool(GC, np.name)
    /\ gcList' = gcList \ {np}
    /\ why' = [why EXCEPT ![GC] = Reason(np.labels.jobset)]
    /\ UNCHANGED <<clusterVars, creationQ, deletionQ, work>>

GCReturns ==
    /\ CallEnds(GC)
    /\ why' = [why EXCEPT ![GC] = None]
    /\ UNCHANGED <<clusterVars, creationQ, deletionQ, work, gcList>>

-----------------------------------------------------------------------------
(* Kubernetes (external): the API server, the informer, the JobSet and     *)
(* job controllers, the scheduler and the kubelets.                        *)

Kubernetes == UNCHANGED <<gkeVars, ctrlVars>>

CreateJobSet(j) ==
    /\ jobsets[j].phase = "none" /\ jobsets[j].gen < MaxGen
    /\ jobsets' = [jobsets EXCEPT ![j] = [phase |-> "active", gen |-> @.gen + 1]]
    /\ UNCHANGED <<jsCache, pods, nodes>> /\ Kubernetes

EndJobSet(j) ==
    /\ jobsets[j].phase = "active"
    /\ jobsets' = [jobsets EXCEPT ![j].phase = "ended"]
    /\ UNCHANGED <<jsCache, pods, nodes>> /\ Kubernetes

DeleteJobSet(j) ==
    /\ jobsets[j].phase \in {"active", "ended"}
    /\ jobsets' = [jobsets EXCEPT ![j].phase = "none"]
    /\ UNCHANGED <<jsCache, pods, nodes>> /\ Kubernetes

SyncJobSet(j) ==
    /\ jsCache[j] # jobsets[j]
    /\ jsCache' = [jsCache EXCEPT ![j] = jobsets[j]]
    /\ UNCHANGED <<jobsets, pods, nodes>> /\ Kubernetes

(* A restarting JobSet makes a new leader pod once the old one is going.   *)
CreatePod(p, j, h) ==
    /\ pods[p].phase = "none"
    /\ jobsets[j].phase = "active"
    /\ \A q \in Pods : pods[q].jobset = j => pods[q].phase \in {"terminating", "gone"}
    /\ pods' = [pods EXCEPT ![p] = [phase |-> "pending", jobset |-> j, hash |-> h]]
    /\ UNCHANGED <<jobsets, jsCache, nodes>> /\ Kubernetes

(* The scheduler finds a node of a pool made for pods like this one.       *)
SchedulePod(p) ==
    /\ pods[p].phase = "pending"
    /\ \E x \in Nodes : /\ nodes[x].state \in {"young", "old"}
                        /\ nodes[x].labels.jobset = pods[p].jobset
                        /\ nodes[x].labels.hash = pods[p].hash
    /\ pods' = [pods EXCEPT ![p].phase = "scheduled"]
    /\ UNCHANGED <<jobsets, jsCache, nodes>> /\ Kubernetes

TerminatePod(p) ==
    /\ pods[p].phase \in {"pending", "scheduled"}
    /\ pods' = [pods EXCEPT ![p].phase = "terminating"]
    /\ UNCHANGED <<jobsets, jsCache, nodes>> /\ Kubernetes

RemovePod(p) ==
    /\ pods[p].phase = "terminating"
    /\ pods' = [pods EXCEPT ![p].phase = "gone"]
    /\ UNCHANGED <<jobsets, jsCache, nodes>> /\ Kubernetes

RegisterNode(x, n) ==
    /\ nodes[x].state = "none"
    /\ pools[n].status \in {"PROVISIONING", "RUNNING"}
    /\ nodes' = [nodes EXCEPT ![x] = [state |-> "young", pool |-> n, labels |-> pools[n].labels]]
    /\ UNCHANGED <<jobsets, jsCache, pods>> /\ Kubernetes

AgeNode(x) ==
    /\ nodes[x].state = "young"
    /\ nodes' = [nodes EXCEPT ![x].state = "old"]
    /\ UNCHANGED <<jobsets, jsCache, pods>> /\ Kubernetes

ShutdownNode(x) ==
    /\ nodes[x].state \in {"young", "old"}
    /\ nodes' = [nodes EXCEPT ![x].state = "shutdown"]
    /\ UNCHANGED <<jobsets, jsCache, pods>> /\ Kubernetes

RemoveNode(x) ==
    /\ nodes[x].state = "shutdown"
    /\ nodes' = [nodes EXCEPT ![x] = NoNode]
    /\ UNCHANGED <<jobsets, jsCache, pods>> /\ Kubernetes

KubernetesStep ==
    \/ \E j \in JobSets : CreateJobSet(j) \/ EndJobSet(j) \/ DeleteJobSet(j) \/ SyncJobSet(j)
    \/ \E p \in Pods, j \in JobSets, h \in PodConfigs : CreatePod(p, j, h)
    \/ \E p \in Pods : SchedulePod(p) \/ TerminatePod(p) \/ RemovePod(p)
    \/ \E x \in Nodes, n \in Names : RegisterNode(x, n)
    \/ \E x \in Nodes : AgeNode(x) \/ ShutdownNode(x) \/ RemoveNode(x)

(* The informers list anew before the workers of the new process start.    *)
Restart ==
    /\ ProviderRestarts
    /\ jsCache' = jobsets
    /\ creationQ' = {p \in Pods : PassesCreationFilter(p)}
    /\ deletionQ' = {x \in Nodes : nodes[x].state # "none"}
    /\ work' = [t \in Threads |-> None]
    /\ gcList' = {}
    /\ why' = [t \in Threads |-> None]
    /\ UNCHANGED <<jobsets, pods, nodes>>

-----------------------------------------------------------------------------
CreationWorker(w) ==
    \/ \E p \in Pods : CreationReconcileEnds(w, p) \/ CreationReconcile(w, p)
    \/ CreationReturns(w)

DeletionWorker(w) ==
    \/ \E x \in Nodes : DeletionReconcileEnds(w, x) \/ DeletionReconcile(w, x)
    \/ DeletionReturns(w)

GarbageCollector == GCLists \/ (\E np \in gcList : GCSkips(np) \/ GCDeletes(np)) \/ GCReturns

(* Everything but the death of the process.                                *)
Running ==
    \/ \E p \in Pods : PodEvent(p)
    \/ \E x \in Nodes : NodeEvent(x)
    \/ \E w \in CreationWorkers : CreationWorker(w)
    \/ \E w \in DeletionWorkers : DeletionWorker(w)
    \/ GarbageCollector
    \/ (\E t \in Threads : CallStep(t)) /\ UNCHANGED <<clusterVars, ctrlVars>>
    \/ GKEStep /\ UNCHANGED <<clusterVars, ctrlVars>>
    \/ KubernetesStep

Next == Running \/ Restart

Spec == Init /\ [][Next]_vars

Alone(A) == A /\ UNCHANGED <<clusterVars, ctrlVars>>

(* The pool this node is of has gone, or another has its name.             *)
Orphan(x) == nodes[x].state # "none" /\ pools[nodes[x].pool].labels # nodes[x].labels

(* Something goes wrong that the controllers do not cause: a request that  *)
(* could have been served fails, a poll fails or runs out of time, an      *)
(* operation fails, a node of a running pool is preempted.                 *)
Fault ==
    \/ \E t \in Threads :
          \/ CheckFails(t)
          \/ CreateRefused(t) /\ pools[req[t].name].status = "ABSENT"
          \/ DeleteRefused(t) /\ pools[req[t].name].status \in {"RUNNING", "ERROR"}
          \/ CreateWaits(t) /\ ret'[t] = "Error"
          \/ DeleteWaits(t) /\ ret'[t] = "Error"
    \/ \E n \in Names : ProvisioningFails(n) \/ DeletionFails(n)
    \/ \E x \in Nodes : ShutdownNode(x) /\ pools[nodes[x].pool].status = "RUNNING" /\ ~Orphan(x)

(* What the liveness properties assume: faults and restarts, though any    *)
(* number of them may happen, stop at some time, and from then on          *)
(*  - a goroutine that can run is run, informers catch up, the collector   *)
(*    ticks, and the workqueue, a FIFO, hands every key to a worker;       *)
(*  - pods reach the queue again, because the informers resync (every 10   *)
(*    hours, the default of controller-runtime), and so do nodes, because  *)
(*    kubelets report their status;                                        *)
(*  - GKE's operations end; a running pool gets nodes, which age and which *)
(*    the scheduler uses; the nodes of a pool go with it; a pod or node    *)
(*    that is being removed goes.                                          *)
Fairness ==
    /\ <>[][Running /\ ~Fault]_vars
    /\ \A t \in Threads : WF_vars(Alone(CallStep(t)))
    /\ \A w \in CreationWorkers : WF_vars(CreationReturns(w))
    /\ \A w \in DeletionWorkers : WF_vars(DeletionReturns(w))
    /\ WF_vars(GarbageCollector)
    /\ \A j \in JobSets : WF_vars(SyncJobSet(j))
    /\ \A p \in Pods : /\ SF_vars(\E w \in CreationWorkers : CreationReconcile(w, p))
                       /\ WF_vars(PodEvent(p)) /\ WF_vars(RemovePod(p)) /\ WF_vars(SchedulePod(p))
    /\ \A x \in Nodes : /\ SF_vars(\E w \in DeletionWorkers : DeletionReconcile(w, x))
                        /\ WF_vars(NodeEvent(x)) /\ WF_vars(AgeNode(x))
                        /\ WF_vars(ShutdownNode(x) /\ Orphan(x)) /\ WF_vars(RemoveNode(x))
    /\ \A n \in Names : /\ WF_vars(Alone(Provisioned(n))) /\ WF_vars(Alone(Deleted(n)))
                        /\ WF_vars(\E x \in Nodes : RegisterNode(x, n))

FairSpec == Spec /\ Fairness

-----------------------------------------------------------------------------
(* Properties.                                                             *)

(* While the deletion reconciler or the garbage collector is on its way to *)
(* delete a pool, the JobSet object it decided on is gone or has ended:    *)
(* neither a lagging cache, nor the time GKE takes, nor a restart of the   *)
(* JobSet makes it delete the pool under a JobSet that is still the one it *)
(* looked at.  (A JobSet created again under the same name is another      *)
(* object, of a later generation.)                                         *)
DeletesJustified ==
    \A t \in Threads :
        req[t].kind = "delete" =>
            /\ why[t] # None
            /\ \/ jobsets[why[t].jobset].phase # "active"
               \/ jobsets[why[t].jobset].gen > why[t].gen

PoolFor(j) == pools[NodePoolName[j]]

(* A pool made for a JobSet that has been deleted is deleted too, whatever *)
(* happens on the way: pools made by a pod of the JobSet that was still    *)
(* being reconciled, timeouts, failed operations, pools without nodes.     *)
(* (The part of README.md:11 about deleted JobSets.)                       *)
DeletedJobSetCleaned ==
    \A j \in JobSets :
        jobsets[j].phase = "none" /\ PoolFor(j).labels.jobset = j
            ~> PoolFor(j).status = "ABSENT" \/ jobsets[j].phase # "none"

(* A pod that needs a pool gets one, or stops needing it, or GKE has       *)
(* answered with a broken pool of the very kind it asks for.  A pool of    *)
(* another kind under its name is replaced; a pool that someone else is    *)
(* deleting, the duplicate request that is then dropped, the nil that the  *)
(* pod is told while the pool goes, and refused requests only delay it.    *)
PendingPodServed ==
    \A p \in LeaderPods :
        pods[p].phase = "pending" /\ pods[p].hash # None /\ pods[p].jobset \notin SliceJobSets
            ~> \/ pods[p].phase # "pending"
               \/ jobsets[pods[p].jobset].phase # "active"
               \/ /\ PoolFor(pods[p].jobset).status = "ERROR"
                  /\ PoolFor(pods[p].jobset).labels.hash = pods[p].hash

(* README.md:11: "Node Pools are cleaned up when the JobSet whose pods     *)
(* triggered the node pool creation is either completed, failed, or        *)
(* deleted."                                                               *)
EndedJobSetCleaned ==
    \A j \in JobSets :
        jobsets[j].phase \in {"none", "ended"} /\ PoolFor(j).labels.jobset = j
            ~> PoolFor(j).status = "ABSENT" \/ jobsets[j].phase = "active"
=============================================================================
