------------------------- MODULE ProvisionerProofs -------------------------
(* Theorems about Provisioner, for any numbers of workers, JobSets, pods,  *)
(* nodes and generations.  The provider's theorems carry over because the  *)
(* controllers touch the provider's state through its calls alone.         *)
EXTENDS Provisioner, GKERefinementProofs

ClusterTypeOK ==
    /\ jobsets \in [JobSets -> JobSetStates]
    /\ jsCache \in [JobSets -> JobSetStates]
    /\ pods \in [Pods -> PodStates]
    /\ nodes \in [Nodes -> NodeStates]

ControllerTypeOK ==
    /\ creationQ \subseteq Pods
    /\ deletionQ \subseteq Nodes
    /\ work \in [Threads -> Pods \cup Nodes \cup {None}]
    /\ gcList \subseteq NodePoolRefs
    /\ why \in [Threads -> Reasons \cup {None}]

(* Objects that exist name what they belong to; a worker in a call is      *)
(* reconciling an object of its own kind that has existed.                 *)
ObjectsOK ==
    /\ \A p \in Pods : pods[p].phase # "none" => pods[p].jobset \in JobSets
    /\ \A x \in Nodes : nodes[x].state # "none" => nodes[x].pool \in Names
    /\ \A p \in creationQ : pods[p].phase # "none"
    /\ \A w \in CreationWorkers : pc[w] # "idle" =>
          work[w] \in Pods /\ pods[work[w]].phase # "none"
    /\ \A w \in DeletionWorkers : pc[w] # "idle" => work[w] \in Nodes
    /\ \A np \in gcList : np.labels.jobset \in JobSets

(* The informer shows a past of the API server: never a later generation,  *)
(* and an end only of a generation that has really ended.                  *)
CacheBehind ==
    \A j \in JobSets :
        /\ jsCache[j].gen <= jobsets[j].gen
        /\ jsCache[j].gen = jobsets[j].gen /\ jsCache[j].phase # "active"
               => jobsets[j].phase # "active"

PInv == GKEInv /\ ClusterTypeOK /\ ControllerTypeOK /\ ObjectsOK

(* The pool built for a pod in the queue is one the provider expects.      *)
LEMMA PodPoolTyped ==
    ASSUME PInv, NEW p \in Pods, pods[p].phase # "none", pods[p].hash # None
    PROVE  nodePoolForPod(p) \in NodePools
  BY ClusterAssumption
  DEF PInv, ClusterTypeOK, ObjectsOK, PodStates, nodePoolForPod, NodePools

(* Every step of the controllers, of GKE and of the cluster is a step of   *)
(* the provider or leaves the provider's state alone.                      *)
LEMMA StepImplementsGKE ==
    ASSUME PInv, [Next]_vars
    PROVE  [GKENext]_gkeVars
  <1> USE DEF vars, clusterVars, ctrlVars
  <1>1. ASSUME NEW p \in Pods, PodEvent(p)
        PROVE  UNCHANGED gkeVars
    BY <1>1 DEF PodEvent
  <1>2. ASSUME NEW x \in Nodes, NodeEvent(x)
        PROVE  UNCHANGED gkeVars
    BY <1>2 DEF NodeEvent
  <1>3. ASSUME NEW w \in CreationWorkers, CreationWorker(w)
        PROVE  [GKENext]_gkeVars
    <2>0. w \in Threads
      BY ThreadsAssumption
    <2>1. ASSUME NEW p \in Pods, CreationReconcileEnds(w, p)
          PROVE  UNCHANGED gkeVars
      BY <2>1 DEF CreationReconcileEnds
    <2>2. ASSUME NEW p \in Pods, CreationReconcile(w, p)
          PROVE  GKENext
      <3>1. pods[p].phase # "none"
        BY <2>2 DEF CreationReconcile, TakesPod, PInv, ObjectsOK
      <3>2. CASE pods[p].hash = None
        BY <2>0, <2>2, <3>2 DEF CreationReconcile, GKENext, Calls
      <3>3. CASE pods[p].hash # None
        BY <2>0, <2>2, <3>1, <3>3, PodPoolTyped DEF CreationReconcile, GKENext, Calls
      <3> QED BY <3>2, <3>3
    <2>3. CASE CreationReturns(w)
      BY <2>0, <2>3 DEF CreationReturns, GKENext, Calls
    <2> QED BY <1>3, <2>1, <2>2, <2>3 DEF CreationWorker
  <1>4. ASSUME NEW w \in DeletionWorkers, DeletionWorker(w)
        PROVE  [GKENext]_gkeVars
    <2>0. w \in Threads
      BY ThreadsAssumption
    <2>1. ASSUME NEW x \in Nodes, DeletionReconcileEnds(w, x)
          PROVE  UNCHANGED gkeVars
      BY <2>1 DEF DeletionReconcileEnds
    <2>2. ASSUME NEW x \in Nodes, DeletionReconcile(w, x)
          PROVE  GKENext
      <3>1. nodes[x].pool \in Names
        BY <2>2 DEF DeletionReconcile, MayDeletePoolOf, PInv, ObjectsOK
      <3> QED BY <2>0, <2>2, <3>1 DEF DeletionReconcile, GKENext, Calls
    <2>3. CASE DeletionReturns(w)
      BY <2>0, <2>3 DEF DeletionReturns, GKENext, Calls
    <2> QED BY <1>4, <2>1, <2>2, <2>3 DEF DeletionWorker
  <1>5. ASSUME GarbageCollector
        PROVE  [GKENext]_gkeVars
    <2>0. GC \in Threads
      BY ThreadsAssumption
    <2>1. CASE GCLists
      BY <2>1 DEF GCLists
    <2>2. ASSUME NEW np \in gcList, GCSkips(np)
          PROVE  UNCHANGED gkeVars
      BY <2>2 DEF GCSkips
    <2>3. ASSUME NEW np \in gcList, GCDeletes(np)
          PROVE  GKENext
      <3>1. np.name \in Names
        BY DEF PInv, ControllerTypeOK, NodePoolRefs
      <3> QED BY <2>0, <2>3, <3>1 DEF GCDeletes, GKENext, Calls
    <2>4. CASE GCReturns
      BY <2>0, <2>4 DEF GCReturns, GKENext, Calls
    <2> QED BY <1>5, <2>1, <2>2, <2>3, <2>4 DEF GarbageCollector
  <1>6. ASSUME KubernetesStep
        PROVE  UNCHANGED gkeVars
    BY <1>6 DEF KubernetesStep, CreateJobSet, EndJobSet, DeleteJobSet, SyncJobSet, CreatePod,
                SchedulePod, TerminatePod, RemovePod, RegisterNode, AgeNode, ShutdownNode,
                RemoveNode, Kubernetes
  <1>7. ASSUME Restart
        PROVE  GKENext
    BY <1>7 DEF Restart, GKENext
  <1> QED
    BY <1>1, <1>2, <1>3, <1>4, <1>5, <1>6, <1>7 DEF Next, Running, GKENext

-----------------------------------------------------------------------------
(* The cluster's objects keep their types.                                 *)
LEMMA ClusterTyped ==
    ASSUME PInv, [Next]_vars
    PROVE  ClusterTypeOK'
  <1> USE DEF PInv, ClusterTypeOK
  <1>1. CASE UNCHANGED clusterVars
    BY <1>1 DEF clusterVars
  <1>2. ASSUME NEW j \in JobSets,
               CreateJobSet(j) \/ EndJobSet(j) \/ DeleteJobSet(j) \/ SyncJobSet(j)
        PROVE  ClusterTypeOK'
    <2>1. jobsets[j] \in JobSetStates /\ MaxGen \in Nat
      BY ClusterAssumption
    <2>2. CASE CreateJobSet(j)
      BY <2>1, <2>2 DEF CreateJobSet, JobSetStates
    <2>3. CASE EndJobSet(j)
      BY <2>1, <2>3 DEF EndJobSet, JobSetStates
    <2>4. CASE DeleteJobSet(j)
      BY <2>1, <2>4 DEF DeleteJobSet, JobSetStates
    <2>5. CASE SyncJobSet(j)
      BY <2>1, <2>5 DEF SyncJobSet
    <2> QED BY <1>2, <2>2, <2>3, <2>4, <2>5
  <1>3. ASSUME NEW p \in Pods, NEW j \in JobSets, NEW h \in PodConfigs, CreatePod(p, j, h)
        PROVE  ClusterTypeOK'
    BY <1>3, ClusterAssumption DEF CreatePod, PodStates
  <1>4. ASSUME NEW p \in Pods, SchedulePod(p) \/ TerminatePod(p) \/ RemovePod(p)
        PROVE  ClusterTypeOK'
    BY <1>4 DEF SchedulePod, TerminatePod, RemovePod, PodStates
  <1>5. ASSUME NEW x \in Nodes, NEW n \in Names, RegisterNode(x, n)
        PROVE  ClusterTypeOK'
    <2>1. pools[n].labels \in Labels
      BY DEF GKEInv, GKETypeOK, Pools
    <2> QED BY <1>5, <2>1 DEF RegisterNode, NodeStates
  <1>6. ASSUME NEW x \in Nodes, AgeNode(x) \/ ShutdownNode(x) \/ RemoveNode(x)
        PROVE  ClusterTypeOK'
    <2>1. NoNode \in NodeStates
      BY EmptyTyped DEF NoNode, NodeStates
    <2> QED BY <1>6, <2>1 DEF AgeNode, ShutdownNode, RemoveNode, NodeStates
  <1>7. CASE KubernetesStep
    BY <1>2, <1>3, <1>4, <1>5, <1>6, <1>7 DEF KubernetesStep
  <1>8. CASE Restart
    BY <1>8 DEF Restart
  <1> QED
    BY <1>1, <1>7, <1>8
    DEF Next, Running, vars, clusterVars, PodEvent, NodeEvent, CreationWorker, CreationReconcileEnds,
        CreationReconcile, CreationReturns, DeletionWorker, DeletionReconcileEnds,
        DeletionReconcile, DeletionReturns, GarbageCollector, GCLists, GCSkips, GCDeletes, GCReturns

(* What the collector lists is well typed and made for a JobSet.           *)
LEMMA ListTyped ==
    ASSUME PInv, NEW np \in ListNodePools
    PROVE  np \in NodePoolRefs /\ (GCCandidate(np) => np.labels.jobset \in JobSets)
  <1>1. PICK n \in Names : np = [name |-> n, error |-> pools[n].status = "ERROR",
                                  labels |-> pools[n].labels]
    BY DEF ListNodePools
  <1>2. pools[n].labels \in Labels
    BY DEF PInv, GKEInv, GKETypeOK, Pools
  <1>3. (pools[n].status = "ERROR") \in BOOLEAN
    OBVIOUS
  <1>4. np \in NodePoolRefs
    BY <1>1, <1>2, <1>3 DEF NodePoolRefs
  <1> QED
    BY <1>2, <1>4 DEF NodePoolRefs, GCCandidate, Labels

(* A reason given for a deletion is well typed.                            *)
LEMMA ReasonTyped ==
    ASSUME PInv, NEW j \in JobSets
    PROVE  Reason(j) \in Reasons
  BY DEF PInv, ClusterTypeOK, JobSetStates, Reason, Reasons

(* The owner of a node that may trigger a deletion is a JobSet.            *)
LEMMA OwnerTyped ==
    ASSUME PInv, NEW x \in Nodes, MayDeletePoolOf(x)
    PROVE  OwnerOf(nodes[x].labels) \in JobSets
  BY DEF PInv, ClusterTypeOK, NodeStates, Labels, MayDeletePoolOf, OwnerOf

(* Queues, work items, the collector's list and the reasons keep their     *)
(* types.                                                                  *)
LEMMA ControllerTyped ==
    ASSUME PInv, [Next]_vars
    PROVE  ControllerTypeOK'
  <1> USE DEF PInv, ControllerTypeOK
  <1>1. CASE UNCHANGED ctrlVars
    BY <1>1 DEF ctrlVars
  <1>2. ASSUME NEW p \in Pods, PodEvent(p)
        PROVE  ControllerTypeOK'
    BY <1>2 DEF PodEvent
  <1>3. ASSUME NEW x \in Nodes, NodeEvent(x)
        PROVE  ControllerTypeOK'
    BY <1>3 DEF NodeEvent
  <1>4. ASSUME NEW w \in CreationWorkers, CreationWorker(w)
        PROVE  ControllerTypeOK'
    <2>1. ASSUME NEW p \in Pods, CreationReconcileEnds(w, p) \/ CreationReconcile(w, p)
          PROVE  ControllerTypeOK'
      BY <2>1 DEF CreationReconcileEnds, CreationReconcile
    <2>2. CASE CreationReturns(w)
      <3>1. work[w] \in Pods
        BY <2>2 DEF CreationReturns, CallEnds, ObjectsOK
      <3> QED BY <2>2, <3>1 DEF CreationReturns
    <2> QED BY <1>4, <2>1, <2>2 DEF CreationWorker
  <1>5. ASSUME NEW w \in DeletionWorkers, DeletionWorker(w)
        PROVE  ControllerTypeOK'
    <2>1. ASSUME NEW x \in Nodes, DeletionReconcileEnds(w, x)
          PROVE  ControllerTypeOK'
      BY <2>1 DEF DeletionReconcileEnds
    <2>2. ASSUME NEW x \in Nodes, DeletionReconcile(w, x)
          PROVE  ControllerTypeOK'
      <3>1. Reason(OwnerOf(nodes[x].labels)) \in Reasons
        BY <2>2, OwnerTyped, ReasonTyped DEF DeletionReconcile
      <3> QED BY <2>2, <3>1 DEF DeletionReconcile
    <2>3. CASE DeletionReturns(w)
      <3>1. work[w] \in Nodes
        BY <2>3 DEF DeletionReturns, CallEnds, ObjectsOK
      <3> QED BY <2>3, <3>1 DEF DeletionReturns
    <2> QED BY <1>5, <2>1, <2>2, <2>3 DEF DeletionWorker
  <1>6. CASE GarbageCollector
    <2>1. CASE GCLists
      BY <2>1, ListTyped DEF GCLists
    <2>2. ASSUME NEW np \in gcList, GCSkips(np)
          PROVE  ControllerTypeOK'
      BY <2>2 DEF GCSkips
    <2>3. ASSUME NEW np \in gcList, GCDeletes(np)
          PROVE  ControllerTypeOK'
      <3>1. Reason(np.labels.jobset) \in Reasons
        BY ReasonTyped DEF ObjectsOK
      <3> QED BY <2>3, <3>1 DEF GCDeletes
    <2>4. CASE GCReturns
      BY <2>4 DEF GCReturns
    <2> QED BY <1>6, <2>1, <2>2, <2>3, <2>4 DEF GarbageCollector
  <1>7. CASE Restart
    BY <1>7 DEF Restart
  <1>8. CASE KubernetesStep
    BY <1>1, <1>8
    DEF KubernetesStep, CreateJobSet, EndJobSet, DeleteJobSet, SyncJobSet, CreatePod, SchedulePod,
        TerminatePod, RemovePod, RegisterNode, AgeNode, ShutdownNode, RemoveNode, Kubernetes
  <1> QED
    BY <1>1, <1>2, <1>3, <1>4, <1>5, <1>6, <1>7, <1>8 DEF Next, Running, vars

(* The step of a cluster object leaves queues, workers and their calls     *)
(* alone, and takes no object back to "never existed" or out of its        *)
(* JobSet.                                                                 *)
LEMMA KubernetesObjects ==
    ASSUME PInv, KubernetesStep
    PROVE  /\ UNCHANGED <<gkeVars, ctrlVars>>
           /\ \A p \in Pods : pods[p].phase # "none" => pods'[p].phase # "none"
           /\ \A p \in Pods : pods'[p].phase # "none" => pods'[p].jobset \in JobSets
           /\ \A x \in Nodes : nodes'[x].state # "none" => nodes'[x].pool \in Names
  <1> USE DEF PInv, ClusterTypeOK, ObjectsOK, PodStates, NodeStates, Kubernetes
  <1>1. CASE \E j \in JobSets : CreateJobSet(j) \/ EndJobSet(j) \/ DeleteJobSet(j) \/ SyncJobSet(j)
    BY <1>1 DEF CreateJobSet, EndJobSet, DeleteJobSet, SyncJobSet
  <1>2. CASE \E p \in Pods, j \in JobSets, h \in PodConfigs : CreatePod(p, j, h)
    BY <1>2 DEF CreatePod
  <1>3. CASE \E p \in Pods : SchedulePod(p) \/ TerminatePod(p) \/ RemovePod(p)
    BY <1>3 DEF SchedulePod, TerminatePod, RemovePod
  <1>4. CASE \E x \in Nodes, n \in Names : RegisterNode(x, n)
    BY <1>4 DEF RegisterNode
  <1>5. CASE \E x \in Nodes : AgeNode(x) \/ ShutdownNode(x) \/ RemoveNode(x)
    BY <1>5 DEF AgeNode, ShutdownNode, RemoveNode, NoNode
  <1> QED
    BY <1>1, <1>2, <1>3, <1>4, <1>5 DEF KubernetesStep

(* ObjectsOK is preserved.                                                 *)
LEMMA ObjectsStep ==
    ASSUME PInv, [Next]_vars
    PROVE  ObjectsOK'
  <1> USE DEF PInv, GKEInv, GKETypeOK, ControllerTypeOK, ObjectsOK, clusterVars
  <1>1. CASE UNCHANGED vars
    BY <1>1 DEF vars, gkeVars, ctrlVars
  <1>2. ASSUME NEW p \in Pods, PodEvent(p)
        PROVE  ObjectsOK'
    BY <1>2 DEF PodEvent, PassesCreationFilter, gkeVars
  <1>3. ASSUME NEW x \in Nodes, NodeEvent(x)
        PROVE  ObjectsOK'
    BY <1>3 DEF NodeEvent, gkeVars
  <1>4. ASSUME NEW w \in CreationWorkers, CreationWorker(w)
        PROVE  ObjectsOK'
    <2>0. w \in Threads /\ w \notin DeletionWorkers
          /\ \A v \in CreationWorkers \cup DeletionWorkers : v \in Threads
      BY ThreadsAssumption
    <2>1. ASSUME NEW p \in Pods, CreationReconcileEnds(w, p)
          PROVE  ObjectsOK'
      BY <2>1 DEF CreationReconcileEnds, gkeVars
    <2>2. ASSUME NEW p \in Pods, CreationReconcile(w, p)
          PROVE  ObjectsOK'
      <3>1. pods[p].phase # "none" /\ work'[w] = p /\ UNCHANGED <<clusterVars, gcList>>
            /\ creationQ' \subseteq creationQ
        BY <2>0, <2>2 DEF CreationReconcile, TakesPod
      <3>2. \A v \in Threads : v # w => pc'[v] = pc[v] /\ work'[v] = work[v]
        BY <2>0, <2>2 DEF CreationReconcile, EnsureRejectsPod, EnsureNodePoolForPod, Goto, Returns
      <3> QED BY <2>0, <3>1, <3>2
    <2>3. CASE CreationReturns(w)
      <3>1. work[w] \in Pods /\ pods[work[w]].phase # "none"
        BY <2>3 DEF CreationReturns, CallEnds
      <3> QED BY <2>0, <2>3, <3>1 DEF CreationReturns, CallEnds
    <2> QED BY <1>4, <2>1, <2>2, <2>3 DEF CreationWorker
  <1>5. ASSUME NEW w \in DeletionWorkers, DeletionWorker(w)
        PROVE  ObjectsOK'
    <2>0. w \in Threads /\ w \notin CreationWorkers
          /\ \A v \in CreationWorkers \cup DeletionWorkers : v \in Threads
      BY ThreadsAssumption
    <2>1. ASSUME NEW x \in Nodes, DeletionReconcileEnds(w, x)
          PROVE  ObjectsOK'
      BY <2>1 DEF DeletionReconcileEnds, gkeVars
    <2>2. ASSUME NEW x \in Nodes, DeletionReconcile(w, x)
          PROVE  ObjectsOK'
      BY <2>0, <2>2 DEF DeletionReconcile, DeleteNodePool, Goto
    <2>3. CASE DeletionReturns(w)
      BY <2>0, <2>3 DEF DeletionReturns, CallEnds
    <2> QED BY <1>5, <2>1, <2>2, <2>3 DEF DeletionWorker
  <1>6. CASE GarbageCollector
    <2>0. GC \in Threads /\ GC \notin CreationWorkers /\ GC \notin DeletionWorkers
          /\ \A v \in CreationWorkers \cup DeletionWorkers : v \in Threads
      BY ThreadsAssumption
    <2>1. CASE GCLists
      BY <2>1, ListTyped DEF GCLists, gkeVars
    <2>2. ASSUME NEW np \in gcList, GCSkips(np)
          PROVE  ObjectsOK'
      BY <2>2 DEF GCSkips, gkeVars
    <2>3. ASSUME NEW np \in gcList, GCDeletes(np)
          PROVE  ObjectsOK'
      BY <2>0, <2>3 DEF GCDeletes, DeleteNodePool, Goto
    <2>4. CASE GCReturns
      BY <2>0, <2>4 DEF GCReturns, CallEnds
    <2> QED BY <1>6, <2>1, <2>2, <2>3, <2>4 DEF GarbageCollector
  <1>7. ASSUME NEW t \in Threads, CallStep(t), UNCHANGED <<clusterVars, ctrlVars>>
        PROVE  ObjectsOK'
    <2>1. \A w \in CreationWorkers \cup DeletionWorkers : pc'[w] # "idle" => pc[w] # "idle"
      BY <1>7, CallStepLocal, ThreadsAssumption
    <2> QED BY <1>7, <2>1 DEF ctrlVars
  <1>8. CASE GKEStep /\ UNCHANGED <<clusterVars, ctrlVars>>
    BY <1>8, GKEStepLocal DEF ctrlVars
  <1>9. CASE KubernetesStep
    BY <1>9, KubernetesObjects DEF gkeVars, ctrlVars
  <1>10. CASE Restart
    BY <1>10, ThreadsAssumption DEF Restart, ProviderRestarts, PassesCreationFilter
  <1> QED
    BY <1>1, <1>2, <1>3, <1>4, <1>5, <1>6, <1>7, <1>8, <1>9, <1>10 DEF Next, Running

(* The typing invariant of the composition is inductive.                   *)
LEMMA PInvStep == PInv /\ [Next]_vars => PInv'
  <1> SUFFICES ASSUME PInv, [Next]_vars PROVE PInv'
    OBVIOUS
  <1>1. GKEInv'
    BY StepImplementsGKE, GKEInvStep DEF PInv
  <1> QED
    BY <1>1, ClusterTyped, ControllerTyped, ObjectsStep DEF PInv

(* The initial states satisfy it.                                          *)
LEMMA PInvInit == Init => PInv
  <1> SUFFICES ASSUME Init PROVE PInv
    OBVIOUS
  <1>1. GKEInv
    BY GKEInitTyped DEF Init
  <1>2. NoNode \in NodeStates
    BY EmptyTyped DEF NoNode, NodeStates
  <1>3. ClusterTypeOK
    BY <1>2, ClusterAssumption DEF Init, ClusterTypeOK, JobSetStates, PodStates
  <1>4. ControllerTypeOK
    BY DEF Init, ControllerTypeOK
  <1>5. ObjectsOK
    BY ThreadsAssumption DEF Init, GKEInit, ObjectsOK, NoNode
  <1> QED BY <1>1, <1>3, <1>4, <1>5 DEF PInv

(* Type correctness of the whole of dynamic provisioning.                  *)
THEOREM TypeCorrect == Spec => []TypeOK
  <1>1. PInv => TypeOK
    BY DEF PInv, GKEInv, ClusterTypeOK, ControllerTypeOK, TypeOK
  <1> QED
    BY <1>1, PInvInit, PInvStep, PTL DEF Spec

(* The controllers implement the provider's specification: they change its *)
(* state through its calls alone, so what holds of the provider under      *)
(* arbitrary callers holds here.                                           *)
THEOREM ImplementsProvider == Spec => GKESpec
  <1>1. Init => GKEInit
    BY DEF Init
  <1>2. PInv /\ [Next]_vars => [GKENext]_gkeVars
    BY StepImplementsGKE
  <1> QED
    BY <1>1, <1>2, PInvInit, PInvStep, PTL DEF Spec, GKESpec

(* In particular no in-progress key is left behind by the reconcilers and  *)
(* the garbage collector, in any interleaving and across restarts.         *)
THEOREM NoKeyLeftBehind == Spec => []InProgressOwned
  BY ImplementsProvider, OwnedAlways, PTL

(* And every call of theirs is answered as ProviderCalls promises: nil only *)
(* if the pool is as asked for or the operation the call started has ended, *)
(* "duplicate" only while another call is at work on the pool or the job.  *)
THEOREM ReconcilersSeePromise == Spec => KeepsPromise
  BY ImplementsProvider, PromiseKept, PTL

-----------------------------------------------------------------------------
(* JobSets only grow older: the generation never falls, and a generation   *)
(* that is over never becomes active again.                                *)
LEMMA JobSetsAge ==
    ASSUME PInv, [Next]_vars, NEW j \in JobSets
    PROVE  /\ jobsets[j].gen \in Nat /\ jobsets'[j].gen \in Nat
           /\ jobsets[j].gen <= jobsets'[j].gen
           /\ jobsets[j].gen = jobsets'[j].gen /\ jobsets[j].phase # "active"
                  => jobsets'[j].phase # "active"
  <1>1. \A i \in JobSets : jobsets[i] \in JobSetStates /\ jobsets[i].gen \in Nat
    BY ClusterAssumption DEF PInv, ClusterTypeOK, JobSetStates
  <1>2. jobsets \in [JobSets -> JobSetStates]
    BY DEF PInv, ClusterTypeOK
  <1>3. CASE UNCHANGED jobsets
    BY <1>1, <1>3
  <1>4. CASE \E i \in JobSets : CreateJobSet(i) \/ EndJobSet(i) \/ DeleteJobSet(i)
    BY <1>1, <1>2, <1>4 DEF CreateJobSet, EndJobSet, DeleteJobSet, JobSetStates
  <1> QED
    BY <1>3, <1>4
    DEF Next, Running, vars, clusterVars, PodEvent, NodeEvent, CreationWorker, CreationReconcileEnds,
        CreationReconcile, CreationReturns, DeletionWorker, DeletionReconcileEnds,
        DeletionReconcile, DeletionReturns, GarbageCollector, GCLists, GCSkips, GCDeletes,
        GCReturns, KubernetesStep, SyncJobSet, CreatePod, SchedulePod, TerminatePod, RemovePod,
        RegisterNode, AgeNode, ShutdownNode, RemoveNode, Restart

(* The informer's copy of a JobSet changes only to the present one.        *)
LEMMA CacheSteps ==
    ASSUME PInv, [Next]_vars, NEW j \in JobSets
    PROVE  jsCache'[j] = jsCache[j] \/ (jsCache'[j] = jobsets[j] /\ jobsets' = jobsets)
  <1>1. jsCache \in [JobSets -> JobSetStates]
    BY DEF PInv, ClusterTypeOK
  <1> QED
    BY <1>1
    DEF Next, Running, vars, clusterVars, PodEvent, NodeEvent, CreationWorker, CreationReconcileEnds,
        CreationReconcile, CreationReturns, DeletionWorker, DeletionReconcileEnds,
        DeletionReconcile, DeletionReturns, GarbageCollector, GCLists, GCSkips, GCDeletes,
        GCReturns, KubernetesStep, CreateJobSet, EndJobSet, DeleteJobSet, SyncJobSet, CreatePod,
        SchedulePod, TerminatePod, RemovePod, RegisterNode, AgeNode, ShutdownNode, RemoveNode,
        Restart

(* The cache stays behind the API server.                                  *)
LEMMA CacheBehindStep ==
    ASSUME PInv, CacheBehind, [Next]_vars
    PROVE  CacheBehind'
  <1> SUFFICES ASSUME NEW j \in JobSets
               PROVE  /\ jsCache'[j].gen <= jobsets'[j].gen
                      /\ jsCache'[j].gen = jobsets'[j].gen /\ jsCache'[j].phase # "active"
                             => jobsets'[j].phase # "active"
    BY DEF CacheBehind
  <1>1. jsCache[j].gen \in Nat
    BY ClusterAssumption DEF PInv, ClusterTypeOK, JobSetStates
  <1>2. jsCache[j].gen <= jobsets[j].gen
        /\ (jsCache[j].gen = jobsets[j].gen /\ jsCache[j].phase # "active"
               => jobsets[j].phase # "active")
    BY DEF CacheBehind
  <1> QED
    BY <1>1, <1>2, JobSetsAge, CacheSteps

(* A JobSet seen to be over in the cache really is over, or has been       *)
(* created again since: the decision both deletion paths rest on.  The     *)
(* first conjunct is what makes this inductive: without it, the next       *)
(* generation could be one the reason already speaks of.                   *)
Over(r) == /\ jobsets[r.jobset].gen >= r.gen
           /\ jobsets[r.jobset].phase # "active" \/ jobsets[r.jobset].gen > r.gen

(* A JobSet that a cache shows as over is over at the API server.          *)
LEMMA SeenOverIsOver ==
    ASSUME PInv, CacheBehind, NEW j \in JobSets, jsCache[j].phase # "active"
    PROVE  Reason(j) # None /\ Over(Reason(j))
  <1>1. jsCache[j].gen \in Nat /\ jobsets[j].gen \in Nat
    BY ClusterAssumption DEF PInv, ClusterTypeOK, JobSetStates
  <1>2. Over(Reason(j))
    BY <1>1 DEF CacheBehind, Reason, Over
  <1>3. Reason(j) # None
    BY ReasonTyped, ReasonsAssumption
  <1> QED BY <1>2, <1>3

(* What is over stays over.                                                *)
LEMMA OverStays ==
    ASSUME PInv, [Next]_vars, NEW r \in Reasons, Over(r)
    PROVE  Over(r)'
  <1>1. r.jobset \in JobSets /\ r.gen \in Nat
    BY ClusterAssumption DEF Reasons
  <1> QED
    BY <1>1, JobSetsAge DEF Over

(* DeletesJustified, with the reason's shape spelled out.                  *)
Justified ==
    \A t \in Threads : req[t].kind = "delete" => why[t] \in Reasons /\ Over(why[t])

(* A delete request is issued only with such a reason, and a reason stays  *)
(* true.                                                                   *)
LEMMA JustifiedStep ==
    ASSUME PInv, CacheBehind, Justified, [Next]_vars
    PROVE  Justified'
  <1> SUFFICES ASSUME NEW t \in Threads, (req[t].kind = "delete")'
               PROVE  (why[t] \in Reasons /\ Over(why[t]))'
    BY DEF Justified
  <1>0. Threads = CreationWorkers \cup DeletionWorkers \cup {GC}
    BY ThreadsAssumption
  <1>1. CASE req'[t] = req[t] /\ why'[t] = why[t]
    <2>1. PICK r \in Reasons : r = why[t] /\ Over(r)
      BY <1>1 DEF Justified
    <2>2. Over(r)'
      BY <2>1, OverStays
    <2> QED BY <1>1, <2>1, <2>2 DEF Over
  <1>2. ASSUME NEW x \in Nodes, DeletionReconcile(t, x)
        PROVE  (why[t] \in Reasons /\ Over(why[t]))'
    <2>1. OwnerOf(nodes[x].labels) \in JobSets
          /\ jsCache[OwnerOf(nodes[x].labels)].phase # "active"
      BY <1>2, OwnerTyped DEF DeletionReconcile, MayDeletePoolOf, SeenOver
    <2>2. why'[t] = Reason(OwnerOf(nodes[x].labels))
      BY <1>2 DEF DeletionReconcile, PInv, ControllerTypeOK
    <2>3. jobsets' = jobsets
      BY <1>2 DEF DeletionReconcile, clusterVars
    <2> QED BY <2>1, <2>2, <2>3, SeenOverIsOver, ReasonTyped DEF Over
  <1>3. ASSUME NEW np \in gcList, GCDeletes(np), t = GC
        PROVE  (why[t] \in Reasons /\ Over(why[t]))'
    <2>1. np.labels.jobset \in JobSets /\ jsCache[np.labels.jobset].phase # "active"
      BY <1>3 DEF GCDeletes, GCCollects, PInv, ObjectsOK
    <2>2. why'[t] = Reason(np.labels.jobset)
      BY <1>3 DEF GCDeletes, PInv, ControllerTypeOK
    <2>3. jobsets' = jobsets
      BY <1>3 DEF GCDeletes, clusterVars
    <2> QED BY <2>1, <2>2, <2>3, SeenOverIsOver, ReasonTyped DEF Over
  <1>4. \/ req'[t] = req[t] /\ why'[t] = why[t]
        \/ \E x \in Nodes : t \in DeletionWorkers /\ DeletionReconcile(t, x)
        \/ \E np \in gcList : t = GC /\ GCDeletes(np)
    <2> USE DEF PInv, GKEInv, GKETypeOK, ControllerTypeOK
    <2>1. CASE UNCHANGED <<req, why>>
      BY <2>1
    <2>2. ASSUME NEW w \in CreationWorkers, CreationWorker(w)
          PROVE  req'[t] = req[t] /\ why'[t] = why[t]
      <3>1. ASSUME NEW p \in Pods, CreationReconcileEnds(w, p)
            PROVE  req'[t] = req[t] /\ why'[t] = why[t]
        BY <3>1 DEF CreationReconcileEnds, gkeVars
      <3>2. ASSUME NEW p \in Pods, CreationReconcile(w, p)
            PROVE  req'[t] = req[t] /\ why'[t] = why[t]
        BY <3>2, <1>0 DEF CreationReconcile, EnsureRejectsPod, EnsureNodePoolForPod
      <3>3. CASE CreationReturns(w)
        BY <3>3, <1>0, EmptyTyped DEF CreationReturns, CallEnds
      <3> QED
        BY <2>2, <3>1, <3>2, <3>3 DEF CreationWorker
    <2>3. ASSUME NEW w \in DeletionWorkers, DeletionWorker(w)
          PROVE  \/ req'[t] = req[t] /\ why'[t] = why[t]
                 \/ \E x \in Nodes : t \in DeletionWorkers /\ DeletionReconcile(t, x)
      <3>1. ASSUME NEW x \in Nodes, DeletionReconcileEnds(w, x)
            PROVE  req'[t] = req[t] /\ why'[t] = why[t]
        BY <3>1 DEF DeletionReconcileEnds, gkeVars
      <3>2. ASSUME NEW x \in Nodes, DeletionReconcile(w, x), t # w
            PROVE  req'[t] = req[t] /\ why'[t] = why[t]
        BY <3>2 DEF DeletionReconcile, DeleteNodePool
      <3>3. CASE DeletionReturns(w)
        <4>1. t # w
          BY <3>3, EmptyTyped DEF DeletionReturns, CallEnds
        <4> QED
          BY <3>3, <4>1 DEF DeletionReturns, CallEnds
      <3> QED
        BY <2>3, <3>1, <3>2, <3>3 DEF DeletionWorker
    <2>4. CASE GarbageCollector
      <3>1. CASE GCLists \/ \E np \in gcList : GCSkips(np)
        BY <3>1 DEF GCLists, GCSkips, gkeVars
      <3>2. ASSUME NEW np \in gcList, GCDeletes(np), t # GC
            PROVE  req'[t] = req[t] /\ why'[t] = why[t]
        BY <3>2 DEF GCDeletes, DeleteNodePool
      <3>3. CASE GCReturns
        <4>1. t # GC
          BY <3>3, EmptyTyped DEF GCReturns, CallEnds
        <4> QED
          BY <3>3, <4>1 DEF GCReturns, CallEnds
      <3> QED
        BY <2>4, <3>1, <3>2, <3>3 DEF GarbageCollector
    <2>5. CASE Restart
      BY <2>5, EmptyTyped DEF Restart, ProviderRestarts
    <2>6. CASE (\E u \in Threads : CallStep(u)) /\ UNCHANGED <<clusterVars, ctrlVars>>
      BY <2>6, CallStepLocal DEF ctrlVars
    <2>7. CASE GKEStep /\ UNCHANGED <<clusterVars, ctrlVars>>
      BY <2>7, GKEStepLocal DEF ctrlVars
    <2>8. CASE KubernetesStep
      BY <2>8, KubernetesObjects DEF gkeVars, ctrlVars
    <2> QED
      BY <2>1, <2>2, <2>3, <2>4, <2>5, <2>6, <2>7, <2>8
      DEF Next, Running, vars, gkeVars, ctrlVars, PodEvent, NodeEvent
  <1> QED
    BY <1>1, <1>2, <1>3, <1>4

(* Neither the deletion reconciler nor the garbage collector ever acts     *)
(* against a JobSet that is still the active one it looked at, for any     *)
(* number of workers and however far the informer lags.                    *)
THEOREM DeletesAlwaysJustified == Spec => []DeletesJustified
  <1>1. Init => CacheBehind /\ Justified
    BY ClusterAssumption, EmptyTyped
    DEF Init, GKEInit, CacheBehind, Justified
  <1>2. PInv /\ CacheBehind /\ Justified /\ [Next]_vars => (CacheBehind /\ Justified)'
    BY CacheBehindStep, JustifiedStep
  <1>3. Justified => DeletesJustified
    BY ReasonsAssumption DEF Justified, DeletesJustified, Over
  <1> QED
    BY <1>1, <1>2, <1>3, PInvInit, PInvStep, PTL DEF Spec
=============================================================================
