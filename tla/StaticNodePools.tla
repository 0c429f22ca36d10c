-------------------------- MODULE StaticNodePools --------------------------
(***************************************************************************)
(* Static node pools: the reconciler that makes the cluster's static pools *)
(* those of a ConfigMap (static_nodepool_controller.go), with the parts of *)
(* the provider that only it calls (DiffStaticNodePools,                   *)
(* EnsureStaticNodePools, DeleteStaticNodePools in gke.go).                *)
(*                                                                         *)
(* The reconciler has one worker and one key.  A reconcile reads the       *)
(* ConfigMap from a cache and lists the pools, then reads Slices and Nodes *)
(* from caches, and then works through four sets of pools in turn: those   *)
(* not in the ConfigMap, those in ERROR, those of another configuration,   *)
(* all deleted, and those to create.  For each set it starts a goroutine   *)
(* per pool, as many at a time as the semaphore lets through (Threads),    *)
(* and waits for all of them; after any error it gives up and is tried     *)
(* again.                                                                  *)
(*                                                                         *)
(* A ConfigMap, in the state, is a name for its content; the pools it asks *)
(* for are what NodePoolSpecs makes of the content.                        *)
(***************************************************************************)
EXTENDS GKEProvider, Integers, FiniteSets

CONSTANTS
    ConfigMaps,         \* contents the ConfigMap may come to have
    ContentOf,          \* gscBlocks and nodepoolConfig of each; None: missing, or does not parse
    ClusterContext,     \* settings of the cluster
    LongNames,          \* node pool names that are too long
    CreateConcurrency,  \* StaticNodepoolCreateConcurrency
    DeleteConcurrency,  \* StaticNodepoolDeleteConcurrency
    SlicedPools         \* pools whose partitions Slices may come to use

Specs == INSTANCE NodePoolSpecs

BuildNodePool(cm, w) == Specs!StaticNodePoolForSubBlock(w.name, w.subblock, ContentOf[cm].nodepoolConfig)

(* What constructDesiredNodePools and DiffStaticNodePools make of a        *)
(* ConfigMap: the pool for each name, or an error.                         *)
NodePoolsOf(cm) ==
    LET wanted == Specs!constructDesiredNodePools(ContentOf[cm].gscBlocks)
    IN  IF wanted = None \/ \E w \in wanted : BuildNodePool(cm, w) = None
        THEN None
        ELSE [n \in {w.name : w \in wanted} |-> BuildNodePool(cm, CHOOSE w \in wanted : w.name = n)]

UsableConfigMaps == {cm \in ConfigMaps : ContentOf[cm] # None}

AllNodePools == [cm \in UsableConfigMaps |-> NodePoolsOf(cm)]

ValidConfigMaps == {cm \in UsableConfigMaps : AllNodePools[cm] # None}

Desired(cm)       == DOMAIN AllNodePools[cm]
SubblockOf(cm, n) == AllNodePools[cm][n].reservation

AllHashes ==
    [cm \in ValidConfigMaps |-> [n \in Desired(cm) |-> Specs!nodePoolHash(AllNodePools[cm][n])]]

(* A ConfigMap asks for one pool per name and one per subblock.            *)
ASSUME ConfigMapsAssumption ==
    /\ None \notin ConfigMaps
    /\ \A cm \in ValidConfigMaps :
          /\ Desired(cm) \subseteq Names
          /\ Cardinality(Desired(cm)) = Cardinality(Specs!constructDesiredNodePools(ContentOf[cm].gscBlocks))
          /\ \A n \in Desired(cm) : AllHashes[cm][n] \in Hashes
          /\ \A m, n \in Desired(cm) : m # n => SubblockOf(cm, m) # SubblockOf(cm, n)

ASSUME ReconcilerAssumption ==
    /\ CreateConcurrency \in Nat \ {0} /\ DeleteConcurrency \in Int
    /\ CreateConcurrency <= Cardinality(Threads) /\ DeleteConcurrency <= Cardinality(Threads)
    /\ SlicedPools \subseteq Names

VARIABLES
    built,       \* the ConfigMap each pool was made from
    config,      \* the ConfigMap
    configSeen,  \* the informer's copy
    inUse,       \* pools that have a Node with a partition that some Slice names
    inUseSeen,   \* the same by the informers' copies of Slices and Nodes
    queued,      \* the key is in the workqueue
    phase,       \* where the reconcile is
    plan,        \* what it has still to do
    failed       \* a goroutine of this phase returned an error

cloudVars  == <<gkeVars, built>>
envVars    == <<config, configSeen, inUse, inUseSeen>>
staticVars == <<queued, phase, plan, failed>>
vars       == <<cloudVars, envVars, staticVars>>

DeletePhases == {"missing", "error", "update"}

(* desired: the ConfigMap read; listed: what the pools listed were made    *)
(* from.                                                                   *)
Plans == [missing : SUBSET Names, error : SUBSET Names, update : SUBSET Names, create : SUBSET Names,
          desired : ValidConfigMaps \cup {None},
          listed  : [Names -> ValidConfigMaps \cup {None}]]

NoPlan == [missing |-> {}, error |-> {}, update |-> {}, create |-> {}, desired |-> None,
           listed |-> [n \in Names |-> None]]

StaticTypeOK ==
    /\ GKETypeOK
    /\ built \in [Names -> ValidConfigMaps \cup {None}]
    /\ config \in ConfigMaps /\ configSeen \in ConfigMaps
    /\ inUse \subseteq Names /\ inUseSeen \subseteq Names
    /\ queued \in BOOLEAN /\ failed \in BOOLEAN
    /\ phase \in DeletePhases \cup {"idle", "filter", "create"}
    /\ plan \in Plans

Exists(n) == pools[n].status # "ABSENT"

(* Pools that exist at the start were made from some ConfigMap, by this    *)
(* release or by one that did not hash.                                    *)
Init ==
    /\ GKEInit
    /\ built \in [Names -> ValidConfigMaps \cup {None}]
    /\ \A n \in Names : IF Exists(n) THEN /\ built[n] # None /\ n \in Desired(built[n])
                                         /\ pools[n].labels.hash \in {None, AllHashes[built[n]][n]}
                                    ELSE built[n] = None
    /\ config \in ConfigMaps /\ configSeen = config
    /\ inUse = {} /\ inUseSeen = {}
    /\ queued = TRUE
    /\ phase = "idle" /\ plan = NoPlan /\ failed = FALSE

-----------------------------------------------------------------------------
(* The reconcile.                                                          *)

(* Mutant: pools in ERROR are left to the other list.                      *)
ToDeleteMissingHealthy(cm) ==
    {n \in Names \ Desired(cm) : Exists(n) /\ pools[n].labels.static /\ pools[n].status # "ERROR"}

(* DiffStaticNodePools works on a list of the pools.  One that is not      *)
(* wanted is looked at only if it is static; one of a wanted name whoever  *)
(* made it.                                                                *)
ToDeleteMissing(cm) == {n \in Names \ Desired(cm) : Exists(n) /\ pools[n].labels.static}

RecreateOnError(cm) == Specs!OrDefault(ContentOf[cm].nodepoolConfig.recreateOnError, TRUE)

(* Mutant: RecreateOnError is off by default.                              *)
ToDeleteErrorNever(cm) == {}

ToDeleteError(cm) == {n \in Desired(cm) : pools[n].status = "ERROR" /\ RecreateOnError(cm)}

ToDeleteUpdate(cm) ==
    {n \in Desired(cm) \ ToDeleteError(cm) : Exists(n) /\ pools[n].labels.hash \notin {None, AllHashes[cm][n]}}

DiffStaticNodePools(cm) ==
    [missing |-> ToDeleteMissing(cm), error |-> ToDeleteError(cm), update |-> ToDeleteUpdate(cm),
     create  |-> {n \in Desired(cm) : ~Exists(n)} \cup ToDeleteError(cm) \cup ToDeleteUpdate(cm),
     desired |-> cm,
     listed  |-> built]

(* Without a usable ConfigMap nothing is done.                             *)
ReconcileNothing ==
    /\ phase = "idle" /\ queued /\ configSeen \notin UsableConfigMaps
    /\ queued' = FALSE
    /\ UNCHANGED <<cloudVars, envVars, phase, plan, failed>>

(* The reads up to DiffStaticNodePools.  If one fails, or a pool cannot be *)
(* constructed, the key is queued again, which is no step here.            *)
Reconcile ==
    /\ phase = "idle" /\ queued /\ configSeen \in ValidConfigMaps
    /\ queued' = FALSE
    /\ plan' = DiffStaticNodePools(configSeen)
    /\ phase' = "filter"
    /\ UNCHANGED <<cloudVars, envVars, failed>>

(* Mutant: only the pool of the same name is looked at.                    *)
MayCreateByName(n, skipped) == n \notin skipped \cap plan.update

(* A pool is not created if its old version stays, nor if any pool that    *)
(* stays holds its subblock.                                               *)
MayCreate(n, skipped) ==
    /\ n \notin skipped \cap plan.update
    /\ \A m \in skipped : SubblockOf(plan.listed[m], m) # SubblockOf(plan.desired, n)

(* filterLocked: pools that GetInUseNodepools finds in the caches are not  *)
(* deleted, unless they are in ERROR.                                      *)
FilterLocked ==
    LET skipped == (plan.missing \cup plan.update) \cap inUseSeen
    IN  /\ phase = "filter"
        /\ plan' = [plan EXCEPT !.missing = @ \ skipped, !.update = @ \ skipped,
                                !.create = {n \in plan.create : MayCreate(n, skipped)}]
        /\ phase' = "missing"
        /\ UNCHANGED <<cloudVars, envVars, queued, failed>>

DesiredNodePool(cm, n) ==
    [name |-> n, labels |-> [NoLabels EXCEPT !.hash   = AllHashes[cm][n],
                                             !.static = (AllNodePools[cm][n].labels["static"] = "true")]]

(* Mutant: a concurrency of 0 is taken as it is.                           *)
DeleteSlotsUnguarded == DeleteConcurrency

(* The capacity of the semaphore that the loop waits for before it starts  *)
(* a goroutine.                                                            *)
DeleteSlots == IF DeleteConcurrency <= 0 THEN 1 ELSE DeleteConcurrency

HasSlot(slots) == Cardinality({t \in Threads : pc[t] # "idle"}) < slots

(* DeleteStaticNodePools and EnsureStaticNodePools: a goroutine starts ... *)
StartDelete(t, n) ==
    /\ phase \in DeletePhases /\ n \in plan[phase]
    /\ HasSlot(DeleteSlots)
    /\ DeleteNodePool(t, n)
    /\ plan' = [plan EXCEPT ![phase] = @ \ {n}]
    /\ UNCHANGED <<built, envVars, queued, phase, failed>>

StartCreate(t, n) ==
    /\ phase = "create" /\ n \in plan.create
    /\ HasSlot(CreateConcurrency)
    /\ StaticEnsure(t, DesiredNodePool(plan.desired, n))
    /\ plan' = [plan EXCEPT !.create = @ \ {n}]
    /\ UNCHANGED <<built, envVars, queued, phase, failed>>

(* ... and ends.  A duplicate is an error here.                            *)
GoroutineEnds(t) ==
    /\ CallEnds(t)
    /\ failed' = (failed \/ ret[t] # "nil")
    /\ UNCHANGED <<built, envVars, queued, phase, plan>>

(* Mutant: a reconcile that has created its pools does not end.            *)
NextPhaseWithoutEnd == [missing |-> "error", error |-> "update", update |-> "create", create |-> "created"]

NextPhase == [missing |-> "error", error |-> "update", update |-> "create", create |-> "idle"]

(* The goroutines of a phase are joined; an error ends the reconcile.      *)
PhaseEnds ==
    /\ phase \in DOMAIN NextPhase /\ plan[phase] = {}
    /\ \A t \in Threads : pc[t] = "idle"
    /\ phase' = IF failed THEN "idle" ELSE NextPhase[phase]
    /\ queued' = (queued \/ failed)
    /\ plan' = IF phase' = "idle" THEN NoPlan ELSE plan
    /\ failed' = FALSE
    /\ UNCHANGED <<cloudVars, envVars>>

-----------------------------------------------------------------------------
(* Kubernetes (external).                                                  *)

ChangeConfig(cm) ==
    /\ config # cm
    /\ config' = cm
    /\ UNCHANGED <<cloudVars, configSeen, inUse, inUseSeen, staticVars>>

(* A Slice takes a partition of a pool's Nodes ...                         *)
SliceTakes(n) ==
    /\ n \in SlicedPools \ inUse /\ pools[n].status = "RUNNING"
    /\ inUse' = inUse \cup {n}
    /\ UNCHANGED <<cloudVars, config, configSeen, inUseSeen, staticVars>>

(* ... and gives it back, or the Nodes go.                                 *)
UseEnds(n) ==
    /\ n \in inUse
    /\ inUse' = inUse \ {n}
    /\ UNCHANGED <<cloudVars, config, configSeen, inUseSeen, staticVars>>

(* Informers deliver.  The reconciler watches Slices and not Nodes: a Node *)
(* that comes or goes does not queue the key.                              *)
SyncConfig ==
    /\ configSeen # config
    /\ configSeen' = config
    /\ queued' = TRUE
    /\ UNCHANGED <<cloudVars, config, inUse, inUseSeen, phase, plan, failed>>

SyncUse ==
    /\ inUseSeen # inUse
    /\ inUseSeen' = inUse
    /\ queued' \in {queued, TRUE}
    /\ UNCHANGED <<cloudVars, config, configSeen, inUse, phase, plan, failed>>

(* The informer's periodic resync of the ConfigMap; during a reconcile it  *)
(* would only queue the key for afterwards.                                *)
Resync ==
    /\ ~queued /\ phase = "idle"
    /\ queued' = TRUE
    /\ UNCHANGED <<cloudVars, envVars, phase, plan, failed>>

(* The process dies and comes back with fresh caches.                      *)
Restart ==
    /\ ProviderRestarts
    /\ configSeen' = config /\ inUseSeen' = inUse
    /\ queued' = TRUE /\ phase' = "idle" /\ plan' = NoPlan /\ failed' = FALSE
    /\ UNCHANGED <<built, config, inUse>>

-----------------------------------------------------------------------------
(* Steps of GKE and of the goroutines: what a pool was made from is set    *)
(* when its creation is accepted and goes with it.                         *)
Alone(A) ==
    /\ A
    /\ built' = [n \in Names |-> CASE pools'[n].status = "ABSENT"            -> None
                                   [] pools[n].status = "ABSENT" /\ pools'[n].status # "ABSENT" -> plan.desired
                                   [] OTHER                                  -> built[n]]
    /\ UNCHANGED <<envVars, staticVars>>

Worker ==
    \/ ReconcileNothing \/ Reconcile \/ FilterLocked \/ PhaseEnds
    \/ \E t \in Threads, n \in Names : StartDelete(t, n) \/ StartCreate(t, n)

Kubernetes ==
    \/ \E cm \in ConfigMaps : ChangeConfig(cm)
    \/ \E n \in Names : SliceTakes(n) \/ UseEnds(n)
    \/ SyncConfig \/ SyncUse \/ Resync

(* Everything but the death of the process.                                *)
Running ==
    \/ Worker
    \/ \E t \in Threads : GoroutineEnds(t) \/ Alone(CallStep(t))
    \/ Alone(GKEStep)
    \/ Kubernetes

Next == Running \/ Restart

Spec == Init /\ [][Next]_vars

(* A request that could have been served fails, a poll fails or runs out   *)
(* of time, or an operation fails.                                         *)
Fault ==
    \/ \E t \in Threads :
          \/ StaticRefused(t) /\ pools[req[t].name].status = "ABSENT"
          \/ StaticRefused(t) /\ pc[t] = "staticCheck"
          \/ DeleteRefused(t) /\ pools[req[t].name].status \in {"RUNNING", "ERROR"}
          \/ (StaticWaits(t) \/ DeleteWaits(t)) /\ ret'[t] = "Error"
    \/ \E n \in Names : ProvisioningFails(n) \/ DeletionFails(n)

(* Faults and restarts stop at some time; from then on a goroutine that    *)
(* can run is run, informers catch up and resync, and GKE's operations     *)
(* end.                                                                    *)
Fairness ==
    /\ <>[][Running /\ ~Fault]_vars
    /\ WF_vars(Worker)
    /\ \A t \in Threads : WF_vars(GoroutineEnds(t) \/ Alone(CallStep(t)))
    /\ WF_vars(SyncConfig) /\ WF_vars(SyncUse) /\ WF_vars(Resync)
    /\ \A n \in Names : WF_vars(Alone(Provisioned(n))) /\ WF_vars(Alone(Deleted(n)))

FairSpec == Spec /\ Fairness

-----------------------------------------------------------------------------
(* Properties.                                                             *)

(* A pool that DiffStaticNodePools can tell from what is wanted: it is     *)
(* labelled static, which a label of the ConfigMap may overwrite, and has  *)
(* a hash.                                                                 *)
Managed(m) == Exists(m) /\ pools[m].labels.static /\ pools[m].labels.hash # None

(* Pool m is on the subblock that a pool n of the ConfigMap read is for.   *)
Blocks(m, n) == Managed(m) /\ m # n /\ SubblockOf(built[m], m) = SubblockOf(plan.desired, n)

Creates(t) == pc[t] = "staticCreate" /\ pc'[t] = "staticWait"

(* A static pool is not created on a subblock that another working pool    *)
(* holds: not when that pool stays because a Slice uses it, nor while its  *)
(* deletion is under way, nor after a change of the ConfigMap, a timeout,  *)
(* or a crash between the two.  A pool in ERROR may be in the way:         *)
(* waitForGkeOp does not tell a deletion that failed from one that worked. *)
WorkingPoolKeepsSubblock ==
    [][\A t \in Threads : Creates(t) =>
          \A m \in Names : Blocks(m, req[t].name) => pools[m].status = "ERROR"]_vars

(* A static pool that the ConfigMap no longer names is deleted, unless the *)
(* ConfigMap changes again or a Slice uses the pool.                       *)
UnwantedPoolGoes ==
    \A cm \in ValidConfigMaps : \A n \in Names \ Desired(cm) :
        config = cm /\ Exists(n) /\ pools[n].labels.static ~> config # cm \/ ~Exists(n) \/ n \in inUse

RunsAs(n, np) == pools[n].status = "RUNNING" /\ AllNodePools[built[n]][n] = np

SameButAutoRepair(n, np) == [np EXCEPT !.autoRepair = AllNodePools[built[n]][n].autoRepair]

(* A pool the ConfigMap asks for comes to run as the ConfigMap describes   *)
(* it in every parameter but auto-repair, whatever was in its place and    *)
(* however often GKE failed before, unless the ConfigMap changes again or  *)
(* some pool is in use by a Slice.  A pool without a hash is left alone.   *)
WantedPoolComes ==
    \A cm \in ValidConfigMaps : \A n \in Desired(cm) :
        config = cm ~> \/ config # cm \/ inUse # {}
                       \/ pools[n].status = "RUNNING" /\ pools[n].labels.hash = None
                       \/ Exists(n) /\ RunsAs(n, SameButAutoRepair(n, AllNodePools[cm][n]))

(* A reconcile ends: its semaphores let every goroutine through, whatever  *)
(* the number of pools and the concurrency for deletes, and every          *)
(* goroutine is joined.                                                    *)
ReconcileEnds == phase # "idle" ~> phase = "idle"
=============================================================================
