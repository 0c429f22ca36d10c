---------------------------- MODULE GKEProvider ----------------------------
(***************************************************************************)
(* The GKE provider (internal/cloud/gke.go, gke_service.go): one object    *)
(* shared by every goroutine of the controller manager that creates or     *)
(* deletes node pools.  A thread is such a goroutine: a worker of the      *)
(* creation or of the deletion reconciler, the garbage collector, or one   *)
(* of those EnsureStaticNodePools and DeleteStaticNodePools start.  A call *)
(* (EnsureNodePoolForPod, DeleteNodePool, or the part of                   *)
(* EnsureStaticNodePools for one pool, StaticEnsure) is a sequence of      *)
(* steps, one for each access to state that other threads share: a GKE     *)
(* request, a poll of a GKE operation, a Load or a Store on one of the     *)
(* three sync.Maps.  The Load and the Store that follows it are two steps, *)
(* because the code calls them separately.                                 *)
(*                                                                         *)
(* The GKE API itself is external.  It is modelled by what the code relies *)
(* on: a create is accepted only for a name that does not exist, a delete  *)
(* only for a pool on which no operation runs ("Cluster is running         *)
(* incompatible operation", gke.go:119); any request may fail; an accepted *)
(* request starts an operation that ends well or badly at any later time.  *)
(***************************************************************************)

CONSTANTS
    Threads,        \* goroutines that call the provider
    Names,          \* node pool names
    JobKeys,        \* values of the job-key label (never empty: the pool's name takes 5 characters of it)
    Hashes,         \* values of the node pool hash label
    JobSets,        \* JobSets a pool can be labelled with
    InitialLabels,  \* labels of pools that exist before the controller starts
    None            \* "no value"

ASSUME NoneAssumption ==
    None \notin Threads \cup Names \cup JobKeys \cup Hashes \cup JobSets

Statuses == {"ABSENT", "PROVISIONING", "RUNNING", "ERROR", "STOPPING"}

(* The labels of a pool that the controller reads back.  hash is None for  *)
(* a pool made by a release that did not hash; legacyID is the             *)
(* provisioner-nodepool-id label as the deletion reconciler reads it: the  *)
(* JobSet, on a pool of a release that had no JobSet label.                *)
Labels == [hash     : Hashes \cup {None},
           jobset   : JobSets \cup {None},
           legacyID : JobSets \cup {None},
           static   : BOOLEAN]

NoLabels == [hash |-> None, jobset |-> None, legacyID |-> None, static |-> FALSE]

(* A thread polls its operation by the name that GKE gave it.  waiter      *)
(* stands for that name: the thread that holds it, if one still polls.     *)
Pools == [status : Statuses, labels : Labels, waiter : Threads \cup {None}]

AbsentPool == [status |-> "ABSENT", labels |-> NoLabels, waiter |-> None]

ASSUME InitialLabelsAssumption == InitialLabels \subseteq Labels

(* What nodePoolForPod builds, as far as the controller looks at it: the   *)
(* pool of this release is labelled with the pod's JobSet and with the     *)
(* hash of the rest of its configuration.                                  *)
NodePools == [name : Names, jobKey : JobKeys,
              labels : [hash : Hashes, jobset : JobSets, legacyID : {None}, static : {FALSE}]]

(* What StaticNodePoolForSubBlock builds.  The labels of the ConfigMap are *)
(* written over the controller's own, the static label included.           *)
StaticNodePools == [name : Names,
                    labels : [hash : Hashes, jobset : {None}, legacyID : {None}, static : BOOLEAN]]

Requests == [kind   : {"none", "ensure", "static", "delete"},
             name   : Names \cup {None},
             jobKey : JobKeys \cup {None},
             labels : Labels]

NoRequest == [kind |-> "none", name |-> None, jobKey |-> None, labels |-> NoLabels]

VARIABLES
    pools,       \* the node pools of the cluster, as the GKE API shows them
    createsNP,   \* keys of inProgressCreatesNPName
    createsKey,  \* keys of inProgressCreatesJobKey
    deletesNP,   \* keys of inProgressDeletesNPName
    pc,          \* where each thread is in its call
    req,         \* the arguments of that call
    op,          \* the GKE operation the thread waits for
    ret          \* what the call returned

maps    == <<createsNP, createsKey, deletesNP>>
gkeVars == <<pools, createsNP, createsKey, deletesNP, pc, req, op, ret>>

Results == {"nil", "Duplicate", "Stopping", "Recreate", "Error"}

(* Control points at which a thread has stored its key in a map and not    *)
(* yet run the deferred Delete.                                            *)
HoldsNP  == {"keyLoad", "keyStore", "create", "createWait"}
HoldsKey == {"create", "createWait"}
HoldsDel == {"delete", "deleteWait"}

Points == {"idle", "check", "npLoad", "npStore", "keyLoad", "keyStore", "create",
           "createWait", "delLoad", "delStore", "delete", "deleteWait",
           "staticCheck", "staticCreate", "staticWait", "return"}

GKETypeOK ==
    /\ pools \in [Names -> Pools]
    /\ createsNP \subseteq Names
    /\ createsKey \subseteq JobKeys
    /\ deletesNP \subseteq Names
    /\ pc \in [Threads -> Points]
    /\ req \in [Threads -> Requests]
    /\ op \in [Threads -> {"none", "running", "done"}]
    /\ ret \in [Threads -> Results]

GKEInit ==
    /\ pools \in [Names -> {AbsentPool} \cup
                    [status : {"RUNNING", "ERROR"}, labels : InitialLabels, waiter : {None}]]
    /\ createsNP = {} /\ createsKey = {} /\ deletesNP = {}
    /\ pc = [t \in Threads |-> "idle"]
    /\ req = [t \in Threads |-> NoRequest]
    /\ op = [t \in Threads |-> "none"]
    /\ ret = [t \in Threads |-> "nil"]

-----------------------------------------------------------------------------
(* Steps of a call.                                                        *)

Goto(t, p) == /\ pc' = [pc EXCEPT ![t] = p]
              /\ UNCHANGED ret

Returns(t, r) == /\ pc' = [pc EXCEPT ![t] = "return"]
                 /\ ret' = [ret EXCEPT ![t] = r]

EnsureNodePoolForPod(t, np) ==
    /\ pc[t] = "idle"
    /\ Goto(t, "check")
    /\ req' = [req EXCEPT ![t] = [kind   |-> "ensure", name |-> np.name,
                                  jobKey |-> np.jobKey, labels |-> np.labels]]
    /\ UNCHANGED <<pools, maps, op>>

(* The call for a pod from which nodePoolForPod cannot build a pool.       *)
EnsureRejectsPod(t) ==
    /\ pc[t] = "idle"
    /\ Returns(t, "Error")
    /\ UNCHANGED <<pools, maps, req, op>>

DeleteNodePool(t, n) ==
    /\ pc[t] = "idle"
    /\ Goto(t, "delLoad")
    /\ req' = [req EXCEPT ![t] = [NoRequest EXCEPT !.kind = "delete", !.name = n]]
    /\ UNCHANGED <<pools, maps, op>>

(* The call has returned and its caller has looked at the result.          *)
CallEnds(t) ==
    /\ pc[t] = "return"
    /\ pc' = [pc EXCEPT ![t] = "idle"]
    /\ req' = [req EXCEPT ![t] = NoRequest]
    /\ ret' = [ret EXCEPT ![t] = "nil"]
    /\ UNCHANGED <<pools, maps, op>>

(* Mutant: a pool without a hash does not match.                           *)
nodePoolHashesMatchNoLegacy(desired, existing) == existing.hash = desired.hash

nodePoolHashesMatch(desired, existing) ==
    existing.hash = None \/ existing.hash = desired.hash

(* The outcome of a Get that succeeds or answers 404.  The code tests for  *)
(* STOPPING only after a Get that failed, and then there is no pool to     *)
(* read the status of: no outcome is "ExistsAndStopping".                  *)
checkExistingNodePoolState(name, desired) ==
    IF pools[name].status = "ABSENT" THEN "NotExists"
    ELSE IF nodePoolHashesMatch(desired, pools[name].labels)
         THEN "ExistsAndMatches" ELSE "ExistsAndNotMatches"

CheckFails(t) ==
    /\ pc[t] = "check"
    /\ Returns(t, "Error")
    /\ UNCHANGED <<pools, maps, req, op>>

Check(t) ==
    /\ pc[t] = "check"
    /\ LET state == checkExistingNodePoolState(req[t].name, req[t].labels)
       IN  \/ state = "NotExists" /\ Goto(t, "npLoad")
           \/ state = "ExistsAndMatches" /\ Returns(t, "nil")
           \/ state = "ExistsAndNotMatches" /\ Goto(t, "delLoad")
    /\ UNCHANGED <<pools, maps, req, op>>

CreateLoadNPName(t) ==
    /\ pc[t] = "npLoad"
    /\ IF req[t].name \in createsNP THEN Returns(t, "Duplicate") ELSE Goto(t, "npStore")
    /\ UNCHANGED <<pools, maps, req, op>>

(* Mutant: the job key is stored where the name belongs.                   *)
CreateStoreNPNameStoresKey(t) ==
    /\ pc[t] = "npStore"
    /\ createsNP' = createsNP \cup {req[t].jobKey}
    /\ Goto(t, "keyLoad")
    /\ UNCHANGED <<pools, createsKey, deletesNP, req, op>>

CreateStoreNPName(t) ==
    /\ pc[t] = "npStore"
    /\ createsNP' = createsNP \cup {req[t].name}
    /\ Goto(t, "keyLoad")
    /\ UNCHANGED <<pools, createsKey, deletesNP, req, op>>

(* A duplicate found here returns through the deferred Delete of the name. *)
CreateLoadJobKey(t) ==
    /\ pc[t] = "keyLoad"
    /\ IF req[t].jobKey \in createsKey
       THEN Returns(t, "Duplicate") /\ createsNP' = createsNP \ {req[t].name}
       ELSE Goto(t, "keyStore") /\ UNCHANGED createsNP
    /\ UNCHANGED <<pools, createsKey, deletesNP, req, op>>

CreateStoreJobKey(t) ==
    /\ pc[t] = "keyStore"
    /\ createsKey' = createsKey \cup {req[t].jobKey}
    /\ Goto(t, "create")
    /\ UNCHANGED <<pools, createsNP, deletesNP, req, op>>

(* Mutant: the deferred Delete of the name is missing.                     *)
CreateReturnsKeepsName(t, r) ==
    /\ createsKey' = createsKey \ {req[t].jobKey}
    /\ Returns(t, r)
    /\ UNCHANGED <<createsNP, deletesNP, req>>

(* Both deferred Deletes; nothing another thread does depends on what is   *)
(* between them.                                                           *)
CreateReturns(t, r) ==
    /\ createsNP' = createsNP \ {req[t].name}
    /\ createsKey' = createsKey \ {req[t].jobKey}
    /\ Returns(t, r)
    /\ UNCHANGED <<deletesNP, req>>

CreateAccepted(t) ==
    LET n == req[t].name
    IN  /\ pc[t] = "create"
        /\ pools[n].status = "ABSENT"
        /\ pools' = [pools EXCEPT ![n] = [status |-> "PROVISIONING",
                                          labels |-> req[t].labels, waiter |-> t]]
        /\ op' = [op EXCEPT ![t] = "running"]
        /\ Goto(t, "createWait")
        /\ UNCHANGED <<maps, req>>

CreateRefused(t) ==
    /\ pc[t] = "create"
    /\ CreateReturns(t, "Error")
    /\ UNCHANGED <<pools, op>>

(* waitForGkeOp looks at the operation's status only: an operation that is *)
(* DONE with an error ends the wait like one that succeeded.               *)
OpDone(t) == op[t] = "done" /\ op' = [op EXCEPT ![t] = "none"] /\ UNCHANGED pools

(* Mutant: the wait has no timeout.                                        *)
OpGivenUpOnlyWhenDone(t) ==
    /\ op[t] = "done"
    /\ op' = [op EXCEPT ![t] = "none"]
    /\ UNCHANGED pools

(* A failed poll, or 30 minutes without DONE.  GKE goes on with the        *)
(* operation; nobody waits for it any more.                                *)
OpGivenUp(t) ==
    /\ op[t] \in {"running", "done"}
    /\ op' = [op EXCEPT ![t] = "none"]
    /\ pools' = [n \in Names |-> IF pools[n].waiter = t
                                 THEN [pools[n] EXCEPT !.waiter = None] ELSE pools[n]]

(* Mutant: a wait that times out is reported as a success.                 *)
CreateWaitsOrSucceeds(t) ==
    /\ pc[t] = "createWait"
    /\ OpDone(t) \/ OpGivenUp(t)
    /\ CreateReturns(t, "nil")

CreateWaits(t) ==
    /\ pc[t] = "createWait"
    /\ \/ OpDone(t) /\ CreateReturns(t, "nil")
       \/ OpGivenUp(t) /\ CreateReturns(t, "Error")

DeleteLoadNPName(t) ==
    /\ pc[t] = "delLoad"
    /\ IF req[t].name \in deletesNP THEN Returns(t, "Duplicate") ELSE Goto(t, "delStore")
    /\ UNCHANGED <<pools, maps, req, op>>

DeleteStoreNPName(t) ==
    /\ pc[t] = "delStore"
    /\ deletesNP' = deletesNP \cup {req[t].name}
    /\ Goto(t, "delete")
    /\ UNCHANGED <<pools, createsNP, createsKey, req, op>>

(* Mutant: the deferred Delete of the name is missing.                     *)
DeleteReturnsKeepsName(t, r) ==
    /\ Returns(t, IF req[t].kind = "ensure" /\ r = "nil" THEN "Recreate" ELSE r)
    /\ UNCHANGED <<maps, req>>

(* The deferred Delete; EnsureNodePoolForPod turns a nil into              *)
(* ErrNodePoolDeletedToBeRecreated.                                        *)
DeleteReturns(t, r) ==
    /\ deletesNP' = deletesNP \ {req[t].name}
    /\ Returns(t, IF req[t].kind = "ensure" /\ r = "nil" THEN "Recreate" ELSE r)
    /\ UNCHANGED <<createsNP, createsKey, req>>

DeleteNotFound(t) ==
    /\ pc[t] = "delete"
    /\ pools[req[t].name].status = "ABSENT"
    /\ DeleteReturns(t, "nil")
    /\ UNCHANGED <<pools, op>>

DeleteAccepted(t) ==
    LET n == req[t].name
    IN  /\ pc[t] = "delete"
        /\ pools[n].status \in {"RUNNING", "ERROR"}
        /\ pools' = [pools EXCEPT ![n].status = "STOPPING", ![n].waiter = t]
        /\ op' = [op EXCEPT ![t] = "running"]
        /\ Goto(t, "deleteWait")
        /\ UNCHANGED <<maps, req>>

DeleteRefused(t) ==
    /\ pc[t] = "delete"
    /\ DeleteReturns(t, "Error")
    /\ UNCHANGED <<pools, op>>

DeleteWaits(t) ==
    /\ pc[t] = "deleteWait"
    /\ \/ OpDone(t) /\ DeleteReturns(t, "nil")
       \/ OpGivenUp(t) /\ DeleteReturns(t, "Error")

(* The part of EnsureStaticNodePools for one pool: it does not look at the *)
(* in-progress maps, nor at the configuration of a pool that exists.       *)
StaticEnsure(t, np) ==
    /\ pc[t] = "idle"
    /\ Goto(t, "staticCheck")
    /\ req' = [req EXCEPT ![t] = [kind |-> "static", name |-> np.name, jobKey |-> None, labels |-> np.labels]]
    /\ UNCHANGED <<pools, maps, op>>

checkNodePoolExists(t) ==
    /\ pc[t] = "staticCheck"
    /\ IF pools[req[t].name].status = "ABSENT" THEN Goto(t, "staticCreate") ELSE Returns(t, "nil")
    /\ UNCHANGED <<pools, maps, req, op>>

StaticAccepted(t) ==
    LET n == req[t].name
    IN  /\ pc[t] = "staticCreate"
        /\ pools[n].status = "ABSENT"
        /\ pools' = [pools EXCEPT ![n] = [status |-> "PROVISIONING",
                                          labels |-> req[t].labels, waiter |-> t]]
        /\ op' = [op EXCEPT ![t] = "running"]
        /\ Goto(t, "staticWait")
        /\ UNCHANGED <<maps, req>>

(* The Get or the create request fails.                                    *)
StaticRefused(t) ==
    /\ pc[t] \in {"staticCheck", "staticCreate"}
    /\ Returns(t, "Error")
    /\ UNCHANGED <<pools, maps, req, op>>

(* The wait also ends when the reconcile's StaticNodepoolCreateTimeout is  *)
(* over.                                                                   *)
StaticWaits(t) ==
    /\ pc[t] = "staticWait"
    /\ \/ OpDone(t) /\ Returns(t, "nil")
       \/ OpGivenUp(t) /\ Returns(t, "Error")
    /\ UNCHANGED <<maps, req>>

CallStep(t) ==
    \/ Check(t) \/ CheckFails(t)
    \/ CreateLoadNPName(t) \/ CreateStoreNPName(t)
    \/ CreateLoadJobKey(t) \/ CreateStoreJobKey(t)
    \/ CreateAccepted(t) \/ CreateRefused(t) \/ CreateWaits(t)
    \/ DeleteLoadNPName(t) \/ DeleteStoreNPName(t)
    \/ DeleteNotFound(t) \/ DeleteAccepted(t) \/ DeleteRefused(t) \/ DeleteWaits(t)
    \/ checkNodePoolExists(t) \/ StaticAccepted(t) \/ StaticRefused(t) \/ StaticWaits(t)

-----------------------------------------------------------------------------
(* The GKE side.                                                           *)

(* The operation on pool n ends and leaves it as pool.                     *)
OpEnds(n, pool) ==
    /\ pools' = [pools EXCEPT ![n] = pool]
    /\ op' = [t \in Threads |-> IF t = pools[n].waiter THEN "done" ELSE op[t]]
    /\ UNCHANGED <<maps, pc, req, ret>>

Provisioned(n) ==
    /\ pools[n].status = "PROVISIONING"
    /\ OpEnds(n, [pools[n] EXCEPT !.status = "RUNNING", !.waiter = None])

ProvisioningFails(n) ==
    /\ pools[n].status = "PROVISIONING"
    /\ OpEnds(n, [pools[n] EXCEPT !.status = "ERROR", !.waiter = None])

Deleted(n) ==
    /\ pools[n].status = "STOPPING"
    /\ OpEnds(n, AbsentPool)

DeletionFails(n) ==
    /\ pools[n].status = "STOPPING"
    /\ OpEnds(n, [pools[n] EXCEPT !.status = "ERROR", !.waiter = None])

GKEStep == \E n \in Names : Provisioned(n) \/ ProvisioningFails(n) \/ Deleted(n) \/ DeletionFails(n)

(* The process dies and comes back: calls and maps are gone, GKE's         *)
(* operations go on.                                                       *)
ProviderRestarts ==
    /\ createsNP' = {} /\ createsKey' = {} /\ deletesNP' = {}
    /\ pc' = [t \in Threads |-> "idle"]
    /\ req' = [t \in Threads |-> NoRequest]
    /\ op' = [t \in Threads |-> "none"]
    /\ ret' = [t \in Threads |-> "nil"]
    /\ pools' = [n \in Names |-> [pools[n] EXCEPT !.waiter = None]]

-----------------------------------------------------------------------------
(* The provider under arbitrary callers.                                   *)

Calls(t) == \/ \E np \in NodePools : EnsureNodePoolForPod(t, np)
            \/ EnsureRejectsPod(t)
            \/ \E np \in StaticNodePools : StaticEnsure(t, np)
            \/ \E n \in Names : DeleteNodePool(t, n)
            \/ CallEnds(t)

GKENext == \/ \E t \in Threads : Calls(t) \/ CallStep(t)
           \/ GKEStep
           \/ ProviderRestarts

GKESpec == GKEInit /\ [][GKENext]_gkeVars

(* A goroutine that can run is run; nothing is assumed of GKE.             *)
GKEFairSpec == GKESpec /\ \A t \in Threads : WF_gkeVars(CallStep(t) \/ CallEnds(t))

-----------------------------------------------------------------------------
(* Properties.                                                             *)

(* Every key in the three in-progress maps belongs to a call that is still *)
(* running and will delete it.  A key left behind by an early return would *)
(* make every later request for that pool a "duplicate", which the         *)
(* reconcilers drop without a retry.                                       *)
InProgressOwned ==
    /\ \A n \in createsNP  : \E t \in Threads : pc[t] \in HoldsNP  /\ req[t].name = n
    /\ \A k \in createsKey : \E t \in Threads : pc[t] \in HoldsKey /\ req[t].jobKey = k
    /\ \A n \in deletesNP  : \E t \in Threads : pc[t] \in HoldsDel /\ req[t].name = n

DeletePoints == {"delLoad", "delStore", "delete", "deleteWait"}

(* "Avoid recreating node pool if hash is missing" (gke.go:321): a pool    *)
(* made by a release that wrote no hash is never deleted by the            *)
(* recreate path of EnsureNodePoolForPod, whatever the pod asks for.       *)
LegacyPoolKept ==
    \A t \in Threads :
        req[t].kind = "ensure" /\ pc[t] \in DeletePoints =>
            ~(pools[req[t].name].status # "ABSENT" /\ pools[req[t].name].labels.hash = None)

(* "Node pool is stopping, so we need to wait for it to be deleted before  *)
(* creating a new one" (gke.go:106): a call for a pod is not told that all *)
(* is well while the pool under its name is being deleted, or the creation *)
(* reconciler will not come back for the pod.                              *)
StoppingPoolAwaited ==
    [][\A t \in Threads :
          req[t].kind = "ensure" /\ pc[t] = "check" /\ pools[req[t].name].status = "STOPPING"
              => ret'[t] # "nil" \/ pc'[t] # "return"]_gkeVars

(* Every provider call returns, even if GKE never answers an operation:    *)
(* waitForGkeOp gives up after 30 minutes, and no path blocks on a map.    *)
EveryCallReturns == \A t \in Threads : pc[t] # "idle" ~> pc[t] = "idle"
=============================================================================
