--------------------------- MODULE SliceWorkloads ---------------------------
(***************************************************************************)
(* The admission webhooks beside the slice reconcilers of Slices:          *)
(* JobMutationHandler (webhook/job.go) and LWSStatefulSetMutationHandler   *)
(* (webhook/lws.go) see every creation and update of a Job of a JobSet and *)
(* of a StatefulSet of a LeaderWorkerSet, and pin its pods to a Slice with *)
(* a node selector.  Webhooks and reconcilers never talk: they have to     *)
(* arrive at the same name, the webhook from the workload and from a cache *)
(* that lags, the reconciler from the owner.                               *)
(*                                                                         *)
(* Only workloads that have the label that asks for the selector are       *)
(* modelled; the others pass unchanged.  A request that is refused leaves  *)
(* no trace: the controller of the owner sends it again.                   *)
(***************************************************************************)
EXTENDS Slices

CONSTANT Workers  \* replicas that stand for a worker StatefulSet, if the owner is a LeaderWorkerSet

ASSUME WorkersAssumption == Workers \subseteq Replicas

VARIABLE workloads  \* by owner and replica: the Job or StatefulSet, None if there is none

allVars == <<vars, workloads>>

(* gen: the owner object it belongs to.  bare: it lacks what the owner's   *)
(* controller puts on a workload, and what the webhook needs: annotations  *)
(* or labels with the owner's name and the index, or the owner reference.  *)
(* selector: the Slice its pods are pinned to, None if the webhook let it  *)
(* pass without one.                                                       *)
Workloads == [gen : 1..MaxGen, bare : BOOLEAN, selector : SliceNames \cup {None}]

WorkloadsTypeOK == TypeOK /\ workloads \in [Owners -> [Replicas -> Workloads \cup {None}]]

InitWithWorkloads == Init /\ workloads = [o \in Owners |-> [r \in Replicas |-> None]]

-----------------------------------------------------------------------------

(* The workload comes into being, or is updated, as the webhook lets it    *)
(* pass (external: who sends it).  It is of the owner that has the name    *)
(* now, or of an earlier one and not yet collected.                        *)
Sends(o, r, g, bare, selector) ==
    /\ g \in 1..owners[o].gen
    /\ workloads' = [workloads EXCEPT ![o][r] = [gen |-> g, bare |-> bare, selector |-> selector]]
    /\ UNCHANGED vars

(* Mutant: the UID is that of the cached JobSet.                           *)
JobMutationHandlerLooksUp(o, r, g, bare) ==
    /\ o \in JobSets
    /\ Sends(o, r, g, bare, IF bare \/ ownerCache[o].gen = 0 THEN None ELSE SliceName(o, ownerCache[o].gen, r))

(* The UID comes from the owner reference of the Job.  A Job without one,  *)
(* or without the annotations, is let pass as it is.                       *)
JobMutationHandler(o, r, g, bare) ==
    /\ o \in JobSets
    /\ Sends(o, r, g, bare, IF bare THEN None ELSE SliceName(o, g, r))

(* Mutant: a LeaderWorkerSet that is not found is not an error.            *)
LWSStatefulSetMutationHandlerLenient(o, r, g, bare) ==
    /\ o \in LWSs
    /\ IF r \in Workers /\ ~bare
       THEN Sends(o, r, g, bare, IF ownerCache[o].phase = "none" THEN None ELSE SliceName(o, ownerCache[o].gen, r))
       ELSE Sends(o, r, g, bare, IF bare THEN None ELSE SliceName(o, g, r))

(* Mutant: nothing found, the name is made with the UID of an empty object. *)
LWSStatefulSetMutationHandlerEmptyUID(o, r, g, bare) ==
    /\ o \in LWSs
    /\ Sends(o, r, g, bare, IF bare THEN None
                            ELSE SliceName(o, IF r \in Workers THEN ownerCache[o].gen ELSE g, r))

(* The leader's StatefulSet refers to the LeaderWorkerSet.  A worker's     *)
(* refers to a pod only: the UID is that of the cached LeaderWorkerSet, at *)
(* the first of four tries that finds one; it is refused if none does.     *)
(* Without the name of the LeaderWorkerSet, or a leader's without the      *)
(* reference, it is let pass as it is.                                     *)
LWSStatefulSetMutationHandler(o, r, g, bare) ==
    /\ o \in LWSs
    /\ IF r \in Workers /\ ~bare
       THEN ownerCache[o].phase # "none" /\ Sends(o, r, g, bare, SliceName(o, ownerCache[o].gen, r))
       ELSE Sends(o, r, g, bare, IF bare THEN None ELSE SliceName(o, g, r))

NextWithWorkloads ==
    \/ Next /\ UNCHANGED workloads
    \/ \E o \in Owners, r \in Replicas, g \in 1..MaxGen, bare \in BOOLEAN :
          JobMutationHandler(o, r, g, bare) \/ LWSStatefulSetMutationHandler(o, r, g, bare)

SpecWithWorkloads == InitWithWorkloads /\ [][NextWithWorkloads]_allVars

-----------------------------------------------------------------------------
(* Properties.                                                             *)

(* A worker's StatefulSet may have met a cache that still held the earlier *)
(* LeaderWorkerSet of the name (webhook/lws.go:80).                        *)
MetStaleCache(o, r) ==
    /\ o \in LWSs /\ r \in Workers
    /\ workloads[o][r].selector # None
    /\ workloads[o][r].selector[2] < workloads[o][r].gen

(* No pod waits for nodes that never come, and none runs outside its       *)
(* Slice: when the reconciler has nothing left to do for an owner, every   *)
(* Slice that a workload of this very owner is pinned to is there, with    *)
(* the partitions selected for it or on its way out, and every workload    *)
(* that is not bare is pinned.  Slices kept under a name of the older      *)
(* release are the exception: no webhook uses it (webhook/job.go:93).      *)
PinnedToOwnSlice ==
    \A o \in Owners \ LegacyOwners :
        Quiescent(o) /\ owners[o].phase = "active" /\ owners[o].lab
        /\ Served(o, owners[o]) /\ DesiredSlicesOK(o, owners[o].sel) =>
            \A r \in DOMAIN owners[o].sel :
                LET w == workloads[o][r]
                IN  w # None /\ ~w.bare /\ w.gen = owners[o].gen /\ ~MetStaleCache(o, r) =>
                        /\ w.selector # None /\ slices[w.selector] # None
                        /\ \/ slices[w.selector].parts = owners[o].sel[r]
                           \/ slices[w.selector].deleting
=============================================================================
