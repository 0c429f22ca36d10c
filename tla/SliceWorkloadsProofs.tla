------------------------ MODULE SliceWorkloadsProofs ------------------------
(* Theorems about SliceWorkloads: the webhooks beside the slice            *)
(* reconcilers, for any owners, replicas and selections, and any number of *)
(* objects of one name.                                                    *)
EXTENDS SliceWorkloads, SlicesProofs

(* A workload that is not bare is pinned to a Slice of its own owner and   *)
(* replica, by the name of this release, with the UID of its owner object; *)
(* only a worker's StatefulSet can have been given that of another one.    *)
SelectorOK(o, r) ==
    LET w == workloads[o][r]
    IN  w # None /\ ~w.bare => \E g \in 1..MaxGen :
            /\ w.selector = SliceName(o, g, r)
            /\ g <= owners[o].gen
            /\ o \in JobSets \/ r \notin Workers => g = w.gen

SelectorsOK == \A o \in Owners, r \in Replicas : SelectorOK(o, r)

WorkloadsInv == WakeInv /\ WorkloadsTypeOK /\ SelectorsOK

-----------------------------------------------------------------------------

(* A step of a webhook is no step of the reconcilers.                      *)
LEMMA WorkloadStepIsSlicesStep == [NextWithWorkloads]_allVars => [Next]_vars
  BY DEF NextWithWorkloads, allVars, JobMutationHandler, LWSStatefulSetMutationHandler, Sends

(* Webhooks do not disturb the reconcilers: whatever is proved of Slices   *)
(* holds beside them.                                                      *)
THEOREM WorkloadsImplementSlices == SpecWithWorkloads => Spec
  <1>1. InitWithWorkloads => Init
    BY DEF InitWithWorkloads
  <1> QED BY <1>1, WorkloadStepIsSlicesStep, PTL DEF SpecWithWorkloads, Spec

(* In particular no wakeup of the reconcilers is lost.                     *)
THEOREM NoLostWakeupWithWorkloads == SpecWithWorkloads => []Converged
  BY WorkloadsImplementSlices, NoLostWakeup, PTL

(* The generation of an owner never goes back.                             *)
LEMMA GenGrows ==
    ASSUME TInv, [Next]_vars, NEW o \in Owners
    PROVE  owners[o].gen <= owners'[o].gen
  <1>0. owners[o].gen \in 0..MaxGen
    BY DEF TInv, TypeOK, OwnerObjects
  <1>1. ASSUME owners'[o].gen = owners[o].gen PROVE owners[o].gen <= owners'[o].gen
    BY <1>0, <1>1, OwnersAssumption
  <1>2. ASSUME NEW k \in Kinds, AddFinalizer(k) PROVE owners'[o].gen = owners[o].gen
    BY <1>2, AddFinalizerEffect
  <1>3. ASSUME NEW k \in Kinds, handleSyncMode(k) PROVE owners'[o].gen = owners[o].gen
    BY <1>3, SyncModeEffect
  <1>4. ASSUME NEW k \in Kinds, RemoveFinalizer(k) PROVE owners'[o].gen = owners[o].gen
    BY <1>4, RemoveFinalizerEffect
  <1>5. ASSUME NEW k \in Kinds, Worker(k) PROVE owners'[o].gen = owners[o].gen
    BY <1>2, <1>3, <1>4, <1>5 DEF Worker, ReconcileNothing, ReconcileCleansUp, ReconcileFinalizes, ReconcileApplies,
       Takes, DeleteSlice, CleanupSlice, SkipSlice, CreateSlice, ReconcileEnds, CleanupEnds, RequestFails
  <1>6. ASSUME NEW u \in Owners, OwnerStep(u) PROVE owners[o].gen <= owners'[o].gen
    <2>1. CASE u = o
      <3>1. owners' \in [Owners -> OwnerObjects] /\ owners'[o].gen >= owners[o].gen
        BY <1>6, <2>1, OwnerStepEffect
      <3>2. owners'[o].gen \in 0..MaxGen
        BY <3>1 DEF OwnerObjects
      <3> QED BY <1>0, <3>1, <3>2, OwnersAssumption
    <2>2. CASE u # o
      BY <1>1, <1>6, <2>2, OwnerStepEffect
    <2> QED BY <2>1, <2>2
  <1>7. ASSUME Kubernetes PROVE owners[o].gen <= owners'[o].gen
    BY <1>1, <1>6, <1>7 DEF Kubernetes, OwnerStep, SyncOwner, SyncSlice, SliceGone, SliceStatus
  <1> QED BY <1>1, <1>5, <1>7 DEF Next, Running, Restart, vars

(* What a webhook puts into a workload that it lets pass.                  *)
LEMMA SendsEffect ==
    ASSUME WorkloadsInv, NEW o \in Owners, NEW r \in Replicas, NEW g \in 1..MaxGen, NEW bare \in BOOLEAN,
           JobMutationHandler(o, r, g, bare) \/ LWSStatefulSetMutationHandler(o, r, g, bare)
    PROVE  \E sel \in SliceNames \cup {None} :
              /\ workloads' = [workloads EXCEPT ![o][r] = [gen |-> g, bare |-> bare, selector |-> sel]]
              /\ ~bare => \E h \in 1..MaxGen :
                    /\ sel = SliceName(o, h, r)
                    /\ h <= owners[o].gen
                    /\ o \in JobSets \/ r \notin Workers => h = g
              /\ UNCHANGED vars
  <1>1. /\ owners[o].gen \in 0..MaxGen /\ ownerCache[o].gen \in 0..MaxGen /\ ownerCache[o].gen <= owners[o].gen
        /\ ownerCache[o].phase # "none" => ownerCache[o].gen > 0
    BY DEF WorkloadsInv, WakeInv, FInv, TInv, TypeOK, OwnerObjects, ObjectsOK
  <1>2. g <= owners[o].gen
    BY <1>1, OwnersAssumption DEF JobMutationHandler, LWSStatefulSetMutationHandler, Sends
  <1>3. CASE bare /\ Sends(o, r, g, bare, None)
    BY <1>3 DEF Sends
  <1>4. CASE ~bare /\ Sends(o, r, g, bare, SliceName(o, g, r))
    <2>1. SliceName(o, g, r) \in SliceNames
      BY NameTyped
    <2>2. /\ UNCHANGED vars
          /\ workloads' = [workloads EXCEPT ![o][r] = [gen |-> g, bare |-> bare, selector |-> SliceName(o, g, r)]]
      BY <1>4 DEF Sends
    <2> QED BY <1>2, <2>1, <2>2
  <1>5. CASE /\ ~bare /\ o \notin JobSets /\ r \in Workers /\ ownerCache[o].phase # "none"
             /\ Sends(o, r, g, bare, SliceName(o, ownerCache[o].gen, r))
    <2>1. ownerCache[o].gen \in 1..MaxGen
      BY <1>1, <1>5, OwnersAssumption
    <2>2. SliceName(o, ownerCache[o].gen, r) \in SliceNames
      BY <2>1, NameTyped
    <2>3. /\ UNCHANGED vars
          /\ workloads' = [workloads EXCEPT ![o][r] =
                              [gen |-> g, bare |-> bare, selector |-> SliceName(o, ownerCache[o].gen, r)]]
      BY <1>5 DEF Sends
    <2> QED BY <1>1, <1>5, <2>1, <2>2, <2>3
  <1> QED
    BY <1>3, <1>4, <1>5, OwnersAssumption DEF JobMutationHandler, LWSStatefulSetMutationHandler

(* The invariant is inductive: steps of the slice reconcilers leave        *)
(* workloads alone, and those of the webhooks leave Slices alone.          *)
LEMMA WorkloadsInvStep == WorkloadsInv /\ [NextWithWorkloads]_allVars => WorkloadsInv'
  <1> SUFFICES ASSUME WorkloadsInv, [NextWithWorkloads]_allVars PROVE WorkloadsInv'
    OBVIOUS
  <1>1. WakeInv' /\ TypeOK'
    BY WorkloadStepIsSlicesStep, WakeInvStep DEF WorkloadsInv, WakeInv, FInv, TInv
  <1>2. CASE UNCHANGED workloads
    <2>1. ASSUME NEW o \in Owners, NEW r \in Replicas PROVE SelectorOK(o, r)'
      <3>1. /\ owners[o].gen <= owners'[o].gen /\ owners[o].gen \in 0..MaxGen /\ owners'[o].gen \in 0..MaxGen
        BY <1>1, WorkloadStepIsSlicesStep, GenGrows DEF WorkloadsInv, WakeInv, FInv, TInv, TypeOK, OwnerObjects
      <3>2. \A g \in 1..MaxGen : g <= owners[o].gen => g <= owners'[o].gen
        BY <3>1, OwnersAssumption
      <3> QED BY <1>2, <3>2 DEF WorkloadsInv, SelectorsOK, SelectorOK
    <2> QED BY <1>1, <1>2, <2>1 DEF WorkloadsInv, WorkloadsTypeOK, SelectorsOK
  <1>3. ASSUME NEW o \in Owners, NEW r \in Replicas, NEW g \in 1..MaxGen, NEW bare \in BOOLEAN,
               JobMutationHandler(o, r, g, bare) \/ LWSStatefulSetMutationHandler(o, r, g, bare)
        PROVE  WorkloadsInv'
    <2>1. PICK sel \in SliceNames \cup {None} :
             /\ workloads' = [workloads EXCEPT ![o][r] = [gen |-> g, bare |-> bare, selector |-> sel]]
             /\ ~bare => \E h \in 1..MaxGen :
                   /\ sel = SliceName(o, h, r)
                   /\ h <= owners[o].gen
                   /\ o \in JobSets \/ r \notin Workers => h = g
             /\ UNCHANGED vars
      BY <1>3, SendsEffect
    <2> DEFINE w == [gen |-> g, bare |-> bare, selector |-> sel]
    <2>2. w \in Workloads /\ w.gen = g /\ (w.bare <=> bare) /\ w.selector = sel
      BY DEF Workloads
    <2>3. workloads \in [Owners -> [Replicas -> Workloads \cup {None}]] /\ UNCHANGED owners
      BY <2>1 DEF WorkloadsInv, WorkloadsTypeOK, vars
    <2>4. workloads' = [workloads EXCEPT ![o] = [workloads[o] EXCEPT ![r] = w]]
      BY <2>1
    <2> HIDE DEF w
    <2>5. workloads' \in [Owners -> [Replicas -> Workloads \cup {None}]]
      BY <2>2, <2>3, <2>4
    <2>6. /\ workloads'[o][r] = w
          /\ \A u \in Owners, q \in Replicas : u # o \/ q # r => workloads'[u][q] = workloads[u][q]
      BY <2>3, <2>4
    <2>7. SelectorOK(o, r)'
      BY <2>1, <2>2, <2>3, <2>6 DEF SelectorOK
    <2>8. \A u \in Owners, q \in Replicas : u # o \/ q # r => SelectorOK(u, q)'
      BY <2>3, <2>6 DEF SelectorOK, WorkloadsInv, SelectorsOK
    <2> QED BY <1>1, <2>5, <2>7, <2>8 DEF WorkloadsInv, WorkloadsTypeOK, SelectorsOK
  <1> QED BY <1>2, <1>3 DEF NextWithWorkloads, allVars

(* It holds before any pod is created.                                     *)
LEMMA WorkloadsInvInit == InitWithWorkloads => WorkloadsInv
  <1> SUFFICES ASSUME InitWithWorkloads PROVE WorkloadsInv
    OBVIOUS
  <1>1. WakeInv /\ TypeOK
    BY WakeInvInit DEF InitWithWorkloads, WakeInv, FInv, TInv
  <1>2. /\ workloads \in [Owners -> [Replicas -> Workloads \cup {None}]]
        /\ \A o \in Owners, r \in Replicas : workloads[o][r] = None
    BY DEF InitWithWorkloads
  <1> QED BY <1>1, <1>2 DEF WorkloadsInv, WorkloadsTypeOK, SelectorsOK, SelectorOK

(* A selector is always the name of a Slice that some reconcile could make. *)
THEOREM WorkloadsTypeCorrect == SpecWithWorkloads => []WorkloadsTypeOK
  <1>1. WorkloadsInv => WorkloadsTypeOK
    BY DEF WorkloadsInv
  <1> QED BY <1>1, WorkloadsInvInit, WorkloadsInvStep, PTL DEF SpecWithWorkloads

(* Webhook and reconciler arrive at the same name: once the reconciler has *)
(* nothing left to do for an owner, the Slice that a workload of this very *)
(* owner is pinned to is there, with the partitions selected for it or on  *)
(* its way out, unless a worker's StatefulSet met the cache of an earlier  *)
(* owner of the name.                                                      *)
THEOREM WorkloadsPinned == SpecWithWorkloads => []PinnedToOwnSlice
  <1>1. WorkloadsInv /\ Converged => PinnedToOwnSlice
    <2> SUFFICES ASSUME WorkloadsInv, Converged,
                        NEW o \in Owners \ LegacyOwners,
                        Quiescent(o), owners[o].phase = "active", owners[o].lab,
                        Served(o, owners[o]), DesiredSlicesOK(o, owners[o].sel),
                        NEW r \in DOMAIN owners[o].sel,
                        workloads[o][r] # None, ~workloads[o][r].bare,
                        workloads[o][r].gen = owners[o].gen, ~MetStaleCache(o, r)
                 PROVE  LET w == workloads[o][r]
                        IN  /\ w.selector # None /\ slices[w.selector] # None
                            /\ \/ slices[w.selector].parts = owners[o].sel[r]
                               \/ slices[w.selector].deleting
      BY DEF PinnedToOwnSlice
    <2> DEFINE w  == workloads[o][r]
               js == owners[o]
    <2>1. TInv
      BY DEF WorkloadsInv, WakeInv, FInv
    <2>2. js.gen \in 1..MaxGen /\ r \in Replicas
      <3>1. LookedAfter(o) /\ ownerCache[o] = js
        BY DEF Quiescent, LookedAfter
      <3> QED BY <2>1, <3>1, LookedAfterTyped
    <2>3. PICK g \in 1..MaxGen : /\ w.selector = SliceName(o, g, r)
                                 /\ g <= js.gen
                                 /\ o \in JobSets \/ r \notin Workers => g = w.gen
      BY <2>2 DEF WorkloadsInv, SelectorsOK, SelectorOK
    <2>4. SliceName(o, g, r) # None /\ SliceName(o, g, r)[2] = g
      BY <2>2, <2>3, NameTyped DEF SliceName
    <2>5. g = js.gen
      <3>1. CASE o \in JobSets \/ r \notin Workers
        BY <2>3, <3>1
      <3>2. CASE o \in LWSs /\ r \in Workers
        <4>1. ~(g < w.gen)
          BY <2>3, <2>4, <3>2 DEF MetStaleCache
        <4> QED BY <2>2, <2>3, <4>1, OwnersAssumption
      <3> QED BY <3>1, <3>2 DEF Owners
    <2> DEFINE s == SliceName(o, js.gen, r)
    <2>6. s = lookupExistingSlice(slices, o, js.gen, r) /\ slices[s] # None /\ s # None
      <3>1. Missing(slices, o, js) = {}
        BY DEF Converged
      <3>2. lookupExistingSlice(slices, o, js.gen, r) # None
        BY <3>1 DEF Missing
      <3> QED BY <2>4, <2>5, <3>2 DEF lookupExistingSlice
    <2>7. s \in Found(slices, o, js) /\ s[3] = r
      BY <2>6 DEF Found, SliceName
    <2>8. slices[s].parts = js.sel[r] \/ s \in PartitionsChanged(slices, o, js)
      BY <2>7 DEF PartitionsChanged
    <2>9. s \in PartitionsChanged(slices, o, js) => slices[s].deleting
      BY DEF Converged
    <2> QED BY <2>3, <2>5, <2>6, <2>8, <2>9
  <1> QED
    BY <1>1, WorkloadsInvInit, WorkloadsInvStep, NoLostWakeupWithWorkloads, PTL DEF SpecWithWorkloads
=============================================================================
