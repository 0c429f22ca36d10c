---------------------------- MODULE SlicesProofs ----------------------------
(* Theorems about Slices, for any owners, replicas, partitions and         *)
(* selections, and any number of objects of one name.                      *)
EXTENDS Slices, TLAPS

(* An object that exists has a UID; one that does not has no finalizer.    *)
ObjectsOK ==
    \A o \in Owners :
        /\ owners[o].phase # "none" => owners[o].gen > 0
        /\ owners[o].phase = "none" => ~owners[o].fin
        /\ ownerCache[o].phase # "none" => ownerCache[o].gen > 0
        /\ ownerCache[o].phase = "none" => ~ownerCache[o].fin
        /\ ownerCache[o].gen <= owners[o].gen

QueueOK == \A k \in Kinds : \A o \in queue[k] : KindOf(o) = k

(* A reconcile is of an owner of the worker's own kind; it deletes Slices  *)
(* of that owner only and creates Slices of the selection.                 *)
ReconcileOK(k) ==
    /\ rec[k].owner \in Owners /\ KindOf(rec[k].owner) = k
    /\ rec[k].js.gen > 0
    /\ \A s \in rec[k].toDelete : OwnerOf(s) = rec[k].owner
    /\ rec[k].pc = "apply" => rec[k].js.sel # None /\ rec[k].toCreate \subseteq DOMAIN rec[k].js.sel

ReconcilesOK == \A k \in Kinds : rec[k].pc # "idle" => ReconcileOK(k)

TInv == TypeOK /\ ObjectsOK /\ QueueOK /\ ReconcilesOK

-----------------------------------------------------------------------------
(* The finalizer.                                                          *)

Live(o, js) == js.fin /\ ~Terminal(o, js)

(* The cache shows a live owner with its finalizer only as long as that    *)
(* very object has it; and once it shows the end of an owner that has the  *)
(* finalizer, the name is not that of a live owner with a finalizer until  *)
(* the cache moves on.                                                     *)
CacheFinalizer ==
    \A o \in Owners :
        /\ Live(o, ownerCache[o]) => owners[o].fin /\ owners[o].gen = ownerCache[o].gen
        /\ ownerCache[o].fin /\ Terminal(o, ownerCache[o]) => ~Live(o, owners[o])

(* Only the worker that is busy with an owner adds or removes the          *)
(* finalizer: what a cache shows meanwhile stays true.                     *)
FinalizeFinalizer ==
    \A k \in Kinds : rec[k].pc = "finalize" /\ ownerCache[rec[k].owner].fin =>
        /\ owners[rec[k].owner].fin
        /\ Terminal(rec[k].owner, ownerCache[rec[k].owner]) => Terminal(rec[k].owner, owners[rec[k].owner])

CleanupFinalizer ==
    \A k \in Kinds : rec[k].pc = "cleanup" /\ rec[k].js.fin =>
        ~Live(rec[k].owner, owners[rec[k].owner]) /\ ~Live(rec[k].owner, ownerCache[rec[k].owner])

FinalizersOK == CacheFinalizer /\ FinalizeFinalizer /\ CleanupFinalizer /\ AppliesUnderFinalizer

FInv == TInv /\ FinalizersOK

-----------------------------------------------------------------------------
(* Wakeups.                                                                *)

Working(o) == rec[KindOf(o)].pc # "idle" /\ rec[KindOf(o)].owner = o

(* The informer has yet to deliver a change of the owner that nothing can  *)
(* take back.                                                              *)
NewsPending(o) ==
    \/ owners[o].gen # ownerCache[o].gen
    \/ owners[o].phase = "none"
    \/ owners[o].susp # ownerCache[o].susp
    \/ owners[o].fin /\ ~ownerCache[o].fin

(* The owner as the cache shows it is one to look after.                   *)
LookedAfter(o) ==
    /\ ownerCache[o].phase = "active" /\ ownerCache[o].lab
    /\ Served(o, ownerCache[o]) /\ DesiredSlicesOK(o, ownerCache[o].sel)

Created(s) == slices[s] # None /\ ~slices[s].deleting
Removed(s) == slices[s] = None \/ slices[s].deleting

ToRecreate(existing, o, js) == PartitionsChanged(existing, o, js) \cup RecreationMatches(existing, o, js)

(* What the cache shows to be wrong has been put right already.            *)
PutRight(o) ==
    LET js       == ownerCache[o]
        existing == ListSlices(o)
    IN  /\ \A r \in Missing(existing, o, js) : Created(SliceName(o, js.gen, r))
        /\ \A s \in ToRecreate(existing, o, js) : existing[s].deleting \/ Removed(s)
        /\ InSyncMode(o, js) => js.susp = ~allSlicesReady(existing, o, js)

OwnerAwake(o) == o \in queue[KindOf(o)] \/ Working(o) \/ (LookedAfter(o) => NewsPending(o) \/ PutRight(o))

Awake == \A o \in Owners : OwnerAwake(o)

(* The caches have not changed since the reconcile read them: a change     *)
(* would have queued the owner or taken its label.                         *)
StillAsRead(k) ==
    LET r == rec[k]
    IN  /\ r.js = ownerCache[r.owner] /\ r.existing = ListSlices(r.owner)
        /\ r.toCreate \subseteq Missing(r.existing, r.owner, r.js)
        /\ \A s \in r.toDelete : r.existing[s] # None
        /\ \A i \in Missing(r.existing, r.owner, r.js) :
              i \in r.toCreate \/ r.requeue \/ Created(SliceName(r.owner, r.js.gen, i))
        /\ \A s \in ToRecreate(r.existing, r.owner, r.js) :
              r.existing[s].deleting \/ s \in r.toDelete \/ r.requeue \/ Removed(s)

ReconcileAwake(k) ==
    LET o == rec[k].owner
    IN  \/ o \in queue[k] \/ ~ownerCache[o].lab
        \/ rec[k].pc = "finalize" /\ ~ownerCache[o].fin
        \/ rec[k].pc = "cleanup" /\ ownerCache[o].phase # "active"
        \/ rec[k].pc = "apply" /\ ((owners[o].fin /\ ~ownerCache[o].fin) \/ StillAsRead(k))

ReconcilesAwake == \A k \in Kinds : rec[k].pc # "idle" => ReconcileAwake(k)

WakeInv == FInv /\ Awake /\ ReconcilesAwake

-----------------------------------------------------------------------------
(* Slices and the lists of them.                                           *)

(* Whoever has deleted a Slice had it in the cache, where it stays until   *)
(* it is gone: what the cache holds under a name is the Slice that has the *)
(* name, or an earlier one that is gone without a successor.               *)
SliceCacheOK ==
    \A s \in SliceNames :
        /\ slices[s] # None /\ slices[s].deleting => sliceCache[s] # None
        /\ sliceCache[s] # None /\ slices[s] # None => slices[s].uid = sliceCache[s].uid
        /\ sliceCache[s] # None /\ sliceCache[s].deleting => Removed(s)

(* The same for the list that a reconcile has read.  A Slice that the list *)
(* has not was not deleted since, as only this worker deletes; one that it *)
(* has was not created since, as this worker creates none that it lists.   *)
ListingOK(k) ==
    LET r == rec[k]
    IN  /\ \A s \in r.toDelete : r.existing[s] # None
        /\ r.pc = "apply" => r.toCreate \subseteq Missing(r.existing, r.owner, r.js)
        /\ \A s \in SliceNames : r.existing[s] # None => OwnerOf(s) = r.owner
        /\ \A s \in SliceNames : OwnerOf(s) = r.owner /\ r.existing[s] = None =>
              /\ slices[s] # None => ~slices[s].deleting
              /\ sliceCache[s] # None => slices[s] # None
        /\ \A s \in SliceNames : OwnerOf(s) = r.owner /\ r.existing[s] # None /\ slices[s] # None =>
              sliceCache[s] # None /\ slices[s].uid = r.existing[s].uid
        /\ r.pc = "cleanup" => \A s \in SliceNames : r.existing[s] # None => s \in r.toDelete \/ Removed(s)

ListingsOK == \A k \in Kinds : rec[k].pc # "idle" => ListingOK(k)

ListInv == TInv /\ SliceCacheOK /\ ListingsOK

-----------------------------------------------------------------------------
(* Lemmas about names, lists and plans.                                    *)

(* The name of a Slice of this release tells its owner and its replica.    *)
LEMMA NameTyped ==
    ASSUME NEW o \in Owners, NEW g \in 1..MaxGen, NEW r \in Replicas
    PROVE  /\ SliceName(o, g, r) \in SliceNames /\ LegacySliceName(o, g, r) \in SliceNames
           /\ OwnerOf(SliceName(o, g, r)) = o /\ OwnerOf(LegacySliceName(o, g, r)) = o
           /\ SliceName(o, g, r) # None /\ LegacySliceName(o, g, r) # None
  <1>1. SliceName(o, g, r) \in SliceNames /\ LegacySliceName(o, g, r) \in SliceNames
    BY DEF SliceName, LegacySliceName, SliceNames
  <1> QED
    BY <1>1, NoneAssumption DEF SliceName, LegacySliceName, OwnerOf

(* The name of a Slice tells its owner.                                    *)
LEMMA OwnerOfTyped == \A s \in SliceNames : OwnerOf(s) \in Owners
  BY DEF SliceNames, OwnerOf

(* Each owner is of one of the two kinds.                                  *)
LEMMA KindTyped == \A o \in Owners : KindOf(o) \in Kinds
  BY DEF KindOf, Kinds

(* An owner that is not there, and a worker with nothing to do, are well   *)
(* typed.                                                                  *)
LEMMA EmptyTyped == NoOwner \in OwnerObjects /\ Idle \in Reconciles
  <1>1. NoOwner \in OwnerObjects
    BY OwnersAssumption DEF NoOwner, OwnerObjects
  <1>2. [s \in SliceNames |-> None] \in Slots
    BY DEF Slots
  <1> QED
    BY <1>1, <1>2 DEF Idle, Reconciles

(* A list holds cached Slices, of the owner alone.                         *)
LEMMA ListTyped ==
    ASSUME TypeOK, NEW o \in Owners
    PROVE  /\ ListSlices(o) \in Slots
           /\ \A s \in SliceNames : ListSlices(o)[s] # None => OwnerOf(s) = o
  BY DEF TypeOK, Slots, ListSlices

(* A Slice that is found is one of the owner.                              *)
LEMMA FoundTyped ==
    ASSUME NEW existing \in Slots, NEW o \in Owners, NEW js \in OwnerObjects, js.gen > 0, js.sel # None
    PROVE  /\ DOMAIN js.sel \subseteq Replicas
           /\ Found(existing, o, js) \subseteq SliceNames
           /\ \A s \in Found(existing, o, js) : OwnerOf(s) = o /\ existing[s] # None
  <1>1. DOMAIN js.sel \subseteq Replicas
    BY SelectionsAssumption DEF OwnerObjects
  <1>2. js.gen \in 1..MaxGen
    BY OwnersAssumption DEF OwnerObjects
  <1>3. ASSUME NEW s \in Found(existing, o, js)
        PROVE  s \in SliceNames /\ OwnerOf(s) = o /\ existing[s] # None
    <2>1. PICK r \in DOMAIN js.sel : s = lookupExistingSlice(existing, o, js.gen, r) /\ s # None
      BY DEF Found
    <2> QED BY <1>1, <1>2, <2>1, NameTyped DEF lookupExistingSlice
  <1> QED BY <1>1, <1>3

(* A plan is well typed, deletes the owner's Slices only and creates those *)
(* of the selection.                                                       *)
LEMMA PlanTyped ==
    ASSUME NEW existing \in Slots, NEW o \in Owners, NEW js \in OwnerObjects, js.gen > 0, js.sel # None,
           NEW plan \in Plans(o, js, existing)
    PROVE  /\ plan \in Reconciles
           /\ plan.pc = "apply" /\ plan.owner = o /\ plan.js = js /\ plan.existing = existing
           /\ plan.toCreate = Missing(existing, o, js) /\ plan.toCreate \subseteq DOMAIN js.sel
           /\ \A s \in plan.toDelete : OwnerOf(s) = o /\ existing[s] # None
           /\ \A s \in ToRecreate(existing, o, js) :
                 existing[s].deleting \/ s \in plan.toDelete \/ plan.requeue
  <1>1. PICK expired \in SUBSET RecreationMatches(existing, o, js) :
           plan = [pc |-> "apply", owner |-> o, js |-> js, existing |-> existing,
                   toDelete |-> {s \in PartitionsChanged(existing, o, js) \cup expired : ~existing[s].deleting},
                   toCreate |-> Missing(existing, o, js),
                   requeue  |-> expired # RecreationMatches(existing, o, js)]
    BY DEF Plans
  <1> DEFINE del == {s \in PartitionsChanged(existing, o, js) \cup expired : ~existing[s].deleting}
             again == (expired # RecreationMatches(existing, o, js))
  <1>2. del \subseteq Found(existing, o, js)
    BY DEF PartitionsChanged, RecreationMatches
  <1>3. Missing(existing, o, js) \subseteq DOMAIN js.sel
    BY DEF Missing
  <1>4. del \subseteq SliceNames /\ Missing(existing, o, js) \subseteq Replicas /\ \A s \in del : OwnerOf(s) = o /\ existing[s] # None
    BY <1>2, <1>3, FoundTyped
  <1>5. \A s \in ToRecreate(existing, o, js) : existing[s].deleting \/ s \in del \/ again
    BY DEF ToRecreate
  <1>6. again \in BOOLEAN
    OBVIOUS
  <1>7. plan = [pc |-> "apply", owner |-> o, js |-> js, existing |-> existing, toDelete |-> del,
                toCreate |-> Missing(existing, o, js), requeue |-> again]
    BY <1>1
  <1> HIDE DEF del, again
  <1> QED
    BY <1>3, <1>4, <1>5, <1>6, <1>7 DEF Reconciles

-----------------------------------------------------------------------------
(* Types.                                                                  *)

(* The end of a reconcile, with or without a retry.                        *)
LEMMA FinishEffect ==
    ASSUME TInv, NEW k \in Kinds, rec[k].pc # "idle", NEW again \in BOOLEAN, Finish(k, again)
    PROVE  /\ rec' \in [Kinds -> Reconciles] /\ rec'[k] = Idle
           /\ \A j \in Kinds \ {k} : rec'[j] = rec[j]
           /\ queue' \in [Kinds -> SUBSET Owners] /\ QueueOK'
           /\ \A j \in Kinds : queue[j] \subseteq queue'[j]
           /\ again => rec[k].owner \in queue'[k]
  <1>1. rec[k].owner \in Owners /\ KindOf(rec[k].owner) = k
    BY DEF TInv, ReconcilesOK, ReconcileOK
  <1>2. rec \in [Kinds -> Reconciles] /\ queue \in [Kinds -> SUBSET Owners] /\ QueueOK
    BY DEF TInv, TypeOK
  <1>3. /\ rec' \in [Kinds -> Reconciles] /\ rec'[k] = Idle
        /\ \A j \in Kinds \ {k} : rec'[j] = rec[j]
    BY <1>2, EmptyTyped DEF Finish
  <1>4. CASE again
    <2>1. queue' = [queue EXCEPT ![k] = queue[k] \cup {rec[k].owner}]
      BY <1>4 DEF Finish
    <2>2. queue[k] \cup {rec[k].owner} \subseteq Owners
      BY <1>1, <1>2
    <2> QED BY <1>1, <1>2, <1>3, <2>1, <2>2 DEF QueueOK
  <1>5. CASE ~again
    BY <1>2, <1>3, <1>5 DEF Finish, QueueOK
  <1> QED BY <1>4, <1>5

(* The answer to a request: the reconcile goes on or ends with a retry.    *)
LEMMA AnsweredEffect ==
    ASSUME TInv, NEW k \in Kinds, rec[k].pc # "idle", NEW r \in Reconciles, Answered(k, r)
    PROVE  /\ rec' \in [Kinds -> Reconciles]
           /\ \/ rec'[k] = r /\ queue' = queue
              \/ rec'[k] = Idle /\ rec[k].owner \in queue'[k]
           /\ \A j \in Kinds \ {k} : rec'[j] = rec[j]
           /\ queue' \in [Kinds -> SUBSET Owners] /\ QueueOK'
           /\ \A j \in Kinds : queue[j] \subseteq queue'[j]
  <1>1. CASE Finish(k, TRUE)
    BY <1>1, FinishEffect
  <1>2. CASE rec' = [rec EXCEPT ![k] = r] /\ UNCHANGED queue
    BY <1>2 DEF TInv, TypeOK, QueueOK
  <1> QED BY <1>1, <1>2 DEF Answered

(* The other worker's reconcile is not touched.                            *)
LEMMA OneReconcile ==
    ASSUME TInv, NEW k \in Kinds, \A j \in Kinds \ {k} : rec'[j] = rec[j],
           rec'[k].pc = "idle" \/ ReconcileOK(k)'
    PROVE  ReconcilesOK'
  BY DEF TInv, ReconcilesOK, ReconcileOK

(* A worker with nothing to do is idle.                                    *)
LEMMA IdleIsIdle == Idle.pc = "idle"
  BY DEF Idle

(* An owner is taken from the queue.                                       *)
LEMMA TakesEffect ==
    ASSUME TInv, NEW k \in Kinds, NEW o \in Owners, Takes(k, o)
    PROVE  /\ rec[k].pc = "idle" /\ KindOf(o) = k /\ o \in queue[k]
           /\ queue' \in [Kinds -> SUBSET Owners] /\ QueueOK'
           /\ \A j \in Kinds, u \in Owners : u # o => (u \in queue'[j] <=> u \in queue[j])
           /\ UNCHANGED <<owners, slices, ownerCache, sliceCache>>
  BY DEF TInv, TypeOK, QueueOK, Takes

(* What a worker begins with.                                              *)
LEMMA BeginTyped ==
    ASSUME TInv, NEW k \in Kinds, NEW o \in Owners,
           ReconcileNothing(k, o) \/ ReconcileCleansUp(k, o) \/ ReconcileFinalizes(k, o) \/ ReconcileApplies(k, o)
    PROVE  TInv'
  <1> DEFINE js       == ownerCache[o]
             existing == ListSlices(o)
  <1>1. /\ js \in OwnerObjects /\ existing \in Slots
        /\ \A s \in SliceNames : existing[s] # None => OwnerOf(s) = o
    BY ListTyped DEF TInv, TypeOK
  <1>2. Takes(k, o)
    BY DEF ReconcileNothing, ReconcileCleansUp, ReconcileFinalizes, ReconcileApplies
  <1>3. ObjectsOK'
    BY <1>2 DEF TInv, Takes, ObjectsOK
  <1>4. ASSUME rec' \in [Kinds -> Reconciles], ReconcilesOK' PROVE TInv'
    BY <1>2, <1>3, <1>4, TakesEffect DEF TInv, TypeOK
  <1>5. rec \in [Kinds -> Reconciles]
    BY DEF TInv, TypeOK
  <1> HIDE DEF js, existing
  <1>6. ASSUME NEW r \in Reconciles, rec' = [rec EXCEPT ![k] = r], r.owner = o, r.js = js, js.phase # "none",
               \A s \in r.toDelete : OwnerOf(s) = o,
               r.pc = "apply" => js.sel # None /\ r.toCreate \subseteq DOMAIN js.sel
        PROVE  TInv'
    <2>1. rec' \in [Kinds -> Reconciles] /\ rec'[k] = r /\ \A j \in Kinds \ {k} : rec'[j] = rec[j]
      BY <1>5, <1>6
    <2>2. js.gen > 0
      BY <1>6 DEF TInv, ObjectsOK, js
    <2>3. ReconcileOK(k)'
      BY <1>2, <1>6, <2>1, <2>2, TakesEffect DEF ReconcileOK
    <2> QED BY <1>4, <2>1, <2>3, OneReconcile
  <1>7. CASE ReconcileNothing(k, o)
    BY <1>4, <1>5, <1>7 DEF ReconcileNothing, TInv, ReconcilesOK, ReconcileOK
  <1>8. CASE ReconcileCleansUp(k, o)
    <2> DEFINE del == {s \in SliceNames : existing[s] # None /\ ~existing[s].deleting}
               r   == [Idle EXCEPT !.pc = "cleanup", !.owner = o, !.js = js, !.existing = existing, !.toDelete = del]
    <2>1. rec' = [rec EXCEPT ![k] = r] /\ Terminal(o, js)
      BY <1>8 DEF ReconcileCleansUp, js, existing
    <2>2. js.phase # "none"
      BY <2>1 DEF Terminal
    <2>3. del \subseteq SliceNames /\ \A s \in del : OwnerOf(s) = o
      BY <1>1
    <2> HIDE DEF del
    <2>4. r \in Reconciles /\ r.pc = "cleanup" /\ r.owner = o /\ r.js = js /\ r.toDelete = del
      BY <1>1, <2>3, EmptyTyped DEF Reconciles
    <2> HIDE DEF r
    <2> QED BY <1>6, <2>1, <2>2, <2>3, <2>4
  <1>9. CASE ReconcileFinalizes(k, o)
    <2> DEFINE r == [Idle EXCEPT !.pc = "finalize", !.owner = o, !.js = js, !.existing = existing]
    <2>1. rec' = [rec EXCEPT ![k] = r] /\ js.phase # "none"
      BY <1>9 DEF ReconcileFinalizes, js, existing, Served
    <2>2. r \in Reconciles /\ r.pc = "finalize" /\ r.owner = o /\ r.js = js /\ r.toDelete = Idle.toDelete
      BY <1>1, EmptyTyped DEF Reconciles
    <2>3. Idle.toDelete = {}
      BY DEF Idle
    <2> HIDE DEF r
    <2> QED BY <1>6, <2>1, <2>2, <2>3
  <1>10. CASE ReconcileApplies(k, o)
    <2>1. PICK plan \in Plans(o, js, existing) : rec' = [rec EXCEPT ![k] = plan]
      BY <1>10 DEF ReconcileApplies, js, existing
    <2>2. js.phase # "none" /\ js.sel # None
      BY <1>10 DEF ReconcileApplies, js, Served, DesiredSlicesOK, jobsetSlices, lwsSlices
    <2>3. js.gen > 0
      BY <2>2 DEF TInv, ObjectsOK, js
    <2>4. /\ plan \in Reconciles /\ plan.owner = o /\ plan.js = js
          /\ plan.toCreate \subseteq DOMAIN js.sel /\ \A s \in plan.toDelete : OwnerOf(s) = o
      BY <1>1, <2>1, <2>2, <2>3, PlanTyped
    <2> QED BY <1>6, <2>1, <2>2, <2>4
  <1> QED BY <1>7, <1>8, <1>9, <1>10

(* A reconcile with less to do is still one of its owner.                  *)
LEMMA LessToDo ==
    ASSUME TInv, NEW k \in Kinds, rec[k].pc # "idle"
    PROVE  /\ \A s : LET r == [rec[k] EXCEPT !.toDelete = @ \ {s}]
                     IN  /\ r \in Reconciles /\ r.toDelete = rec[k].toDelete \ {s}
                         /\ r.pc = rec[k].pc /\ r.owner = rec[k].owner /\ r.js = rec[k].js
                         /\ r.existing = rec[k].existing /\ r.toCreate = rec[k].toCreate
                         /\ r.requeue = rec[k].requeue
           /\ \A i : LET r == [rec[k] EXCEPT !.toCreate = @ \ {i}]
                     IN  /\ r \in Reconciles /\ r.toCreate = rec[k].toCreate \ {i}
                         /\ r.pc = rec[k].pc /\ r.owner = rec[k].owner /\ r.js = rec[k].js
                         /\ r.existing = rec[k].existing /\ r.toDelete = rec[k].toDelete
                         /\ r.requeue = rec[k].requeue
  <1>1. rec[k] \in Reconciles
    BY DEF TInv, TypeOK
  <1> QED BY <1>1 DEF Reconciles

(* What the steps of a reconcile that are no patch of the owner do.        *)
LEMMA DeleteSliceEffect ==
    ASSUME TInv, NEW k \in Kinds, NEW s \in SliceNames, DeleteSlice(k, s) \/ CleanupSlice(k, s)
    PROVE  /\ rec[k].pc \in {"apply", "cleanup"} /\ s \in rec[k].toDelete
           /\ \/ /\ rec'[k].pc = rec[k].pc /\ rec'[k].owner = rec[k].owner /\ rec'[k].js = rec[k].js
                 /\ rec'[k].existing = rec[k].existing /\ rec'[k].toDelete = rec[k].toDelete \ {s}
                 /\ rec'[k].toCreate = rec[k].toCreate /\ rec'[k].requeue = rec[k].requeue
                 /\ queue' = queue
              \/ rec'[k] = Idle /\ rec[k].owner \in queue'[k]
           /\ rec' \in [Kinds -> Reconciles] /\ \A j \in Kinds \ {k} : rec'[j] = rec[j]
           /\ queue' \in [Kinds -> SUBSET Owners] /\ QueueOK'
           /\ \A j \in Kinds : queue[j] \subseteq queue'[j]
           /\ slices' \in Slots /\ Removed(s)'
           /\ slices'[s] # None => slices[s] # None /\ slices'[s].uid = slices[s].uid
           /\ \A u \in SliceNames : u # s => slices'[u] = slices[u]
           /\ UNCHANGED <<owners, ownerCache, sliceCache>>
  <1> DEFINE r == [rec[k] EXCEPT !.toDelete = @ \ {s}]
  <1>1. rec[k].pc \in {"apply", "cleanup"} /\ s \in rec[k].toDelete /\ Answered(k, r)
    BY DEF DeleteSlice, CleanupSlice
  <1>2. /\ r \in Reconciles /\ r.pc = rec[k].pc /\ r.owner = rec[k].owner /\ r.js = rec[k].js
        /\ r.existing = rec[k].existing /\ r.toDelete = rec[k].toDelete \ {s}
        /\ r.toCreate = rec[k].toCreate /\ r.requeue = rec[k].requeue
    BY <1>1, LessToDo
  <1> HIDE DEF r
  <1>3. slices \in Slots
    BY DEF TInv, TypeOK
  <1>4. CASE slices[s] # None /\ MarkDeleted(s)
    <2>1. slices[s] \in SliceObjects
      BY <1>3, <1>4 DEF Slots
    <2>2. /\ [slices[s] EXCEPT !.deleting = TRUE] \in SliceObjects
          /\ [slices[s] EXCEPT !.deleting = TRUE].deleting
          /\ [slices[s] EXCEPT !.deleting = TRUE].uid = slices[s].uid
      BY <2>1 DEF SliceObjects
    <2>3. slices' = [slices EXCEPT ![s] = [slices[s] EXCEPT !.deleting = TRUE]]
      BY <1>4 DEF MarkDeleted
    <2> HIDE DEF SliceObjects
    <2>4. /\ slices' \in Slots /\ Removed(s)' /\ slices'[s].uid = slices[s].uid
          /\ \A u \in SliceNames : u # s => slices'[u] = slices[u]
      BY <1>3, <2>2, <2>3 DEF Slots, Removed
    <2> QED BY <1>1, <1>2, <1>4, <2>4, AnsweredEffect DEF DeleteSlice, CleanupSlice
  <1>5. CASE slices[s] = None /\ UNCHANGED slices
    <2>1. slices' \in Slots /\ Removed(s)' /\ \A u \in SliceNames : u # s => slices'[u] = slices[u]
      BY <1>3, <1>5 DEF Removed
    <2> QED BY <1>1, <1>2, <1>5, <2>1, AnsweredEffect DEF DeleteSlice, CleanupSlice
  <1> QED BY <1>4, <1>5 DEF DeleteSlice, CleanupSlice

(* Of four UIDs one is free, as at most three are remembered.              *)
LEMMA FreshTyped ==
    ASSUME NEW s \in SliceNames
    PROVE  FreshUID(s) \in SliceUIDs /\ ~Remembered(s, FreshUID(s))
  <1> DEFINE x == sliceCache[s].uid
             y == rec["jobset"].existing[s].uid
             z == rec["leaderworkerset"].existing[s].uid
  <1>1. \A u : Remembered(s, u) => u \in {x, y, z}
    BY DEF Remembered, Kinds
  <1> HIDE DEF x, y, z
  <1>2. \E u \in SliceUIDs : u \notin {x, y, z}
    BY DEF SliceUIDs
  <1>3. \E u \in SliceUIDs : ~Remembered(s, u)
    BY <1>1, <1>2
  <1> QED BY <1>3 DEF FreshUID

(* A request to create a Slice takes a free name.                          *)
LEMMA CreateSliceEffect ==
    ASSUME TInv, NEW k \in Kinds, NEW i \in Replicas, CreateSlice(k, i)
    PROVE  LET s == SliceName(rec[k].owner, rec[k].js.gen, i)
           IN  /\ rec[k].pc = "apply" /\ i \in rec[k].toCreate
               /\ \/ /\ rec'[k].pc = rec[k].pc /\ rec'[k].owner = rec[k].owner /\ rec'[k].js = rec[k].js
                     /\ rec'[k].existing = rec[k].existing /\ rec'[k].toDelete = rec[k].toDelete
                     /\ rec'[k].toCreate = rec[k].toCreate \ {i} /\ rec'[k].requeue = rec[k].requeue
                     /\ queue' = queue
                  \/ rec'[k] = Idle /\ rec[k].owner \in queue'[k]
               /\ rec' \in [Kinds -> Reconciles] /\ \A j \in Kinds \ {k} : rec'[j] = rec[j]
               /\ queue' \in [Kinds -> SUBSET Owners] /\ QueueOK'
               /\ \A j \in Kinds : queue[j] \subseteq queue'[j]
               /\ s \in SliceNames /\ OwnerOf(s) = rec[k].owner
               /\ slices' \in Slots /\ slices[s] = None /\ slices'[s] # None /\ ~slices'[s].deleting
               /\ \A u \in SliceNames : u # s => slices'[u] = slices[u]
               /\ UNCHANGED <<owners, ownerCache, sliceCache>>
  <1> DEFINE r    == [rec[k] EXCEPT !.toCreate = @ \ {i}]
             s    == SliceName(rec[k].owner, rec[k].js.gen, i)
             made == [uid |-> FreshUID(s), parts |-> rec[k].js.sel[i], cond |-> "other", deleting |-> FALSE]
  <1>1. /\ rec[k].pc = "apply" /\ i \in rec[k].toCreate /\ Answered(k, r)
        /\ slices[s] = None /\ slices' = [slices EXCEPT ![s] = made]
        /\ UNCHANGED <<owners, ownerCache, sliceCache>>
    BY DEF CreateSlice
  <1>2. /\ r \in Reconciles /\ r.pc = rec[k].pc /\ r.owner = rec[k].owner /\ r.js = rec[k].js
        /\ r.existing = rec[k].existing /\ r.toDelete = rec[k].toDelete
        /\ r.toCreate = rec[k].toCreate \ {i} /\ r.requeue = rec[k].requeue
    BY <1>1, LessToDo
  <1>3. /\ ReconcileOK(k) /\ rec[k] \in Reconciles /\ slices \in Slots
    BY <1>1 DEF TInv, TypeOK, ReconcilesOK
  <1>4. rec[k].js.sel \in Selections \ {None} /\ i \in DOMAIN rec[k].js.sel /\ rec[k].js.gen \in 1..MaxGen
    <2>1. rec[k].js \in OwnerObjects
      BY <1>3 DEF Reconciles
    <2>2. rec[k].js.sel \in Selections \cup {None} /\ rec[k].js.gen \in 0..MaxGen
      BY <2>1 DEF OwnerObjects
    <2> QED BY <1>1, <1>3, <2>2, OwnersAssumption DEF ReconcileOK
  <1>5. rec[k].js.sel[i] \in Seq(Partitions)
    BY <1>4, SelectionsAssumption
  <1>7. s \in SliceNames /\ OwnerOf(s) = rec[k].owner
    BY <1>3, <1>4, NameTyped DEF ReconcileOK
  <1>6. made \in SliceObjects /\ ~made.deleting
    <2>1. FreshUID(s) \in SliceUIDs
      BY <1>7, FreshTyped
    <2> QED BY <1>5, <2>1 DEF SliceObjects
  <1> HIDE DEF r, s, made, SliceObjects
  <1>8. /\ slices' \in Slots /\ slices'[s] # None /\ ~slices'[s].deleting
        /\ \A u \in SliceNames : u # s => slices'[u] = slices[u]
    BY <1>1, <1>3, <1>6, <1>7, NoneAssumption DEF Slots
  <1> USE DEF s
  <1> QED BY <1>1, <1>2, <1>7, <1>8, AnsweredEffect

(* A Slice that overlaps with another is put off: the reconcile is queued  *)
(* again.                                                                  *)
LEMMA SkipSliceEffect ==
    ASSUME TInv, NEW k \in Kinds, NEW i \in Replicas, SkipSlice(k, i)
    PROVE  /\ rec[k].pc = "apply" /\ i \in rec[k].toCreate
           /\ rec'[k].pc = "apply" /\ rec'[k].owner = rec[k].owner /\ rec'[k].js = rec[k].js
           /\ rec'[k].existing = rec[k].existing /\ rec'[k].toDelete = rec[k].toDelete
           /\ rec'[k].toCreate = rec[k].toCreate \ {i} /\ rec'[k].requeue
           /\ rec' \in [Kinds -> Reconciles] /\ \A j \in Kinds \ {k} : rec'[j] = rec[j]
           /\ UNCHANGED <<owners, slices, ownerCache, sliceCache, queue>>
  <1> DEFINE r == [rec[k] EXCEPT !.toCreate = @ \ {i}, !.requeue = TRUE]
  <1>1. rec \in [Kinds -> Reconciles] /\ rec[k] \in Reconciles
    BY DEF TInv, TypeOK
  <1>2. /\ r \in Reconciles /\ r.pc = rec[k].pc /\ r.owner = rec[k].owner /\ r.js = rec[k].js
        /\ r.existing = rec[k].existing /\ r.toDelete = rec[k].toDelete
        /\ r.toCreate = rec[k].toCreate \ {i} /\ r.requeue
    BY <1>1 DEF Reconciles
  <1>3. rec' = [rec EXCEPT ![k] = r]
    BY <1>1 DEF SkipSlice
  <1> HIDE DEF r
  <1> QED BY <1>1, <1>2, <1>3 DEF SkipSlice

(* The patches of the owner: the finalizer comes, the JobSet is suspended  *)
(* or released, the finalizer goes.                                        *)
LEMMA AddFinalizerEffect ==
    ASSUME TInv, NEW k \in Kinds, AddFinalizer(k)
    PROVE  LET o == rec[k].owner
           IN  /\ rec[k].pc = "finalize" /\ o \in Owners /\ owners[o].phase # "none"
               /\ owners' \in [Owners -> OwnerObjects] /\ owners'[o].fin
               /\ owners'[o].phase = owners[o].phase /\ owners'[o].gen = owners[o].gen
               /\ owners'[o].susp = owners[o].susp
               /\ \A u \in Owners \ {o} : owners'[u] = owners[u]
               /\ \/ rec'[k] = Idle
                  \/ /\ rec'[k].pc = "apply" /\ rec'[k].owner = o /\ rec'[k].js.gen = owners[o].gen
                     /\ ReconcileOK(k)' /\ rec'[k].existing = rec[k].existing
                     /\ rec'[k].toCreate = Missing(rec'[k].existing, o, rec'[k].js)
                     /\ \A s \in rec'[k].toDelete : rec'[k].existing[s] # None
               /\ rec' \in [Kinds -> Reconciles] /\ \A j \in Kinds \ {k} : rec'[j] = rec[j]
               /\ queue' \in [Kinds -> SUBSET Owners] /\ QueueOK'
               /\ \A j \in Kinds : queue[j] \subseteq queue'[j]
               /\ UNCHANGED <<slices, ownerCache, sliceCache>>
  <1> DEFINE o  == rec[k].owner
             js == [owners[o] EXCEPT !.fin = TRUE]
  <1>1. /\ rec[k].pc = "finalize" /\ owners[o].phase \in {"active", "ended"}
        /\ owners' = [owners EXCEPT ![o] = js]
        /\ UNCHANGED <<slices, ownerCache, sliceCache>>
        /\ IF DesiredSlicesOK(o, js.sel)
           THEN \E plan \in Plans(o, js, rec[k].existing) : Answered(k, plan)
           ELSE \E again \in BOOLEAN : Finish(k, again)
    BY DEF AddFinalizer
  <1>2. /\ o \in Owners /\ KindOf(o) = k
        /\ rec[k] \in Reconciles /\ owners \in [Owners -> OwnerObjects]
    BY <1>1 DEF TInv, TypeOK, ReconcilesOK, ReconcileOK
  <1>3. owners[o] \in OwnerObjects
    BY <1>2
  <1>4. owners[o].gen > 0
    BY <1>1, <1>2 DEF TInv, ObjectsOK
  <1>5. /\ js \in OwnerObjects /\ js.fin /\ js.phase = owners[o].phase /\ js.gen = owners[o].gen
        /\ js.susp = owners[o].susp
    BY <1>3 DEF OwnerObjects
  <1> HIDE DEF js
  <1>6. /\ owners' \in [Owners -> OwnerObjects] /\ owners'[o] = js
        /\ \A u \in Owners \ {o} : owners'[u] = owners[u]
    BY <1>1, <1>2, <1>5
  <1>7. CASE DesiredSlicesOK(o, js.sel)
    <2>1. js.sel # None
      BY <1>7 DEF DesiredSlicesOK, jobsetSlices, lwsSlices
    <2>2. rec[k].existing \in Slots
      BY <1>2 DEF Reconciles
    <2>3. PICK plan \in Plans(o, js, rec[k].existing) : Answered(k, plan)
      BY <1>1, <1>7
    <2>4. /\ plan \in Reconciles /\ plan.pc = "apply" /\ plan.owner = o /\ plan.js = js
          /\ plan.toCreate \subseteq DOMAIN js.sel /\ \A s \in plan.toDelete : OwnerOf(s) = o
          /\ plan.existing = rec[k].existing /\ plan.toCreate = Missing(plan.existing, o, js)
          /\ \A s \in plan.toDelete : plan.existing[s] # None
      BY <1>2, <1>4, <1>5, <2>1, <2>2, PlanTyped
    <2>5. /\ rec' \in [Kinds -> Reconciles]
          /\ \/ rec'[k] = plan
             \/ rec'[k] = Idle
          /\ \A j \in Kinds \ {k} : rec'[j] = rec[j]
          /\ queue' \in [Kinds -> SUBSET Owners] /\ QueueOK'
          /\ \A j \in Kinds : queue[j] \subseteq queue'[j]
      BY <1>1, <2>3, <2>4, AnsweredEffect
    <2>6. rec'[k] = plan => ReconcileOK(k)'
      BY <1>2, <1>4, <1>5, <2>1, <2>4 DEF ReconcileOK
    <2> QED BY <1>1, <1>2, <1>5, <1>6, <2>4, <2>5, <2>6
  <1>8. CASE ~DesiredSlicesOK(o, js.sel)
    <2>1. PICK again \in BOOLEAN : Finish(k, again)
      BY <1>1, <1>8
    <2> QED BY <1>1, <1>2, <1>5, <1>6, <2>1, FinishEffect
  <1> QED BY <1>7, <1>8

(* handleSyncMode changes the suspension of the owner and nothing else of  *)
(* it.                                                                     *)
LEMMA SyncModeEffect ==
    ASSUME TInv, NEW k \in Kinds, handleSyncMode(k)
    PROVE  LET o == rec[k].owner
           IN  /\ rec[k].pc = "apply" /\ o \in Owners /\ owners[o].phase # "none"
               /\ owners' \in [Owners -> OwnerObjects] /\ owners'[o].susp = ~rec[k].js.susp
               /\ owners'[o].phase = owners[o].phase /\ owners'[o].gen = owners[o].gen
               /\ owners'[o].fin = owners[o].fin
               /\ \A u \in Owners \ {o} : owners'[u] = owners[u]
               /\ rec' \in [Kinds -> Reconciles] /\ rec'[k] = Idle
               /\ \A j \in Kinds \ {k} : rec'[j] = rec[j]
               /\ queue' \in [Kinds -> SUBSET Owners] /\ QueueOK'
               /\ \A j \in Kinds : queue[j] \subseteq queue'[j]
               /\ UNCHANGED <<slices, ownerCache, sliceCache>>
  <1> DEFINE o == rec[k].owner
             b == ~rec[k].js.susp
  <1>1. /\ rec[k].pc = "apply" /\ owners[o].phase # "none"
        /\ owners' = [owners EXCEPT ![o].susp = b]
        /\ UNCHANGED <<slices, ownerCache, sliceCache>>
    BY DEF handleSyncMode
  <1>2. /\ o \in Owners /\ rec[k] \in Reconciles /\ owners \in [Owners -> OwnerObjects]
    BY <1>1 DEF TInv, TypeOK, ReconcilesOK, ReconcileOK
  <1>3. b \in BOOLEAN
    OBVIOUS
  <1> HIDE DEF b
  <1>4. /\ owners' \in [Owners -> OwnerObjects] /\ owners'[o].susp = b
        /\ owners'[o].phase = owners[o].phase /\ owners'[o].gen = owners[o].gen
        /\ owners'[o].fin = owners[o].fin
        /\ \A u \in Owners \ {o} : owners'[u] = owners[u]
    BY <1>1, <1>2, <1>3 DEF OwnerObjects
  <1>5. PICK again \in {rec[k].requeue, TRUE} : Finish(k, again)
    BY DEF handleSyncMode
  <1>6. again \in BOOLEAN
    BY <1>2 DEF Reconciles
  <1> QED BY <1>1, <1>2, <1>4, <1>5, <1>6, FinishEffect DEF b

(* The finalizer goes, with the object if it is being deleted.             *)
LEMMA RemoveFinalizerEffect ==
    ASSUME TInv, NEW k \in Kinds, RemoveFinalizer(k)
    PROVE  LET o == rec[k].owner
           IN  /\ rec[k].pc = "cleanup" /\ rec[k].js.fin /\ o \in Owners /\ owners[o].phase # "none"
               /\ owners' \in [Owners -> OwnerObjects]
               /\ ~owners'[o].fin /\ owners'[o].gen = owners[o].gen
               /\ \A u \in Owners \ {o} : owners'[u] = owners[u]
               /\ rec' \in [Kinds -> Reconciles] /\ rec'[k] = Idle
               /\ \A j \in Kinds \ {k} : rec'[j] = rec[j]
               /\ queue' \in [Kinds -> SUBSET Owners] /\ QueueOK'
               /\ \A j \in Kinds : queue[j] \subseteq queue'[j]
               /\ UNCHANGED <<slices, ownerCache, sliceCache>>
  <1> DEFINE o    == rec[k].owner
             gone == [NoOwner EXCEPT !.gen = owners[o].gen]
             kept == [owners[o] EXCEPT !.fin = FALSE]
  <1>1. /\ rec[k].pc = "cleanup" /\ rec[k].js.fin /\ owners[o].phase # "none"
        /\ owners' = [owners EXCEPT ![o] = IF owners[o].phase = "deleting" THEN gone ELSE kept]
        /\ UNCHANGED <<slices, ownerCache, sliceCache>>
    BY DEF RemoveFinalizer
  <1>2. /\ o \in Owners /\ owners \in [Owners -> OwnerObjects] /\ owners[o] \in OwnerObjects
    BY <1>1 DEF TInv, TypeOK, ReconcilesOK, ReconcileOK
  <1>3. kept \in OwnerObjects /\ ~kept.fin /\ kept.gen = owners[o].gen
    BY <1>2 DEF OwnerObjects
  <1>4. gone \in OwnerObjects /\ ~gone.fin /\ gone.gen = owners[o].gen
    BY <1>2, EmptyTyped DEF OwnerObjects, NoOwner
  <1> HIDE DEF gone, kept
  <1>5. /\ owners' \in [Owners -> OwnerObjects]
        /\ ~owners'[o].fin /\ owners'[o].gen = owners[o].gen
        /\ \A u \in Owners \ {o} : owners'[u] = owners[u]
    BY <1>1, <1>2, <1>3, <1>4
  <1>6. PICK again \in BOOLEAN : Finish(k, again)
    BY DEF RemoveFinalizer
  <1> QED BY <1>1, <1>2, <1>5, <1>6, FinishEffect

(* A reconcile that ends without a request, or with one that failed.       *)
LEMMA EndsEffect ==
    ASSUME TInv, NEW k \in Kinds, ReconcileEnds(k) \/ CleanupEnds(k) \/ RequestFails(k)
    PROVE  /\ rec[k].pc # "idle"
           /\ rec' \in [Kinds -> Reconciles] /\ rec'[k] = Idle
           /\ \A j \in Kinds \ {k} : rec'[j] = rec[j]
           /\ queue' \in [Kinds -> SUBSET Owners] /\ QueueOK'
           /\ \A j \in Kinds : queue[j] \subseteq queue'[j]
           /\ RequestFails(k) \/ (ReconcileEnds(k) /\ rec[k].requeue) => rec[k].owner \in queue'[k]
           /\ UNCHANGED <<owners, slices, ownerCache, sliceCache>>
  <1>1. rec[k].pc # "idle" /\ rec[k].requeue \in BOOLEAN
    BY DEF ReconcileEnds, CleanupEnds, RequestFails, AboutToSend, TInv, TypeOK, Reconciles
  <1>2. CASE ReconcileEnds(k)
    <2>1. Finish(k, rec[k].requeue) /\ UNCHANGED <<owners, slices, ownerCache, sliceCache>>
      BY <1>2 DEF ReconcileEnds
    <2>2. CASE rec[k].requeue
      BY <1>1, <2>1, <2>2, FinishEffect
    <2>3. CASE ~rec[k].requeue /\ ~RequestFails(k)
      BY <1>1, <2>1, <2>3, FinishEffect
    <2>4. CASE RequestFails(k)
      <3>1. Finish(k, TRUE)
        BY <2>4 DEF RequestFails
      <3> QED BY <1>1, <2>1, <3>1, FinishEffect
    <2> QED BY <2>2, <2>3, <2>4
  <1>3. CASE RequestFails(k)
    <2>1. Finish(k, TRUE) /\ UNCHANGED <<owners, slices, ownerCache, sliceCache>>
      BY <1>3 DEF RequestFails
    <2> QED BY <1>1, <2>1, FinishEffect
  <1>4. CASE CleanupEnds(k) /\ ~RequestFails(k)
    <2>1. Finish(k, FALSE) /\ UNCHANGED <<owners, slices, ownerCache, sliceCache>> /\ ~ReconcileEnds(k)
      BY <1>4 DEF CleanupEnds, ReconcileEnds
    <2> QED BY <1>1, <1>4, <2>1, FinishEffect
  <1> QED BY <1>2, <1>3, <1>4

(* What users and the JobSet controller do to an owner: only deletion, and *)
(* only of an object without the finalizer, removes it; the finalizer is   *)
(* neither given nor taken; the end of an object stays its end.            *)
OwnerStep(o) ==
    \/ \E sel \in Selections : CreateOwner(o, sel) \/ ChangeSelection(o, sel)
    \/ EndOwner(o) \/ DeleteOwner(o) \/ RemoveLabel(o)

(* What such a step leaves true of owners.                                 *)
LEMMA OwnerStepEffect ==
    ASSUME TInv, NEW o \in Owners, OwnerStep(o)
    PROVE  /\ owners' \in [Owners -> OwnerObjects]
           /\ \A u \in Owners \ {o} : owners'[u] = owners[u]
           /\ owners'[o].phase # "none" => owners'[o].gen > 0
           /\ owners'[o].phase = "none" => ~owners'[o].fin
           /\ owners'[o].fin <=> owners[o].fin
           /\ owners[o].fin => owners'[o].gen = owners[o].gen
           /\ Terminal(o, owners[o]) /\ owners[o].fin => Terminal(o, owners'[o])
           /\ owners'[o].gen >= owners[o].gen
           /\ owners'[o].gen = owners[o].gen =>
                 /\ owners[o].phase = "none" => owners'[o].phase = "none"
                 /\ owners'[o].phase = "none" \/ owners'[o].susp = owners[o].susp
           /\ UNCHANGED <<slices, ownerCache, sliceCache, queue, rec>>
  <1>0. /\ owners \in [Owners -> OwnerObjects] /\ owners[o] \in OwnerObjects
        /\ owners[o].gen \in 0..MaxGen /\ owners[o].fin \in BOOLEAN
    BY DEF TInv, TypeOK, OwnerObjects
  <1>1. /\ owners[o].phase = "none" => ~owners[o].fin
        /\ owners[o].phase # "none" => owners[o].gen > 0
    BY DEF TInv, ObjectsOK
  <1>2. ASSUME NEW sel \in Selections, CreateOwner(o, sel)
        PROVE  /\ \E x \in OwnerObjects : /\ owners' = [owners EXCEPT ![o] = x]
                                          /\ x.gen = owners[o].gen + 1 /\ x.phase = "active" /\ ~x.fin
               /\ owners[o].phase = "none"
               /\ UNCHANGED <<slices, ownerCache, sliceCache, queue, rec>>
    <2> DEFINE x == [phase |-> "active", gen |-> owners[o].gen + 1, fin |-> FALSE,
                     susp |-> FALSE, lab |-> TRUE, sel |-> sel]
    <2>1. owners[o].gen + 1 \in 0..MaxGen
      BY <1>0, <1>2, OwnersAssumption DEF CreateOwner
    <2>2. x \in OwnerObjects /\ x.gen = owners[o].gen + 1 /\ x.phase = "active" /\ ~x.fin
      BY <2>1 DEF OwnerObjects
    <2>3. owners' = [owners EXCEPT ![o] = x]
      BY <1>2 DEF CreateOwner
    <2> QED BY <1>2, <2>2, <2>3 DEF CreateOwner
  <1>3. CASE \E sel \in Selections : CreateOwner(o, sel)
    <2>1. PICK x \in OwnerObjects : /\ owners' = [owners EXCEPT ![o] = x]
                                    /\ x.gen = owners[o].gen + 1 /\ x.phase = "active" /\ ~x.fin
      BY <1>2, <1>3
    <2>2. owners' \in [Owners -> OwnerObjects] /\ owners'[o] = x /\ \A u \in Owners \ {o} : owners'[u] = owners[u]
      BY <1>0, <2>1
    <2>3. owners[o].phase = "none" /\ UNCHANGED <<slices, ownerCache, sliceCache, queue, rec>>
      BY <1>2, <1>3
    <2>4. ~owners[o].fin /\ owners'[o].gen = owners[o].gen + 1 /\ ~owners'[o].fin /\ owners'[o].phase = "active"
      BY <1>1, <2>1, <2>2, <2>3
    <2> QED BY <1>0, <2>2, <2>3, <2>4
  <1>4. CASE \E sel \in Selections : ChangeSelection(o, sel)
    BY <1>0, <1>1, <1>4 DEF ChangeSelection, OwnerObjects, Terminal
  <1>5. CASE EndOwner(o)
    BY <1>0, <1>1, <1>5 DEF EndOwner, OwnerObjects, Terminal
  <1>6. CASE RemoveLabel(o)
    <2>1. /\ owners' \in [Owners -> OwnerObjects]
          /\ \A u \in Owners \ {o} : owners'[u] = owners[u]
          /\ owners'[o].phase = owners[o].phase /\ owners'[o].gen = owners[o].gen
          /\ owners'[o].fin = owners[o].fin /\ owners'[o].susp = owners[o].susp
      BY <1>0, <1>6 DEF RemoveLabel, OwnerObjects
    <2> QED BY <1>0, <1>1, <1>6, <2>1 DEF RemoveLabel, Terminal
  <1>7. CASE DeleteOwner(o)
    <2> DEFINE gone     == [NoOwner EXCEPT !.gen = owners[o].gen]
               deleting == [owners[o] EXCEPT !.phase = "deleting"]
    <2>1. gone \in OwnerObjects /\ ~gone.fin /\ gone.gen = owners[o].gen /\ gone.phase = "none"
      BY <1>0, EmptyTyped DEF OwnerObjects, NoOwner
    <2>2. /\ deleting \in OwnerObjects /\ deleting.fin = owners[o].fin /\ deleting.gen = owners[o].gen
          /\ deleting.phase = "deleting" /\ deleting.susp = owners[o].susp
      BY <1>0 DEF OwnerObjects
    <2>3. /\ owners[o].phase # "none"
          /\ owners' = [owners EXCEPT ![o] = IF owners[o].fin THEN deleting ELSE gone]
          /\ UNCHANGED <<slices, ownerCache, sliceCache, queue, rec>>
      BY <1>7 DEF DeleteOwner
    <2> HIDE DEF gone, deleting
    <2>4. /\ owners' \in [Owners -> OwnerObjects]
          /\ owners'[o] = IF owners[o].fin THEN deleting ELSE gone
          /\ \A u \in Owners \ {o} : owners'[u] = owners[u]
      BY <1>0, <2>1, <2>2, <2>3
    <2>5. owners[o].gen > 0
      BY <1>1, <2>3
    <2>6. CASE owners[o].fin
      <3>1. /\ owners'[o].fin /\ owners'[o].gen = owners[o].gen
            /\ owners'[o].phase = "deleting" /\ owners'[o].susp = owners[o].susp
        BY <2>2, <2>4, <2>6
      <3> QED BY <1>0, <2>3, <2>4, <2>5, <2>6, <3>1 DEF Terminal
    <2>7. CASE ~owners[o].fin
      BY <1>0, <2>1, <2>3, <2>4, <2>7
    <2> QED BY <2>6, <2>7
  <1> QED BY <1>3, <1>4, <1>5, <1>6, <1>7 DEF OwnerStep

(* What informers deliver.                                                 *)
LEMMA SyncEffect ==
    ASSUME TInv, NEW o \in Owners,
           SyncOwner(o) \/ \E s \in SliceNames : SyncSlice(s) /\ OwnerOf(s) = o
    PROVE  /\ queue' \in [Kinds -> SUBSET Owners] /\ QueueOK'
           /\ \A j \in Kinds : queue[j] \subseteq queue'[j]
           /\ o \in queue'[KindOf(o)] \/ (SyncOwner(o) /\ ~ownerCache'[o].lab)
           /\ UNCHANGED <<owners, slices, rec>>
  <1>0. queue \in [Kinds -> SUBSET Owners] /\ KindOf(o) \in Kinds /\ ownerCache \in [Owners -> OwnerObjects]
    BY KindTyped DEF TInv, TypeOK
  <1>1. CASE Enqueue(o)
    <2>1. queue[KindOf(o)] \cup {o} \subseteq Owners
      BY <1>0
    <2>2. queue' = [queue EXCEPT ![KindOf(o)] = queue[KindOf(o)] \cup {o}]
      BY <1>1 DEF Enqueue
    <2>3. QueueOK'
      BY <1>0, <2>2 DEF TInv, QueueOK
    <2> QED BY <1>0, <2>1, <2>2, <2>3 DEF SyncOwner, SyncSlice
  <1>2. CASE SyncOwner(o) /\ ~owners[o].lab /\ UNCHANGED queue
    BY <1>0, <1>2 DEF SyncOwner, TInv, QueueOK
  <1> QED BY <1>1, <1>2 DEF SyncOwner, SyncSlice

(* The slice controller reports conditions and removes Slices that are     *)
(* being deleted.                                                          *)
LEMMA SliceStepEffect ==
    ASSUME TInv, NEW s \in SliceNames, SliceGone(s) \/ \E c \in Conditions : SliceStatus(s, c)
    PROVE  /\ slices' \in Slots
           /\ \A u \in SliceNames : (Created(u) => Created(u)') /\ (Removed(u) => Removed(u)')
           /\ \A u \in SliceNames : slices'[u] # None =>
                 /\ slices[u] # None /\ slices'[u].uid = slices[u].uid
                 /\ slices'[u].deleting <=> slices[u].deleting
           /\ UNCHANGED <<owners, ownerCache, sliceCache, queue, rec>>
  <1>0. slices \in Slots
    BY DEF TInv, TypeOK
  <1>1. CASE SliceGone(s)
    BY <1>0, <1>1 DEF SliceGone, Slots, Created, Removed
  <1>2. ASSUME NEW c \in Conditions, SliceStatus(s, c)
        PROVE  /\ slices' \in Slots
               /\ \A u \in SliceNames : (Created(u) => Created(u)') /\ (Removed(u) => Removed(u)')
               /\ \A u \in SliceNames : slices'[u] # None =>
                     /\ slices[u] # None /\ slices'[u].uid = slices[u].uid
                     /\ slices'[u].deleting <=> slices[u].deleting
    <2> DEFINE x == [slices[s] EXCEPT !.cond = c]
    <2>1. slices[s] \in SliceObjects /\ slices' = [slices EXCEPT ![s] = x]
      BY <1>0, <1>2 DEF SliceStatus, Slots
    <2>2. x \in SliceObjects /\ x.deleting = slices[s].deleting /\ x.uid = slices[s].uid
      BY <2>1, OwnersAssumption DEF SliceObjects
    <2> HIDE DEF x, SliceObjects
    <2> QED BY <1>0, <1>2, <2>1, <2>2, NoneAssumption DEF SliceStatus, Slots, Created, Removed
  <1> QED BY <1>1, <1>2 DEF SliceGone, SliceStatus

(* Every step of a worker keeps types and reconciles in order.             *)
LEMMA WorkerTyped ==
    ASSUME TInv, NEW k \in Kinds, Worker(k)
    PROVE  TInv'
  <1>0. TypeOK /\ ObjectsOK
    BY DEF TInv
  <1>1. ASSUME UNCHANGED <<owners, ownerCache>> PROVE ObjectsOK'
    BY <1>0, <1>1 DEF ObjectsOK
  <1>2. ASSUME NEW s \in SliceNames, DeleteSlice(k, s) \/ CleanupSlice(k, s)
        PROVE  TInv'
    <2>1. rec'[k].pc = "idle" \/ ReconcileOK(k)'
      BY <1>2, DeleteSliceEffect, IdleIsIdle DEF TInv, ReconcilesOK, ReconcileOK
    <2>2. ReconcilesOK'
      BY <1>2, <2>1, DeleteSliceEffect, OneReconcile
    <2> QED BY <1>0, <1>1, <1>2, <2>2, DeleteSliceEffect DEF TInv, TypeOK
  <1>3. ASSUME NEW i \in Replicas, CreateSlice(k, i)
        PROVE  TInv'
    <2>1. rec'[k].pc = "idle" \/ ReconcileOK(k)'
      BY <1>3, CreateSliceEffect, IdleIsIdle DEF TInv, ReconcilesOK, ReconcileOK
    <2>2. ReconcilesOK'
      BY <1>3, <2>1, CreateSliceEffect, OneReconcile
    <2> QED BY <1>0, <1>1, <1>3, <2>2, CreateSliceEffect DEF TInv, TypeOK
  <1>4. ASSUME NEW i \in Replicas, SkipSlice(k, i)
        PROVE  TInv'
    <2>1. ReconcileOK(k)'
      BY <1>4, SkipSliceEffect DEF TInv, ReconcilesOK, ReconcileOK
    <2>2. ReconcilesOK'
      BY <1>4, <2>1, SkipSliceEffect, OneReconcile
    <2>3. QueueOK'
      BY <1>4, SkipSliceEffect DEF TInv, QueueOK
    <2> QED BY <1>0, <1>1, <1>4, <2>2, <2>3, SkipSliceEffect DEF TInv, TypeOK
  <1>5. CASE AddFinalizer(k)
    <2>1. ReconcilesOK'
      BY <1>5, AddFinalizerEffect, OneReconcile, IdleIsIdle
    <2>2. ObjectsOK'
      BY <1>0, <1>5, AddFinalizerEffect DEF ObjectsOK
    <2> QED BY <1>0, <1>5, <2>1, <2>2, AddFinalizerEffect DEF TInv, TypeOK
  <1>6. CASE handleSyncMode(k)
    <2>1. ReconcilesOK'
      BY <1>6, SyncModeEffect, OneReconcile, IdleIsIdle
    <2>2. ObjectsOK'
      BY <1>0, <1>6, SyncModeEffect DEF ObjectsOK
    <2> QED BY <1>0, <1>6, <2>1, <2>2, SyncModeEffect DEF TInv, TypeOK
  <1>7. CASE RemoveFinalizer(k)
    <2>1. ReconcilesOK'
      BY <1>7, RemoveFinalizerEffect, OneReconcile, IdleIsIdle
    <2>2. ObjectsOK'
      BY <1>0, <1>7, RemoveFinalizerEffect DEF ObjectsOK
    <2> QED BY <1>0, <1>7, <2>1, <2>2, RemoveFinalizerEffect DEF TInv, TypeOK
  <1>8. CASE ReconcileEnds(k) \/ CleanupEnds(k) \/ RequestFails(k)
    <2>1. ReconcilesOK'
      BY <1>8, EndsEffect, OneReconcile, IdleIsIdle
    <2> QED BY <1>0, <1>1, <1>8, <2>1, EndsEffect DEF TInv, TypeOK
  <1> QED
    BY <1>2, <1>3, <1>4, <1>5, <1>6, <1>7, <1>8, BeginTyped DEF Worker

(* So do the steps of the cluster and of the informers, and a restart.     *)
LEMMA KubernetesTyped ==
    ASSUME TInv, Kubernetes
    PROVE  TInv'
  <1>0. TypeOK /\ ObjectsOK /\ QueueOK /\ ReconcilesOK
    BY DEF TInv
  <1>1. ASSUME NEW o \in Owners, OwnerStep(o)
        PROVE  TInv'
    <2>1. ObjectsOK'
      <3>1. ownerCache[o].gen \in 0..MaxGen /\ owners[o].gen \in 0..MaxGen /\ owners'[o].gen \in 0..MaxGen
        BY <1>0, <1>1, OwnerStepEffect DEF TypeOK, OwnerObjects
      <3> QED BY <1>0, <1>1, <3>1, OwnerStepEffect, OwnersAssumption DEF ObjectsOK
    <2>2. QueueOK' /\ ReconcilesOK'
      BY <1>0, <1>1, OwnerStepEffect DEF QueueOK, ReconcilesOK, ReconcileOK
    <2> QED BY <1>0, <1>1, <2>1, <2>2, OwnerStepEffect DEF TInv, TypeOK
  <1>2. ASSUME NEW o \in Owners, SyncOwner(o)
        PROVE  TInv'
    <2>1. /\ ownerCache' \in [Owners -> OwnerObjects] /\ ownerCache'[o] = owners[o]
          /\ \A u \in Owners \ {o} : ownerCache'[u] = ownerCache[u]
          /\ UNCHANGED <<owners, slices, sliceCache, rec>>
      BY <1>0, <1>2 DEF SyncOwner, TypeOK
    <2>2. ObjectsOK'
      <3>1. owners[o].gen \in 0..MaxGen
        BY <1>0 DEF TypeOK, OwnerObjects
      <3> QED BY <1>0, <2>1, <3>1, OwnersAssumption DEF ObjectsOK
    <2>3. ReconcilesOK'
      BY <1>0, <2>1 DEF ReconcilesOK, ReconcileOK
    <2> QED BY <1>0, <1>2, <2>1, <2>2, <2>3, SyncEffect DEF TInv, TypeOK
  <1>3. ASSUME NEW s \in SliceNames, SyncSlice(s)
        PROVE  TInv'
    <2>1. sliceCache' \in Slots /\ UNCHANGED <<owners, slices, ownerCache, rec>>
      BY <1>0, <1>3 DEF SyncSlice, TypeOK, Slots
    <2>2. ObjectsOK' /\ ReconcilesOK'
      BY <1>0, <2>1 DEF ObjectsOK, ReconcilesOK, ReconcileOK
    <2>3. queue' \in [Kinds -> SUBSET Owners] /\ QueueOK'
      BY <1>3, SyncEffect, OwnerOfTyped
    <2> QED BY <1>0, <2>1, <2>2, <2>3 DEF TInv, TypeOK
  <1>4. ASSUME NEW s \in SliceNames, SliceGone(s) \/ \E c \in Conditions : SliceStatus(s, c)
        PROVE  TInv'
    BY <1>0, <1>4, SliceStepEffect DEF TInv, TypeOK, ObjectsOK, QueueOK, ReconcilesOK, ReconcileOK
  <1> QED BY <1>1, <1>2, <1>3, <1>4 DEF Kubernetes, OwnerStep

(* A restart leaves idle workers, fresh caches and a queue of owners.      *)
LEMMA RestartTyped ==
    ASSUME TInv, Restart
    PROVE  TInv'
  <1>0. TypeOK /\ ObjectsOK
    BY DEF TInv
  <1>1. rec' \in [Kinds -> Reconciles] /\ ReconcilesOK'
    BY EmptyTyped, IdleIsIdle DEF Restart, ReconcilesOK
  <1>2. queue' \in [Kinds -> SUBSET Owners] /\ QueueOK'
    BY DEF Restart, QueueOK
  <1>3. ObjectsOK'
    <2>1. \A o \in Owners : owners[o].gen \in 0..MaxGen
      BY <1>0 DEF TypeOK, OwnerObjects
    <2> QED BY <1>0, <2>1, OwnersAssumption DEF Restart, ObjectsOK
  <1> QED BY <1>0, <1>1, <1>2, <1>3 DEF Restart, TInv, TypeOK

(* Types and reconciles stay in order in every step.                       *)
LEMMA TInvStep == TInv /\ [Next]_vars => TInv'
  <1>1. TInv /\ UNCHANGED vars => TInv'
    BY DEF vars, TInv, TypeOK, ObjectsOK, QueueOK, ReconcilesOK, ReconcileOK
  <1> QED
    BY <1>1, WorkerTyped, KubernetesTyped, RestartTyped DEF Next, Running

(* The initial states are well typed, those with an owner that the older   *)
(* release has served too.                                                 *)
LEMMA TInvInit == Init => TInv
  <1> SUFFICES ASSUME Init PROVE TInv
    OBVIOUS
  <1> DEFINE Old == [phase : {"active"}, gen : {1}, fin : {TRUE}, susp : {FALSE}, lab : {TRUE}, sel : Selections \ {None}]
  <1>1. owners \in [Owners -> {NoOwner} \cup Old]
    BY DEF Init
  <1>2. 1 \in 0..MaxGen
    BY OwnersAssumption
  <1>3. /\ \A x \in Old : x \in OwnerObjects /\ x.phase = "active" /\ x.gen = 1 /\ x.sel \in Selections \ {None}
        /\ NoOwner.phase = "none" /\ ~NoOwner.fin /\ NoOwner.gen = 0
    BY <1>2 DEF NoOwner, OwnerObjects
  <1> HIDE DEF Old
  <1>4. ASSUME NEW o \in Owners
        PROVE  /\ owners[o] \in OwnerObjects
               /\ owners[o].phase = "none" => ~owners[o].fin
               /\ owners[o].phase # "none" => owners[o].gen > 0 /\ owners[o].sel \in Selections \ {None}
    <2>1. CASE owners[o] = NoOwner
      BY <1>3, <2>1, EmptyTyped
    <2>2. CASE owners[o] \in Old
      BY <1>3, <2>2
    <2> QED BY <1>1, <2>1, <2>2
  <1>5. owners \in [Owners -> OwnerObjects] /\ ownerCache = owners
    BY <1>1, <1>4 DEF Init
  <1>6. ASSUME NEW s \in SliceNames
        PROVE  slices[s] \in SliceObjects \cup {None}
    <2> DEFINE js == owners[OwnerOf(s)]
    <2>1. \/ slices[s] = None
          \/ /\ js.phase = "active" /\ s[3] \in DOMAIN js.sel
             /\ slices[s] = [uid |-> 0, parts |-> js.sel[s[3]], cond |-> "ready", deleting |-> FALSE]
      BY DEF Init
    <2>2. js.phase = "active" => js.sel \in Selections \ {None}
      BY <1>4, OwnerOfTyped
    <2> HIDE DEF js
    <2>3. ASSUME js.phase = "active", s[3] \in DOMAIN js.sel PROVE js.sel[s[3]] \in Seq(Partitions)
      BY <2>2, <2>3, SelectionsAssumption
    <2>4. \A x \in Seq(Partitions) : [uid |-> 0, parts |-> x, cond |-> "ready", deleting |-> FALSE] \in SliceObjects
      BY DEF SliceObjects, SliceUIDs
    <2> HIDE DEF SliceObjects
    <2>5. CASE slices[s] # None
      BY <2>1, <2>3, <2>4, <2>5
    <2> QED BY <2>5
  <1>7. slices \in Slots /\ sliceCache \in Slots
    BY <1>6 DEF Init, Slots
  <1>8. queue \in [Kinds -> SUBSET Owners] /\ QueueOK
    BY DEF Init, QueueOK
  <1>9. rec \in [Kinds -> Reconciles] /\ ReconcilesOK
    BY EmptyTyped, IdleIsIdle DEF Init, ReconcilesOK
  <1>10. ObjectsOK
    <2>1. \A o \in Owners : owners[o].gen \in 0..MaxGen
      BY <1>4 DEF OwnerObjects
    <2> QED BY <1>4, <1>5, <2>1, OwnersAssumption DEF ObjectsOK
  <1> QED BY <1>5, <1>7, <1>8, <1>9, <1>10 DEF TInv, TypeOK

(* Variables keep their types: in particular every request of a reconcile  *)
(* is for a Slice name and a replica that exist in the owner it has read,  *)
(* and every queue holds owners only.                                      *)
THEOREM SlicesTypeCorrect == Spec => []TypeOK
  <1>1. TInv => TypeOK
    BY DEF TInv
  <1> QED BY <1>1, TInvInit, TInvStep, PTL DEF Spec

-----------------------------------------------------------------------------
(* The finalizer.                                                          *)

(* What a worker that takes an owner reads and sets out to do.             *)
LEMMA BeginEffect ==
    ASSUME TInv, NEW k \in Kinds, NEW o \in Owners,
           ReconcileNothing(k, o) \/ ReconcileCleansUp(k, o) \/ ReconcileFinalizes(k, o) \/ ReconcileApplies(k, o)
    PROVE  LET js == ownerCache[o]
           IN  /\ Takes(k, o)
               /\ \A j \in Kinds \ {k} : rec'[j] = rec[j]
               /\ \/ /\ rec' = rec /\ ~Terminal(o, js)
                     /\ Served(o, js) => ~DesiredSlicesOK(o, js.sel)
                  \/ /\ rec'[k].pc = "cleanup" /\ rec'[k].owner = o /\ rec'[k].js = js /\ Terminal(o, js)
                     /\ rec'[k].existing = ListSlices(o)
                     /\ \A s \in SliceNames :
                           s \in rec'[k].toDelete <=> ListSlices(o)[s] # None /\ ~ListSlices(o)[s].deleting
                     /\ rec'[k].toDelete \subseteq SliceNames
                  \/ /\ rec'[k].pc = "finalize" /\ rec'[k].owner = o /\ ~js.fin
                     /\ rec'[k].existing = ListSlices(o) /\ rec'[k].toDelete = {}
                  \/ /\ rec'[k].pc = "apply" /\ rec'[k].owner = o /\ rec'[k].js = js
                     /\ js.fin /\ Served(o, js) /\ rec'[k].existing = ListSlices(o)
                     /\ rec'[k].toCreate = Missing(ListSlices(o), o, js)
                     /\ \A s \in rec'[k].toDelete : ListSlices(o)[s] # None
                     /\ \A s \in ToRecreate(ListSlices(o), o, js) :
                           ListSlices(o)[s].deleting \/ s \in rec'[k].toDelete \/ rec'[k].requeue
  <1> DEFINE js       == ownerCache[o]
             existing == ListSlices(o)
  <1>1. js \in OwnerObjects /\ existing \in Slots /\ rec \in [Kinds -> Reconciles]
    BY ListTyped DEF TInv, TypeOK
  <1>2. Takes(k, o)
    BY DEF ReconcileNothing, ReconcileCleansUp, ReconcileFinalizes, ReconcileApplies
  <1>3. CASE ReconcileNothing(k, o)
    BY <1>2, <1>3 DEF ReconcileNothing
  <1>4. CASE ReconcileCleansUp(k, o)
    <2> DEFINE del == {s \in SliceNames : existing[s] # None /\ ~existing[s].deleting}
               r   == [Idle EXCEPT !.pc = "cleanup", !.owner = o, !.js = js, !.existing = existing, !.toDelete = del]
    <2>1. rec' = [rec EXCEPT ![k] = r] /\ Terminal(o, js)
      BY <1>4 DEF ReconcileCleansUp
    <2>a. \A s \in SliceNames : s \in del <=> existing[s] # None /\ ~existing[s].deleting
      OBVIOUS
    <2>b. del \subseteq SliceNames
      OBVIOUS
    <2> HIDE DEF del, existing, js
    <2>2. r.pc = "cleanup" /\ r.owner = o /\ r.js = js /\ r.existing = existing /\ r.toDelete = del
      BY <1>1, EmptyTyped DEF Reconciles
    <2> HIDE DEF r
    <2>3. rec'[k] = r /\ \A j \in Kinds \ {k} : rec'[j] = rec[j]
      BY <1>1, <2>1
    <2> USE DEF js, existing
    <2> QED BY <1>2, <2>a, <2>b, <2>1, <2>2, <2>3
  <1>5. CASE ReconcileFinalizes(k, o)
    <2> DEFINE r == [Idle EXCEPT !.pc = "finalize", !.owner = o, !.js = js, !.existing = existing]
    <2>1. rec' = [rec EXCEPT ![k] = r] /\ ~js.fin
      BY <1>5 DEF ReconcileFinalizes
    <2> HIDE DEF existing, js
    <2>a. Idle.toDelete = {}
      BY DEF Idle
    <2>2. r.pc = "finalize" /\ r.owner = o /\ r.existing = existing /\ r.toDelete = {}
      BY <1>1, <2>a, EmptyTyped DEF Reconciles
    <2> HIDE DEF r
    <2>3. rec'[k] = r /\ \A j \in Kinds \ {k} : rec'[j] = rec[j]
      BY <1>1, <2>1
    <2> USE DEF js, existing
    <2> QED BY <1>2, <2>1, <2>2, <2>3
  <1>6. CASE ReconcileApplies(k, o)
    <2>1. /\ Served(o, js) /\ js.fin
          /\ \E plan \in Plans(o, js, existing) : rec' = [rec EXCEPT ![k] = plan]
      BY <1>6 DEF ReconcileApplies
    <2>2. js.phase # "none" /\ js.sel # None
      BY <1>6 DEF ReconcileApplies, Served, DesiredSlicesOK, jobsetSlices, lwsSlices
    <2>3. js.gen > 0
      BY <2>2 DEF TInv, ObjectsOK
    <2>4. PICK plan \in Plans(o, js, existing) : rec' = [rec EXCEPT ![k] = plan]
      BY <2>1
    <2> HIDE DEF js, existing
    <2>5. /\ plan.pc = "apply" /\ plan.owner = o /\ plan.js = js /\ plan.existing = existing
          /\ plan.toCreate = Missing(existing, o, js)
          /\ \A s \in plan.toDelete : existing[s] # None
          /\ \A s \in ToRecreate(existing, o, js) :
                existing[s].deleting \/ s \in plan.toDelete \/ plan.requeue
      BY <1>1, <2>2, <2>3, <2>4, PlanTyped
    <2>6. rec'[k] = plan /\ \A j \in Kinds \ {k} : rec'[j] = rec[j]
      BY <1>1, <2>4
    <2> USE DEF js, existing
    <2> QED BY <1>2, <2>1, <2>5, <2>6
  <1> QED BY <1>3, <1>4, <1>5, <1>6

(* Workers are busy with different owners.                                 *)
LEMMA OwnWorker ==
    ASSUME TInv, NEW k \in Kinds, NEW j \in Kinds, j # k, rec[k].pc # "idle", rec[j].pc # "idle"
    PROVE  rec[k].owner \in Owners /\ rec[j].owner \in Owners /\ rec[j].owner # rec[k].owner
  BY DEF TInv, ReconcilesOK, ReconcileOK

(* Steps that leave owners and what reconciles have read alone.            *)
LEMMA FinalizersUntouched ==
    ASSUME FInv, UNCHANGED <<owners, ownerCache>>,
           \A j \in Kinds : \/ rec'[j].pc = "idle"
                            \/ rec'[j].pc = rec[j].pc /\ rec'[j].owner = rec[j].owner /\ rec'[j].js = rec[j].js
    PROVE  FinalizersOK'
  <1>1. FinalizersOK
    BY DEF FInv
  <1>2. CacheFinalizer'
    BY <1>1 DEF FinalizersOK, CacheFinalizer, Live, Terminal
  <1>3. FinalizeFinalizer'
    BY <1>1 DEF FinalizersOK, FinalizeFinalizer, Live, Terminal
  <1>4. CleanupFinalizer'
    BY <1>1 DEF FinalizersOK, CleanupFinalizer, Live, Terminal
  <1>5. AppliesUnderFinalizer'
    BY <1>1 DEF FinalizersOK, AppliesUnderFinalizer
  <1> QED BY <1>2, <1>3, <1>4, <1>5 DEF FinalizersOK

(* A worker takes an owner.                                                *)
LEMMA FinalizersBegin ==
    ASSUME FInv, NEW k \in Kinds, NEW o \in Owners,
           ReconcileNothing(k, o) \/ ReconcileCleansUp(k, o) \/ ReconcileFinalizes(k, o) \/ ReconcileApplies(k, o)
    PROVE  FinalizersOK'
  <1>0. TInv /\ FinalizersOK
    BY DEF FInv
  <1>1. /\ UNCHANGED <<owners, ownerCache>> /\ \A j \in Kinds \ {k} : rec'[j] = rec[j]
        /\ \/ rec' = rec
           \/ /\ rec'[k].pc = "cleanup" /\ rec'[k].owner = o /\ rec'[k].js = ownerCache[o]
              /\ Terminal(o, ownerCache[o])
           \/ rec'[k].pc = "finalize" /\ rec'[k].owner = o /\ ~ownerCache[o].fin
           \/ /\ rec'[k].pc = "apply" /\ rec'[k].owner = o /\ rec'[k].js = ownerCache[o]
              /\ ownerCache[o].fin /\ Served(o, ownerCache[o])
    BY <1>0, BeginEffect, TakesEffect
  <1>2. CacheFinalizer'
    BY <1>0, <1>1 DEF FinalizersOK, CacheFinalizer, Live, Terminal
  <1>3. FinalizeFinalizer'
    BY <1>0, <1>1 DEF FinalizersOK, FinalizeFinalizer, Terminal
  <1>4. CleanupFinalizer'
    BY <1>0, <1>1 DEF FinalizersOK, CacheFinalizer, CleanupFinalizer, Live, Terminal
  <1>5. AppliesUnderFinalizer'
    BY <1>0, <1>1 DEF FinalizersOK, CacheFinalizer, AppliesUnderFinalizer, Live, Served
  <1> QED BY <1>2, <1>3, <1>4, <1>5 DEF FinalizersOK

(* The patches of the owner.                                               *)
LEMMA FinalizersPatch ==
    ASSUME FInv, NEW k \in Kinds, AddFinalizer(k) \/ handleSyncMode(k) \/ RemoveFinalizer(k)
    PROVE  FinalizersOK'
  <1> DEFINE o == rec[k].owner
  <1>0. TInv /\ CacheFinalizer /\ FinalizeFinalizer /\ CleanupFinalizer /\ AppliesUnderFinalizer
    BY DEF FInv, FinalizersOK
  <1>1. CASE AddFinalizer(k)
    <2>1. /\ rec[k].pc = "finalize" /\ o \in Owners
          /\ owners'[o].fin /\ owners'[o].phase = owners[o].phase /\ owners'[o].gen = owners[o].gen
          /\ \A u \in Owners \ {o} : owners'[u] = owners[u]
          /\ \/ rec'[k].pc = "idle"
             \/ rec'[k].pc = "apply" /\ rec'[k].owner = o /\ rec'[k].js.gen = owners[o].gen
          /\ \A j \in Kinds \ {k} : rec'[j] = rec[j]
          /\ UNCHANGED ownerCache
      BY <1>0, <1>1, AddFinalizerEffect, IdleIsIdle
    <2>2. \A j \in Kinds \ {k} : rec[j].pc # "idle" => rec[j].owner \in Owners \ {o}
      BY <1>0, <2>1, OwnWorker
    <2> HIDE DEF o
    <2>3. CacheFinalizer'
      <3>1. ownerCache[o].fin => owners[o].fin /\ (Terminal(o, ownerCache[o]) => Terminal(o, owners[o]))
        BY <1>0, <2>1 DEF FinalizeFinalizer, o
      <3>2. Terminal(o, owners'[o]) <=> Terminal(o, owners[o])
        BY <2>1 DEF Terminal
      <3> QED BY <1>0, <2>1, <3>1, <3>2 DEF CacheFinalizer, Live
    <2>4. FinalizeFinalizer'
      BY <1>0, <2>1, <2>2 DEF FinalizeFinalizer
    <2>5. CleanupFinalizer'
      BY <1>0, <2>1, <2>2 DEF CleanupFinalizer
    <2>6. AppliesUnderFinalizer'
      BY <1>0, <2>1, <2>2 DEF AppliesUnderFinalizer
    <2> QED BY <2>3, <2>4, <2>5, <2>6 DEF FinalizersOK
  <1>2. CASE handleSyncMode(k)
    <2>1. /\ rec[k].pc = "apply" /\ o \in Owners
          /\ owners'[o].fin = owners[o].fin /\ owners'[o].phase = owners[o].phase /\ owners'[o].gen = owners[o].gen
          /\ \A u \in Owners \ {o} : owners'[u] = owners[u]
          /\ rec'[k].pc = "idle" /\ \A j \in Kinds \ {k} : rec'[j] = rec[j]
          /\ UNCHANGED ownerCache
      BY <1>0, <1>2, SyncModeEffect, IdleIsIdle
    <2>2. \A j \in Kinds \ {k} : rec[j].pc # "idle" => rec[j].owner \in Owners \ {o}
      BY <1>0, <2>1, OwnWorker
    <2> HIDE DEF o
    <2>3. CacheFinalizer'
      BY <1>0, <2>1 DEF CacheFinalizer, Live, Terminal
    <2>4. FinalizeFinalizer'
      BY <1>0, <2>1, <2>2 DEF FinalizeFinalizer
    <2>5. CleanupFinalizer'
      BY <1>0, <2>1, <2>2 DEF CleanupFinalizer
    <2>6. AppliesUnderFinalizer'
      BY <1>0, <2>1, <2>2 DEF AppliesUnderFinalizer
    <2> QED BY <2>3, <2>4, <2>5, <2>6 DEF FinalizersOK
  <1>3. CASE RemoveFinalizer(k)
    <2>1. /\ rec[k].pc = "cleanup" /\ rec[k].js.fin /\ o \in Owners
          /\ ~owners'[o].fin /\ \A u \in Owners \ {o} : owners'[u] = owners[u]
          /\ rec'[k].pc = "idle" /\ \A j \in Kinds \ {k} : rec'[j] = rec[j]
          /\ UNCHANGED ownerCache
      BY <1>0, <1>3, RemoveFinalizerEffect, IdleIsIdle
    <2>2. \A j \in Kinds \ {k} : rec[j].pc # "idle" => rec[j].owner \in Owners \ {o}
      BY <1>0, <2>1, OwnWorker
    <2>3. ~Live(o, ownerCache[o])
      BY <1>0, <2>1 DEF CleanupFinalizer
    <2> HIDE DEF o
    <2>4. CacheFinalizer'
      BY <1>0, <2>1, <2>3 DEF CacheFinalizer, Live
    <2>5. FinalizeFinalizer'
      BY <1>0, <2>1, <2>2 DEF FinalizeFinalizer
    <2>6. CleanupFinalizer'
      BY <1>0, <2>1, <2>2 DEF CleanupFinalizer
    <2>7. AppliesUnderFinalizer'
      BY <1>0, <2>1, <2>2 DEF AppliesUnderFinalizer
    <2> QED BY <2>4, <2>5, <2>6, <2>7 DEF FinalizersOK
  <1> QED BY <1>1, <1>2, <1>3

(* The steps of users, the JobSet controller, informers and the slice      *)
(* controller.                                                             *)
LEMMA FinalizersKubernetes ==
    ASSUME FInv, Kubernetes
    PROVE  FinalizersOK'
  <1>0. /\ TInv /\ CacheFinalizer /\ FinalizeFinalizer /\ CleanupFinalizer /\ AppliesUnderFinalizer
        /\ \A j \in Kinds : rec[j].pc # "idle" => rec[j].owner \in Owners
    BY DEF FInv, FinalizersOK, TInv, ReconcilesOK, ReconcileOK
  <1>1. ASSUME NEW o \in Owners, OwnerStep(o)
        PROVE  FinalizersOK'
    <2>1. /\ \A u \in Owners \ {o} : owners'[u] = owners[u]
          /\ owners'[o].fin <=> owners[o].fin
          /\ owners[o].fin => owners'[o].gen = owners[o].gen
          /\ Terminal(o, owners[o]) /\ owners[o].fin => Terminal(o, owners'[o])
          /\ UNCHANGED <<ownerCache, rec>>
      BY <1>0, <1>1, OwnerStepEffect
    <2>2. CacheFinalizer'
      BY <1>0, <2>1 DEF CacheFinalizer, Live
    <2>3. FinalizeFinalizer'
      <3> SUFFICES ASSUME NEW j \in Kinds, rec[j].pc = "finalize", ownerCache[rec[j].owner].fin
                   PROVE  /\ owners'[rec[j].owner].fin
                          /\ Terminal(rec[j].owner, ownerCache[rec[j].owner])
                                => Terminal(rec[j].owner, owners'[rec[j].owner])
        BY <2>1 DEF FinalizeFinalizer, Terminal
      <3>1. /\ owners[rec[j].owner].fin
            /\ Terminal(rec[j].owner, ownerCache[rec[j].owner]) => Terminal(rec[j].owner, owners[rec[j].owner])
        BY <1>0 DEF FinalizeFinalizer
      <3> QED BY <1>0, <2>1, <3>1
    <2>4. CleanupFinalizer'
      <3> SUFFICES ASSUME NEW j \in Kinds, rec[j].pc = "cleanup", rec[j].js.fin
                   PROVE  ~Live(rec[j].owner, owners'[rec[j].owner]) /\ ~Live(rec[j].owner, ownerCache[rec[j].owner])
        BY <2>1 DEF CleanupFinalizer, Live, Terminal
      <3>1. ~Live(rec[j].owner, owners[rec[j].owner]) /\ ~Live(rec[j].owner, ownerCache[rec[j].owner])
        BY <1>0 DEF CleanupFinalizer
      <3> QED BY <1>0, <2>1, <3>1 DEF Live
    <2>5. AppliesUnderFinalizer'
      BY <1>0, <2>1 DEF AppliesUnderFinalizer
    <2> QED BY <2>2, <2>3, <2>4, <2>5 DEF FinalizersOK
  <1>2. ASSUME NEW o \in Owners, SyncOwner(o)
        PROVE  FinalizersOK'
    <2>1. /\ ownerCache'[o] = owners[o] /\ \A u \in Owners \ {o} : ownerCache'[u] = ownerCache[u]
          /\ UNCHANGED <<owners, rec>>
      BY <1>0, <1>2 DEF SyncOwner, TInv, TypeOK
    <2>2. CacheFinalizer'
      BY <1>0, <2>1 DEF CacheFinalizer, Live, Terminal
    <2>3. FinalizeFinalizer'
      BY <1>0, <2>1 DEF FinalizeFinalizer, Terminal
    <2>4. CleanupFinalizer'
      BY <1>0, <2>1 DEF CleanupFinalizer, Live, Terminal
    <2>5. AppliesUnderFinalizer'
      BY <1>0, <2>1 DEF AppliesUnderFinalizer
    <2> QED BY <2>2, <2>3, <2>4, <2>5 DEF FinalizersOK
  <1>3. ASSUME NEW s \in SliceNames, SyncSlice(s) \/ SliceGone(s) \/ \E c \in Conditions : SliceStatus(s, c)
        PROVE  FinalizersOK'
    <2>1. UNCHANGED <<owners, ownerCache, rec>>
      BY <1>3 DEF SyncSlice, SliceGone, SliceStatus
    <2> QED BY <2>1, FinalizersUntouched
  <1> QED BY <1>1, <1>2, <1>3 DEF Kubernetes, OwnerStep

(* Every step keeps the invariant.                                         *)
LEMMA FInvStep == FInv /\ [Next]_vars => FInv'
  <1> SUFFICES ASSUME FInv, [Next]_vars PROVE FinalizersOK'
    BY TInvStep DEF FInv
  <1>0. TInv
    BY DEF FInv
  <1>1. ASSUME NEW k \in Kinds, NEW s \in SliceNames, DeleteSlice(k, s) \/ CleanupSlice(k, s)
        PROVE  FinalizersOK'
    BY <1>0, <1>1, DeleteSliceEffect, IdleIsIdle, FinalizersUntouched
  <1>2. ASSUME NEW k \in Kinds, NEW i \in Replicas, SkipSlice(k, i) \/ CreateSlice(k, i)
        PROVE  FinalizersOK'
    BY <1>0, <1>2, CreateSliceEffect, SkipSliceEffect, IdleIsIdle, FinalizersUntouched
  <1>3. ASSUME NEW k \in Kinds, ReconcileEnds(k) \/ CleanupEnds(k) \/ RequestFails(k)
        PROVE  FinalizersOK'
    BY <1>0, <1>3, EndsEffect, IdleIsIdle, FinalizersUntouched
  <1>4. ASSUME NEW k \in Kinds, Worker(k)
        PROVE  FinalizersOK'
    BY <1>1, <1>2, <1>3, <1>4, FinalizersBegin, FinalizersPatch DEF Worker
  <1>5. CASE Restart
    <2>1. /\ ownerCache' = owners /\ owners' = owners
          /\ \A j \in Kinds : rec'[j].pc = "idle"
      BY <1>5, IdleIsIdle DEF Restart
    <2> QED BY <2>1 DEF FinalizersOK, CacheFinalizer, FinalizeFinalizer, CleanupFinalizer, AppliesUnderFinalizer, Live
  <1>6. CASE UNCHANGED vars
    BY <1>6, FinalizersUntouched DEF vars
  <1> QED BY <1>4, <1>5, <1>6, FinalizersKubernetes DEF Next, Running

(* At the start each cached copy is up to date and no reconcile is under   *)
(* way.                                                                    *)
LEMMA FInvInit == Init => FInv
  <1> SUFFICES ASSUME Init PROVE FinalizersOK
    BY TInvInit DEF FInv
  <1>1. /\ ownerCache = owners /\ \A j \in Kinds : rec[j].pc = "idle"
        /\ \A o \in Owners : owners[o] = ownerCache[o]
    BY IdleIsIdle DEF Init
  <1>2. \A o \in Owners : Live(o, owners[o]) => owners[o].fin /\ ~Terminal(o, owners[o])
    BY DEF Live
  <1> QED
    BY <1>1, <1>2 DEF FinalizersOK, CacheFinalizer, FinalizeFinalizer, CleanupFinalizer, AppliesUnderFinalizer

(* While a reconcile applies its plan, the object it was made for is there *)
(* with its finalizer: Reconcile reads a stale cache and patches the       *)
(* finalizer by name, and still no Slice is created after the cleanup that *)
(* releases the finalizer.                                                 *)
THEOREM SlicesUnderFinalizer == Spec => []AppliesUnderFinalizer
  <1>1. FInv => AppliesUnderFinalizer
    BY DEF FInv, FinalizersOK
  <1> QED BY <1>1, FInvInit, FInvStep, PTL DEF Spec

-----------------------------------------------------------------------------
(* Wakeups.                                                                *)

(* An owner to look after has a UID and a selection.                       *)
LEMMA LookedAfterTyped ==
    ASSUME TInv, NEW o \in Owners, LookedAfter(o)
    PROVE  /\ ownerCache[o] \in OwnerObjects /\ ownerCache[o].gen > 0 /\ ownerCache[o].gen \in 1..MaxGen
           /\ ownerCache[o].sel # None /\ DOMAIN ownerCache[o].sel \subseteq Replicas
  <1>1. ownerCache[o] \in OwnerObjects /\ ownerCache[o].gen > 0
    BY DEF TInv, TypeOK, ObjectsOK, LookedAfter
  <1>2. ownerCache[o].sel # None
    BY DEF LookedAfter, DesiredSlicesOK, jobsetSlices, lwsSlices
  <1>3. ownerCache[o].sel \in Selections \cup {None} /\ ownerCache[o].gen \in 0..MaxGen
    BY <1>1 DEF OwnerObjects
  <1> QED BY <1>1, <1>2, <1>3, SelectionsAssumption, OwnersAssumption

(* What was put right stays so while the Slices that are there stay and    *)
(* those that go are gone or going.                                        *)
LEMMA PutRightKept ==
    ASSUME TInv, NEW o \in Owners, LookedAfter(o), PutRight(o),
           ownerCache'[o] = ownerCache[o], ListSlices(o)' = ListSlices(o),
           \A s \in SliceNames : OwnerOf(s) = o => (Created(s) => Created(s)') /\ (Removed(s) => Removed(s)')
    PROVE  PutRight(o)'
  <1> DEFINE js       == ownerCache[o]
             existing == ListSlices(o)
  <1>1. /\ js \in OwnerObjects /\ js.gen > 0 /\ js.gen \in 1..MaxGen /\ js.sel # None
        /\ DOMAIN js.sel \subseteq Replicas /\ existing \in Slots
    BY LookedAfterTyped, ListTyped DEF TInv
  <1>2. \A r \in Missing(existing, o, js) : Created(SliceName(o, js.gen, r))'
    <2> HIDE DEF js, existing
    <2>1. \A r \in Missing(existing, o, js) : r \in Replicas
      BY <1>1 DEF Missing
    <2>2. \A r \in Missing(existing, o, js) : Created(SliceName(o, js.gen, r))
      BY DEF PutRight, js, existing
    <2>3. \A r \in Missing(existing, o, js) : /\ SliceName(o, js.gen, r) \in SliceNames
                                              /\ OwnerOf(SliceName(o, js.gen, r)) = o
      BY <1>1, <2>1, NameTyped
    <2>4. js' = js
      BY DEF js
    <2> QED BY <2>2, <2>3, <2>4 DEF Created
  <1>3. \A s \in ToRecreate(existing, o, js) : existing[s].deleting \/ Removed(s)'
    <2> HIDE DEF js, existing
    <2>1. \A s \in ToRecreate(existing, o, js) : s \in Found(existing, o, js)
      BY DEF ToRecreate, PartitionsChanged, RecreationMatches
    <2>2. \A s \in ToRecreate(existing, o, js) : s \in SliceNames /\ OwnerOf(s) = o
      BY <1>1, <2>1, FoundTyped
    <2>3. \A s \in ToRecreate(existing, o, js) : existing[s].deleting \/ Removed(s)
      BY DEF PutRight, js, existing
    <2> QED BY <2>2, <2>3
  <1>4. js' = js /\ existing' = existing
    OBVIOUS
  <1>5. InSyncMode(o, js) => js.susp = ~allSlicesReady(existing, o, js)
    BY DEF PutRight
  <1> HIDE DEF js, existing
  <1>6. /\ \A r \in Missing(existing', o, js') : Created(SliceName(o, js.gen, r))'
        /\ \A s \in ToRecreate(existing', o, js') : (existing')[s].deleting \/ Removed(s)'
        /\ InSyncMode(o, js') => js'.susp = ~allSlicesReady(existing', o, js')
    BY <1>2, <1>3, <1>4, <1>5
  <1> QED BY <1>4, <1>6 DEF PutRight, js, existing, Created

(* Nothing that happens elsewhere puts an owner to sleep.                  *)
LEMMA OwnerStaysAwake ==
    ASSUME TInv, Awake, NEW o \in Owners,
           o \in queue[KindOf(o)] => o \in queue'[KindOf(o)],
           Working(o) => Working(o)', NewsPending(o) => NewsPending(o)',
           ownerCache'[o] = ownerCache[o], ListSlices(o)' = ListSlices(o),
           \A s \in SliceNames : OwnerOf(s) = o => (Created(s) => Created(s)') /\ (Removed(s) => Removed(s)')
    PROVE  OwnerAwake(o)'
  <1>1. LookedAfter(o)' => LookedAfter(o)
    BY DEF LookedAfter
  <1>2. o \in queue[KindOf(o)] \/ Working(o) \/ (LookedAfter(o) => NewsPending(o) \/ PutRight(o))
    BY DEF Awake, OwnerAwake
  <1>3. LookedAfter(o) /\ PutRight(o) => PutRight(o)'
    BY PutRightKept
  <1> QED BY <1>1, <1>2, <1>3 DEF OwnerAwake

(* Nor does it spoil what a reconcile has read: unless the owner is queued *)
(* or its label is gone, it goes on from what the caches still show.       *)
LEMMA ReconcileStaysAwake ==
    ASSUME TInv, ReconcilesAwake, NEW k \in Kinds, rec[k].pc # "idle", rec'[k] = rec[k],
           rec[k].owner \in queue[k] => rec[k].owner \in queue'[k],
           owners[rec[k].owner].fin => owners'[rec[k].owner].fin,
           ownerCache'[rec[k].owner] = ownerCache[rec[k].owner],
           \A s \in SliceNames : OwnerOf(s) = rec[k].owner => sliceCache'[s] = sliceCache[s],
           \A s \in SliceNames : OwnerOf(s) = rec[k].owner => (Created(s) => Created(s)') /\ (Removed(s) => Removed(s)')
    PROVE  ReconcileAwake(k)'
  <1> DEFINE o  == rec[k].owner
             r  == rec[k]
             js == rec[k].js
             existing == rec[k].existing
  <1>0. ReconcileOK(k) /\ ReconcileAwake(k) /\ r \in Reconciles /\ o \in Owners
    BY DEF TInv, TypeOK, ReconcilesOK, ReconcilesAwake, ReconcileOK
  <1>1. ASSUME rec[k].pc = "apply", StillAsRead(k)
        PROVE  StillAsRead(k)'
    <2>1. /\ js \in OwnerObjects /\ js.gen > 0 /\ js.sel # None /\ existing \in Slots
      BY <1>0, <1>1 DEF Reconciles, ReconcileOK
    <2>2. js.gen \in 1..MaxGen /\ DOMAIN js.sel \subseteq Replicas
      BY <2>1, OwnersAssumption, SelectionsAssumption DEF OwnerObjects
    <2> HIDE DEF js, existing
    <2>3. \A i \in Missing(existing, o, js) : /\ SliceName(o, js.gen, i) \in SliceNames
                                              /\ OwnerOf(SliceName(o, js.gen, i)) = o
      BY <1>0, <2>1, <2>2, NameTyped DEF Missing
    <2>4. \A s \in ToRecreate(existing, o, js) : s \in SliceNames /\ OwnerOf(s) = o
      BY <1>0, <2>1, FoundTyped DEF ToRecreate, PartitionsChanged, RecreationMatches
    <2>5. ListSlices(o)' = ListSlices(o)
      BY DEF ListSlices
    <2>6. o' = o /\ js' = js /\ existing' = existing /\ r' = r
      BY DEF js, existing
    <2>7. \A i \in Missing(existing, o, js) :
              i \in r.toCreate \/ r.requeue \/ (slices'[SliceName(o, js.gen, i)] # None /\ ~slices'[SliceName(o, js.gen, i)].deleting)
      BY <1>1, <2>3 DEF StillAsRead, js, existing, Created
    <2>8. \A s \in ToRecreate(existing, o, js) :
              existing[s].deleting \/ s \in r.toDelete \/ r.requeue \/ Removed(s)'
      BY <1>1, <2>4 DEF StillAsRead, js, existing
    <2>9. /\ js = ownerCache[o] /\ existing = ListSlices(o)
          /\ r.toCreate \subseteq Missing(existing, o, js)
          /\ \A s \in r.toDelete : existing[s] # None
      BY <1>1 DEF StillAsRead, js, existing
    <2> QED BY <2>5, <2>6, <2>7, <2>8, <2>9 DEF StillAsRead, js, existing, Created
  <1> QED BY <1>0, <1>1 DEF ReconcileAwake

(* Steps outside one worker: the others' owners and reconciles stay awake. *)
LEMMA OthersAwake ==
    ASSUME TInv, Awake, ReconcilesAwake, NEW k \in Kinds, NEW o \in Owners, KindOf(o) = k,
           rec[k].pc = "idle" \/ rec[k].owner = o,
           rec'[k].pc = "idle" \/ rec'[k].owner = o,
           \A j \in Kinds \ {k} : rec'[j] = rec[j],
           \A j \in Kinds, u \in Owners : u # o /\ u \in queue[j] => u \in queue'[j],
           \A u \in Owners : u # o => owners'[u] = owners[u],
           \A s \in SliceNames : OwnerOf(s) # o => slices'[s] = slices[s],
           UNCHANGED <<ownerCache, sliceCache>>,
           OwnerAwake(o)', rec'[k].pc # "idle" => ReconcileAwake(k)'
    PROVE  Awake' /\ ReconcilesAwake'
  <1>1. ListSlices(o)' = ListSlices(o) /\ \A u \in Owners : ListSlices(u)' = ListSlices(u)
    BY DEF ListSlices
  <1>2. ASSUME NEW u \in Owners, u # o
        PROVE  OwnerAwake(u)'
    <2>1. Working(u) => Working(u)'
      BY <1>2, KindTyped DEF Working
    <2>2. NewsPending(u) => NewsPending(u)'
      BY <1>2 DEF NewsPending
    <2>3. \A s \in SliceNames : OwnerOf(s) = u => (Created(s) => Created(s)') /\ (Removed(s) => Removed(s)')
      BY <1>2 DEF Created, Removed
    <2>4. u \in queue[KindOf(u)] => u \in queue'[KindOf(u)]
      BY <1>2, KindTyped
    <2> QED BY <1>1, <2>1, <2>2, <2>3, <2>4, OwnerStaysAwake
  <1>3. ASSUME NEW j \in Kinds, j # k, rec'[j].pc # "idle"
        PROVE  ReconcileAwake(j)'
    <2>1. rec'[j] = rec[j] /\ rec[j].owner \in Owners /\ rec[j].owner # o
      BY <1>3 DEF TInv, ReconcilesOK, ReconcileOK
    <2>2. \A s \in SliceNames : OwnerOf(s) = rec[j].owner => (Created(s) => Created(s)') /\ (Removed(s) => Removed(s)')
      BY <2>1 DEF Created, Removed
    <2> QED BY <1>3, <2>1, <2>2, ReconcileStaysAwake
  <1> QED BY <1>2, <1>3 DEF Awake, ReconcilesAwake

(* A worker takes an owner: it turns away only from one not to be looked   *)
(* after, and otherwise starts from what the caches show.                  *)
LEMMA WakeBegin ==
    ASSUME WakeInv, NEW k \in Kinds, NEW o \in Owners,
           ReconcileNothing(k, o) \/ ReconcileCleansUp(k, o) \/ ReconcileFinalizes(k, o) \/ ReconcileApplies(k, o)
    PROVE  Awake' /\ ReconcilesAwake'
  <1> DEFINE js       == ownerCache[o]
             existing == ListSlices(o)
  <1>0. TInv /\ Awake /\ ReconcilesAwake
    BY DEF WakeInv, FInv
  <1>1. /\ rec[k].pc = "idle" /\ KindOf(o) = k /\ UNCHANGED <<owners, slices, ownerCache, sliceCache>>
        /\ \A j \in Kinds, u \in Owners : u # o /\ u \in queue[j] => u \in queue'[j]
    BY <1>0, BeginEffect, TakesEffect
  <1>2. /\ \A j \in Kinds \ {k} : rec'[j] = rec[j]
        /\ \/ /\ rec' = rec /\ ~Terminal(o, js)
              /\ Served(o, js) => ~DesiredSlicesOK(o, js.sel)
           \/ rec'[k].pc = "cleanup" /\ rec'[k].owner = o /\ rec'[k].js = js /\ Terminal(o, js)
           \/ rec'[k].pc = "finalize" /\ rec'[k].owner = o /\ ~js.fin
           \/ /\ rec'[k].pc = "apply" /\ rec'[k].owner = o /\ rec'[k].js = js
              /\ rec'[k].existing = existing /\ rec'[k].toCreate = Missing(existing, o, js)
              /\ \A s \in rec'[k].toDelete : existing[s] # None
              /\ \A s \in ToRecreate(existing, o, js) :
                    existing[s].deleting \/ s \in rec'[k].toDelete \/ rec'[k].requeue
    BY <1>0, BeginEffect
  <1>3. js' = js /\ existing' = existing
    BY <1>1 DEF ListSlices
  <1>4. CASE rec' = rec /\ (Served(o, js) => ~DesiredSlicesOK(o, js.sel))
    <2>1. ~LookedAfter(o)'
      BY <1>1, <1>4 DEF LookedAfter
    <2> QED BY <1>0, <1>1, <1>2, <1>4, <2>1, OthersAwake DEF OwnerAwake
  <1>5. CASE rec'[k].pc # "idle" /\ rec'[k].owner = o
    <2>1. OwnerAwake(o)'
      BY <1>1, <1>5 DEF OwnerAwake, Working
    <2>2. ReconcileAwake(k)'
      <3>1. CASE rec'[k].pc = "cleanup" /\ Terminal(o, js)
        BY <1>1, <1>5, <3>1 DEF ReconcileAwake, Terminal
      <3>2. CASE rec'[k].pc = "finalize" /\ ~js.fin
        BY <1>1, <1>5, <3>2 DEF ReconcileAwake
      <3>3. CASE /\ rec'[k].pc = "apply" /\ rec'[k].js = js
                 /\ rec'[k].existing = existing /\ rec'[k].toCreate = Missing(existing, o, js)
                 /\ \A s \in rec'[k].toDelete : existing[s] # None
                 /\ \A s \in ToRecreate(existing, o, js) :
                       existing[s].deleting \/ s \in rec'[k].toDelete \/ rec'[k].requeue
        <4> HIDE DEF js, existing
        <4>1. StillAsRead(k)'
          BY <1>1, <1>3, <1>5, <3>3 DEF StillAsRead, js, existing
        <4> QED BY <3>3, <4>1 DEF ReconcileAwake
      <3> QED BY <1>1, <1>2, <1>5, <3>1, <3>2, <3>3
    <2> QED BY <1>0, <1>1, <1>2, <1>5, <2>1, <2>2, OthersAwake
  <1> QED BY <1>2, <1>4, <1>5

(* A Slice is deleted.                                                     *)
LEMMA WakeDelete ==
    ASSUME WakeInv, NEW k \in Kinds, NEW s \in SliceNames, DeleteSlice(k, s) \/ CleanupSlice(k, s)
    PROVE  Awake' /\ ReconcilesAwake'
  <1> DEFINE js       == rec[k].js
             existing == rec[k].existing
  <1>0. TInv /\ Awake /\ ReconcilesAwake
    BY DEF WakeInv, FInv
  <1>a. PICK o \in Owners : o = rec[k].owner
    <2>1. rec[k].pc # "idle"
      BY <1>0, DeleteSliceEffect
    <2> QED BY <1>0, <2>1 DEF TInv, ReconcilesOK, ReconcileOK
  <1>1. /\ rec[k].pc \in {"apply", "cleanup"} /\ s \in rec[k].toDelete
        /\ \/ /\ rec'[k].pc = rec[k].pc /\ rec'[k].owner = o /\ rec'[k].js = js
              /\ rec'[k].existing = existing /\ rec'[k].toDelete = rec[k].toDelete \ {s}
              /\ rec'[k].toCreate = rec[k].toCreate /\ rec'[k].requeue = rec[k].requeue
              /\ queue' = queue
           \/ rec'[k] = Idle /\ o \in queue'[k]
        /\ \A j \in Kinds \ {k} : rec'[j] = rec[j]
        /\ \A j \in Kinds : queue[j] \subseteq queue'[j]
        /\ Removed(s)' /\ \A u \in SliceNames : u # s => slices'[u] = slices[u]
        /\ UNCHANGED <<owners, ownerCache, sliceCache>>
    BY <1>0, <1>a, DeleteSliceEffect
  <1>2. o \in Owners /\ KindOf(o) = k /\ OwnerOf(s) = o /\ ReconcileOK(k) /\ ReconcileAwake(k)
    BY <1>0, <1>a, <1>1 DEF TInv, ReconcilesOK, ReconcileOK, ReconcilesAwake
  <1>3. OwnerAwake(o)'
    <2>1. CASE o \in queue'[k]
      BY <1>1, <1>2, <2>1 DEF OwnerAwake
    <2>2. CASE rec'[k].pc # "idle" /\ rec'[k].owner = o
      BY <1>1, <1>2, <2>2 DEF OwnerAwake, Working
    <2> QED BY <1>1, <2>1, <2>2
  <1>4. ASSUME rec'[k].pc # "idle"
        PROVE  ReconcileAwake(k)'
    <2>1. rec'[k] # Idle
      BY <1>4, IdleIsIdle
    <2>2. ASSUME rec[k].pc = "apply", StillAsRead(k)
          PROVE  StillAsRead(k)'
      <3>1. /\ js = ownerCache[o] /\ existing = ListSlices(o)
            /\ rec[k].toCreate \subseteq Missing(existing, o, js)
            /\ \A u \in rec[k].toDelete : existing[u] # None
            /\ \A i \in Missing(existing, o, js) :
                  i \in rec[k].toCreate \/ rec[k].requeue \/ Created(SliceName(o, js.gen, i))
            /\ \A u \in ToRecreate(existing, o, js) :
                  existing[u].deleting \/ u \in rec[k].toDelete \/ rec[k].requeue \/ Removed(u)
        BY <1>a, <2>2 DEF StillAsRead
      <3>2. js \in OwnerObjects /\ js.gen > 0 /\ js.sel # None /\ existing \in Slots
        BY <1>0, <1>2, <2>2 DEF TInv, TypeOK, Reconciles, ReconcileOK
      <3>3. js.gen \in 1..MaxGen /\ DOMAIN js.sel \subseteq Replicas
        BY <3>2, OwnersAssumption, SelectionsAssumption DEF OwnerObjects
      <3>4. ListSlices(o)' = ListSlices(o)
        BY <1>1, <2>1 DEF ListSlices
      <3> HIDE DEF js, existing
      <3>5. \A i \in Missing(existing, o, js) : SliceName(o, js.gen, i) \in SliceNames /\ SliceName(o, js.gen, i) # s
        <4> SUFFICES ASSUME NEW i \in Missing(existing, o, js)
                     PROVE  SliceName(o, js.gen, i) \in SliceNames /\ SliceName(o, js.gen, i) # s
          OBVIOUS
        <4>1. i \in Replicas /\ lookupExistingSlice(existing, o, js.gen, i) = None
          BY <3>3 DEF Missing
        <4>2. SliceName(o, js.gen, i) \in SliceNames /\ SliceName(o, js.gen, i) # None
          BY <1>2, <3>3, <4>1, NameTyped
        <4>3. existing[SliceName(o, js.gen, i)] = None
          BY <4>1, <4>2 DEF lookupExistingSlice
        <4> QED BY <1>1, <3>1, <4>2, <4>3
      <3>6. \A i \in Missing(existing, o, js) :
                i \in rec[k].toCreate \/ rec[k].requeue
                \/ (slices'[SliceName(o, js.gen, i)] # None /\ ~slices'[SliceName(o, js.gen, i)].deleting)
        BY <1>1, <3>1, <3>5 DEF Created
      <3>7. \A u \in ToRecreate(existing, o, js) : u \in SliceNames
        BY <1>2, <3>2, FoundTyped DEF ToRecreate, PartitionsChanged, RecreationMatches
      <3>8. \A u \in ToRecreate(existing, o, js) :
                existing[u].deleting \/ u \in rec[k].toDelete \ {s} \/ rec[k].requeue \/ Removed(u)'
        BY <1>1, <3>1, <3>7 DEF Removed
      <3> QED BY <1>1, <2>1, <3>1, <3>4, <3>6, <3>8 DEF StillAsRead, Created, js, existing
    <2> QED BY <1>a, <1>1, <1>2, <2>1, <2>2 DEF ReconcileAwake
  <1>5. rec'[k].pc = "idle" \/ rec'[k].owner = o
    BY <1>1, IdleIsIdle
  <1>6. \A u \in SliceNames : OwnerOf(u) # o => slices'[u] = slices[u]
    BY <1>1, <1>2
  <1> QED BY <1>0, <1>a, <1>1, <1>2, <1>3, <1>4, <1>5, <1>6, OthersAwake

(* A Slice is created, or is skipped because of an overlap.                *)
LEMMA WakeCreate ==
    ASSUME WakeInv, NEW k \in Kinds, NEW i \in Replicas, CreateSlice(k, i) \/ SkipSlice(k, i)
    PROVE  Awake' /\ ReconcilesAwake'
  <1> DEFINE js       == rec[k].js
             existing == rec[k].existing
  <1>0. TInv /\ Awake /\ ReconcilesAwake
    BY DEF WakeInv, FInv
  <1>1. rec[k].pc = "apply" /\ i \in rec[k].toCreate
    BY DEF CreateSlice, SkipSlice
  <1>a. PICK o \in Owners : o = rec[k].owner
    BY <1>0, <1>1 DEF TInv, ReconcilesOK, ReconcileOK
  <1>2. KindOf(o) = k /\ ReconcileOK(k) /\ ReconcileAwake(k)
    BY <1>0, <1>a, <1>1 DEF TInv, ReconcilesOK, ReconcileOK, ReconcilesAwake
  <1>3. /\ js \in OwnerObjects /\ js.gen > 0 /\ js.sel # None /\ existing \in Slots
    BY <1>0, <1>1, <1>2 DEF TInv, TypeOK, Reconciles, ReconcileOK
  <1>4. js.gen \in 1..MaxGen /\ DOMAIN js.sel \subseteq Replicas
    BY <1>3, OwnersAssumption, SelectionsAssumption DEF OwnerObjects
  <1>5. StillAsRead(k) =>
            /\ js = ownerCache[o] /\ existing = ListSlices(o)
            /\ rec[k].toCreate \subseteq Missing(existing, o, js)
            /\ \A u \in rec[k].toDelete : existing[u] # None
            /\ \A r \in Missing(existing, o, js) :
                  r \in rec[k].toCreate \/ rec[k].requeue \/ Created(SliceName(o, js.gen, r))
            /\ \A u \in ToRecreate(existing, o, js) :
                  existing[u].deleting \/ u \in rec[k].toDelete \/ rec[k].requeue \/ Removed(u)
    BY <1>a DEF StillAsRead
  <1>6. CASE SkipSlice(k, i)
    <2>1. /\ rec'[k].pc = "apply" /\ rec'[k].owner = o /\ rec'[k].js = js
          /\ rec'[k].existing = existing /\ rec'[k].toDelete = rec[k].toDelete
          /\ rec'[k].toCreate = rec[k].toCreate \ {i} /\ rec'[k].requeue
          /\ \A j \in Kinds \ {k} : rec'[j] = rec[j]
          /\ UNCHANGED <<owners, slices, ownerCache, sliceCache, queue>>
      BY <1>0, <1>a, <1>6, SkipSliceEffect
    <2>2. OwnerAwake(o)'
      BY <1>2, <2>1 DEF OwnerAwake, Working
    <2>3. ListSlices(o)' = ListSlices(o)
      BY <2>1 DEF ListSlices
    <2>4. StillAsRead(k) => StillAsRead(k)'
      <3> HIDE DEF js, existing
      <3> QED BY <1>5, <2>1, <2>3 DEF StillAsRead
    <2>5. ReconcileAwake(k)'
      BY <1>a, <1>1, <1>2, <2>1, <2>4 DEF ReconcileAwake
    <2> QED BY <1>0, <1>a, <1>2, <2>1, <2>2, <2>5, OthersAwake
  <1>7. CASE CreateSlice(k, i)
    <2>a. PICK s \in SliceNames : s = SliceName(o, js.gen, i)
      BY <1>4, NameTyped
    <2>1. /\ \/ /\ rec'[k].pc = rec[k].pc /\ rec'[k].owner = o /\ rec'[k].js = js
                /\ rec'[k].existing = existing /\ rec'[k].toDelete = rec[k].toDelete
                /\ rec'[k].toCreate = rec[k].toCreate \ {i} /\ rec'[k].requeue = rec[k].requeue
                /\ queue' = queue
             \/ rec'[k] = Idle /\ o \in queue'[k]
          /\ \A j \in Kinds \ {k} : rec'[j] = rec[j]
          /\ \A j \in Kinds : queue[j] \subseteq queue'[j]
          /\ slices'[s] # None /\ ~slices'[s].deleting
          /\ OwnerOf(s) = o /\ \A u \in SliceNames : u # s => slices'[u] = slices[u]
          /\ UNCHANGED <<owners, ownerCache, sliceCache>>
      BY <1>0, <1>a, <1>7, <2>a, CreateSliceEffect
    <2>2. OwnerAwake(o)'
      BY <1>1, <1>2, <2>1 DEF OwnerAwake, Working
    <2>3. ASSUME rec'[k].pc # "idle"
          PROVE  ReconcileAwake(k)'
      <3>1. rec'[k] # Idle
        BY <2>3, IdleIsIdle
      <3>2. ASSUME StillAsRead(k)
            PROVE  StillAsRead(k)'
        <4>1. ListSlices(o)' = ListSlices(o)
          BY <2>1, <3>1 DEF ListSlices
        <4> HIDE DEF js, existing
        <4>2. existing[s] = None
          <5>1. lookupExistingSlice(existing, o, js.gen, i) = None
            BY <1>1, <1>5, <3>2 DEF Missing
          <5>2. s # None
            BY <2>a, NoneAssumption
          <5> QED BY <2>a, <5>1, <5>2 DEF lookupExistingSlice
        <4>3. \A r \in Missing(existing, o, js) : SliceName(o, js.gen, r) \in SliceNames
          BY <1>4, NameTyped DEF Missing
        <4>4. \A r \in Missing(existing, o, js) :
                r \in rec[k].toCreate \ {i} \/ rec[k].requeue
                \/ (slices'[SliceName(o, js.gen, r)] # None /\ ~slices'[SliceName(o, js.gen, r)].deleting)
          BY <1>5, <2>a, <2>1, <3>2, <4>3 DEF Created
        <4>5. \A u \in ToRecreate(existing, o, js) : u \in SliceNames /\ u # s
          BY <1>3, <4>2, FoundTyped DEF ToRecreate, PartitionsChanged, RecreationMatches
        <4>6. \A u \in ToRecreate(existing, o, js) :
                existing[u].deleting \/ u \in rec[k].toDelete \/ rec[k].requeue \/ Removed(u)'
          BY <1>5, <2>1, <3>2, <4>5 DEF Removed
        <4> QED BY <1>5, <2>1, <3>1, <3>2, <4>1, <4>4, <4>6 DEF StillAsRead, Created
      <3> QED BY <1>a, <1>1, <1>2, <2>1, <3>1, <3>2 DEF ReconcileAwake
    <2>4. rec'[k].pc = "idle" \/ rec'[k].owner = o
      BY <2>1, IdleIsIdle
    <2>5. \A u \in SliceNames : OwnerOf(u) # o => slices'[u] = slices[u]
      BY <2>1
    <2> QED BY <1>0, <1>a, <1>2, <2>1, <2>2, <2>3, <2>4, <2>5, OthersAwake
  <1> QED BY <1>6, <1>7

(* The patches of the owner: what they change is news to come.             *)
LEMMA WakePatch ==
    ASSUME WakeInv, NEW k \in Kinds, AddFinalizer(k) \/ handleSyncMode(k) \/ RemoveFinalizer(k)
    PROVE  Awake' /\ ReconcilesAwake'
  <1>0. TInv /\ Awake /\ ReconcilesAwake
    BY DEF WakeInv, FInv
  <1>1. rec[k].pc # "idle"
    BY DEF AddFinalizer, handleSyncMode, RemoveFinalizer
  <1>a. PICK o \in Owners : o = rec[k].owner
    BY <1>0, <1>1 DEF TInv, ReconcilesOK, ReconcileOK
  <1>2. /\ KindOf(o) = k
        /\ \/ o \in queue[k] \/ ~ownerCache[o].lab
           \/ rec[k].pc = "finalize" /\ ~ownerCache[o].fin
           \/ rec[k].pc = "cleanup" /\ ownerCache[o].phase # "active"
           \/ rec[k].pc = "apply" /\ ((owners[o].fin /\ ~ownerCache[o].fin) \/ rec[k].js = ownerCache[o])
    BY <1>0, <1>a, <1>1 DEF TInv, ReconcilesOK, ReconcileOK, ReconcilesAwake, ReconcileAwake, StillAsRead
  <1>3. CASE AddFinalizer(k)
    <2>1. /\ rec[k].pc = "finalize" /\ owners'[o].fin /\ \A u \in Owners \ {o} : owners'[u] = owners[u]
          /\ \/ rec'[k] = Idle
             \/ rec'[k].pc = "apply" /\ rec'[k].owner = o
          /\ \A j \in Kinds \ {k} : rec'[j] = rec[j]
          /\ \A j \in Kinds : queue[j] \subseteq queue'[j]
          /\ UNCHANGED <<slices, ownerCache, sliceCache>>
      BY <1>0, <1>a, <1>3, AddFinalizerEffect
    <2>2. OwnerAwake(o)'
      BY <1>2, <2>1 DEF OwnerAwake, LookedAfter, NewsPending
    <2>3. rec'[k].pc # "idle" => ReconcileAwake(k)'
      BY <1>2, <2>1, IdleIsIdle DEF ReconcileAwake
    <2>4. rec'[k].pc = "idle" \/ rec'[k].owner = o
      BY <2>1, IdleIsIdle
    <2> QED BY <1>0, <1>a, <1>2, <2>1, <2>2, <2>3, <2>4, OthersAwake
  <1>4. CASE handleSyncMode(k)
    <2>1. /\ rec[k].pc = "apply" /\ owners'[o].susp = ~rec[k].js.susp
          /\ owners'[o].fin = owners[o].fin /\ \A u \in Owners \ {o} : owners'[u] = owners[u]
          /\ rec'[k].pc = "idle" /\ \A j \in Kinds \ {k} : rec'[j] = rec[j]
          /\ \A j \in Kinds : queue[j] \subseteq queue'[j]
          /\ UNCHANGED <<slices, ownerCache, sliceCache>>
      BY <1>0, <1>a, <1>4, SyncModeEffect, IdleIsIdle
    <2>2. OwnerAwake(o)'
      <3>1. CASE o \in queue[k]
        BY <1>2, <2>1, <3>1 DEF OwnerAwake
      <3>2. CASE ~ownerCache[o].lab
        BY <1>2, <2>1, <3>2 DEF OwnerAwake, LookedAfter
      <3>3. CASE owners[o].fin /\ ~ownerCache[o].fin
        BY <1>2, <2>1, <3>3 DEF OwnerAwake, NewsPending
      <3>4. CASE rec[k].js = ownerCache[o]
        <4>1. owners'[o].susp # ownerCache'[o].susp
          BY <2>1, <3>4
        <4> QED BY <4>1 DEF OwnerAwake, NewsPending
      <3> QED BY <1>2, <2>1, <3>1, <3>2, <3>3, <3>4
    <2> QED BY <1>0, <1>a, <1>2, <2>1, <2>2, OthersAwake
  <1>5. CASE RemoveFinalizer(k)
    <2>1. /\ rec[k].pc = "cleanup" /\ \A u \in Owners \ {o} : owners'[u] = owners[u]
          /\ rec'[k].pc = "idle" /\ \A j \in Kinds \ {k} : rec'[j] = rec[j]
          /\ \A j \in Kinds : queue[j] \subseteq queue'[j]
          /\ UNCHANGED <<slices, ownerCache, sliceCache>>
      BY <1>0, <1>a, <1>5, RemoveFinalizerEffect, IdleIsIdle
    <2>2. OwnerAwake(o)'
      BY <1>2, <2>1 DEF OwnerAwake, LookedAfter
    <2> QED BY <1>0, <1>a, <1>2, <2>1, <2>2, OthersAwake
  <1> QED BY <1>3, <1>4, <1>5

(* A reconcile ends without a request: with nothing left to put right.     *)
LEMMA WakeEnds ==
    ASSUME WakeInv, NEW k \in Kinds, ReconcileEnds(k) \/ CleanupEnds(k) \/ RequestFails(k)
    PROVE  Awake' /\ ReconcilesAwake'
  <1>0. TInv /\ Awake /\ ReconcilesAwake
    BY DEF WakeInv, FInv
  <1>1. /\ rec[k].pc # "idle"
        /\ rec'[k].pc = "idle" /\ \A j \in Kinds \ {k} : rec'[j] = rec[j]
        /\ \A j \in Kinds : queue[j] \subseteq queue'[j]
        /\ RequestFails(k) \/ (ReconcileEnds(k) /\ rec[k].requeue) => rec[k].owner \in queue'[k]
        /\ UNCHANGED <<owners, slices, ownerCache, sliceCache>>
    BY <1>0, EndsEffect, IdleIsIdle
  <1>a. PICK o \in Owners : o = rec[k].owner
    BY <1>0, <1>1 DEF TInv, ReconcilesOK, ReconcileOK
  <1>2. KindOf(o) = k /\ ReconcileAwake(k)
    BY <1>0, <1>a, <1>1 DEF TInv, ReconcilesOK, ReconcileOK, ReconcilesAwake
  <1>3. OwnerAwake(o)'
    <2>1. CASE o \in queue'[k]
      BY <1>2, <2>1 DEF OwnerAwake
    <2>2. CASE ~ownerCache[o].lab \/ ownerCache[o].phase # "active"
      BY <1>1, <2>2 DEF OwnerAwake, LookedAfter
    <2>3. CASE owners[o].fin /\ ~ownerCache[o].fin
      BY <1>1, <2>3 DEF OwnerAwake, NewsPending
    <2>4. CASE ReconcileEnds(k) /\ StillAsRead(k) /\ ~rec[k].requeue
      <3>1. PutRight(o)
        <4> DEFINE js       == ownerCache[o]
                   existing == ListSlices(o)
        <4>1. /\ rec[k].toDelete = {} /\ rec[k].toCreate = {} /\ rec[k].js = js /\ rec[k].existing = existing
              /\ ~InSyncMode(o, js) \/ js.susp = ~allSlicesReady(existing, o, js)
              /\ \A r \in Missing(existing, o, js) : Created(SliceName(o, js.gen, r))
              /\ \A u \in ToRecreate(existing, o, js) : existing[u].deleting \/ Removed(u)
          BY <1>a, <2>4 DEF ReconcileEnds, SyncModeOK, StillAsRead
        <4> HIDE DEF js, existing
        <4> QED BY <4>1 DEF PutRight, js, existing
      <3>2. PutRight(o)'
        BY <1>1, <3>1 DEF PutRight, ListSlices, Created, Removed
      <3> QED BY <3>2 DEF OwnerAwake
    <2> QED
      BY <1>a, <1>1, <1>2, <2>1, <2>2, <2>3, <2>4 DEF ReconcileAwake, ReconcileEnds, CleanupEnds, RequestFails
  <1> QED BY <1>0, <1>a, <1>1, <1>2, <1>3, OthersAwake

(* Users and the JobSet controller: news to come is not taken back.        *)
LEMMA WakeOwnerStep ==
    ASSUME WakeInv, NEW o \in Owners, OwnerStep(o)
    PROVE  Awake' /\ ReconcilesAwake'
  <1>0. TInv /\ Awake /\ ReconcilesAwake
    BY DEF WakeInv, FInv
  <1>1. /\ owners' \in [Owners -> OwnerObjects]
        /\ \A u \in Owners \ {o} : owners'[u] = owners[u]
        /\ owners'[o].fin <=> owners[o].fin
        /\ owners'[o].gen >= owners[o].gen
        /\ owners'[o].gen = owners[o].gen =>
              /\ owners[o].phase = "none" => owners'[o].phase = "none"
              /\ owners'[o].phase = "none" \/ owners'[o].susp = owners[o].susp
        /\ UNCHANGED <<slices, ownerCache, sliceCache, queue, rec>>
    BY <1>0, OwnerStepEffect
  <1>2. ASSUME NEW u \in Owners
        PROVE  NewsPending(u) => NewsPending(u)'
    <2>1. CASE u # o
      BY <1>1, <2>1 DEF NewsPending
    <2>2. CASE u = o
      <3>1. /\ owners[o].gen \in 0..MaxGen /\ owners'[o].gen \in 0..MaxGen /\ ownerCache[o].gen \in 0..MaxGen
            /\ ownerCache[o].gen <= owners[o].gen
        BY <1>0, <1>1 DEF TInv, TypeOK, OwnerObjects, ObjectsOK
      <3>2. CASE owners'[o].gen = owners[o].gen
        BY <1>1, <2>2, <3>2 DEF NewsPending
      <3>3. CASE owners'[o].gen > owners[o].gen
        <4>1. owners'[o].gen # ownerCache[o].gen
          BY <3>1, <3>3, OwnersAssumption
        <4> QED BY <1>1, <2>2, <4>1 DEF NewsPending
      <3> QED BY <1>1, <3>1, <3>2, <3>3, OwnersAssumption
    <2> QED BY <2>1, <2>2
  <1>3. \A u \in Owners : ListSlices(u)' = ListSlices(u)
    BY <1>1 DEF ListSlices
  <1>4. \A s \in SliceNames : (Created(s) => Created(s)') /\ (Removed(s) => Removed(s)')
    BY <1>1 DEF Created, Removed
  <1>5. ASSUME NEW u \in Owners
        PROVE  OwnerAwake(u)'
    <2>1. Working(u) => Working(u)'
      BY <1>1 DEF Working
    <2> QED BY <1>0, <1>1, <1>2, <1>3, <1>4, <2>1, OwnerStaysAwake
  <1>6. ASSUME NEW k \in Kinds, rec[k].pc # "idle"
        PROVE  ReconcileAwake(k)'
    <2>1. rec[k].owner \in Owners
      BY <1>0, <1>6 DEF TInv, ReconcilesOK, ReconcileOK
    <2>2. owners[rec[k].owner].fin => owners'[rec[k].owner].fin
      BY <1>1, <2>1
    <2> QED BY <1>0, <1>1, <1>4, <1>6, <2>2, ReconcileStaysAwake
  <1> QED BY <1>1, <1>5, <1>6 DEF Awake, ReconcilesAwake

(* Informers: what they change in a cache queues the owner, unless it has  *)
(* lost its label.                                                         *)
LEMMA WakeSync ==
    ASSUME WakeInv, NEW o \in Owners,
           SyncOwner(o) \/ \E s \in SliceNames : SyncSlice(s) /\ OwnerOf(s) = o
    PROVE  Awake' /\ ReconcilesAwake'
  <1>0. TInv /\ Awake /\ ReconcilesAwake
    BY DEF WakeInv, FInv
  <1>1. /\ \A j \in Kinds : queue[j] \subseteq queue'[j]
        /\ o \in queue'[KindOf(o)] \/ ~ownerCache'[o].lab
        /\ UNCHANGED <<owners, slices, rec>>
    BY <1>0, SyncEffect
  <1>2. /\ \A u \in Owners : u # o => ownerCache'[u] = ownerCache[u]
        /\ \A s \in SliceNames : OwnerOf(s) # o => sliceCache'[s] = sliceCache[s]
    BY <1>0 DEF SyncOwner, SyncSlice, TInv, TypeOK, Slots
  <1>3. \A s \in SliceNames : (Created(s) => Created(s)') /\ (Removed(s) => Removed(s)')
    BY <1>1 DEF Created, Removed
  <1>4. ASSUME NEW u \in Owners, u # o
        PROVE  OwnerAwake(u)'
    <2>1. ListSlices(u)' = ListSlices(u)
      BY <1>2, <1>4 DEF ListSlices
    <2>2. (Working(u) => Working(u)') /\ (NewsPending(u) => NewsPending(u)')
      BY <1>1, <1>2, <1>4 DEF Working, NewsPending
    <2>3. u \in queue[KindOf(u)] => u \in queue'[KindOf(u)]
      BY <1>1, KindTyped
    <2> QED BY <1>0, <1>2, <1>3, <1>4, <2>1, <2>2, <2>3, OwnerStaysAwake
  <1>5. OwnerAwake(o)'
    BY <1>1 DEF OwnerAwake, LookedAfter
  <1>6. ASSUME NEW k \in Kinds, rec[k].pc # "idle"
        PROVE  ReconcileAwake(k)'
    <2>1. rec[k].owner \in Owners /\ KindOf(rec[k].owner) = k
      BY <1>0, <1>6 DEF TInv, ReconcilesOK, ReconcileOK
    <2>2. CASE rec[k].owner = o
      BY <1>1, <2>1, <2>2 DEF ReconcileAwake
    <2>3. CASE rec[k].owner # o
      <3>1. \A s \in SliceNames : OwnerOf(s) = rec[k].owner => sliceCache'[s] = sliceCache[s]
        BY <1>2, <2>3
      <3> QED BY <1>0, <1>1, <1>2, <1>3, <1>6, <2>1, <2>3, <3>1, ReconcileStaysAwake
    <2> QED BY <2>2, <2>3
  <1> QED BY <1>1, <1>4, <1>5, <1>6 DEF Awake, ReconcilesAwake

(* The slice controller.                                                   *)
LEMMA WakeSliceStep ==
    ASSUME WakeInv, NEW s \in SliceNames, SliceGone(s) \/ \E c \in Conditions : SliceStatus(s, c)
    PROVE  Awake' /\ ReconcilesAwake'
  <1>0. TInv /\ Awake /\ ReconcilesAwake
    BY DEF WakeInv, FInv
  <1>1. /\ \A u \in SliceNames : (Created(u) => Created(u)') /\ (Removed(u) => Removed(u)')
        /\ UNCHANGED <<owners, ownerCache, sliceCache, queue, rec>>
    BY <1>0, SliceStepEffect
  <1>2. ASSUME NEW u \in Owners
        PROVE  OwnerAwake(u)'
    <2>1. ListSlices(u)' = ListSlices(u) /\ (Working(u) => Working(u)') /\ (NewsPending(u) => NewsPending(u)')
      BY <1>1 DEF ListSlices, Working, NewsPending
    <2> QED BY <1>0, <1>1, <2>1, OwnerStaysAwake
  <1>3. ASSUME NEW k \in Kinds, rec[k].pc # "idle"
        PROVE  ReconcileAwake(k)'
    BY <1>0, <1>1, <1>3, ReconcileStaysAwake
  <1> QED BY <1>1, <1>2, <1>3 DEF Awake, ReconcilesAwake

(* After a restart every owner with the label is queued.                   *)
LEMMA WakeRestart ==
    ASSUME Restart
    PROVE  Awake' /\ ReconcilesAwake'
  <1>1. /\ \A k \in Kinds : rec'[k].pc = "idle" /\ queue'[k] \subseteq Owners
        /\ ownerCache' = owners
        /\ \A o \in Owners : owners[o].lab => o \in queue'[KindOf(o)]
    BY IdleIsIdle, KindTyped DEF Restart
  <1>2. \A o \in Owners : OwnerAwake(o)'
    BY <1>1 DEF OwnerAwake, LookedAfter
  <1> QED BY <1>1, <1>2 DEF Awake, ReconcilesAwake

(* No step puts an owner to sleep that has something left to be done.      *)
LEMMA WakeInvStep == WakeInv /\ [Next]_vars => WakeInv'
  <1> SUFFICES ASSUME WakeInv, [Next]_vars PROVE Awake' /\ ReconcilesAwake'
    BY FInvStep DEF WakeInv
  <1>1. ASSUME NEW k \in Kinds, Worker(k) PROVE Awake' /\ ReconcilesAwake'
    BY <1>1, WakeBegin, WakeDelete, WakeCreate, WakePatch, WakeEnds DEF Worker
  <1>2. CASE Kubernetes
    BY <1>2, WakeOwnerStep, WakeSync, WakeSliceStep, OwnerOfTyped DEF Kubernetes, OwnerStep
  <1>3. CASE UNCHANGED vars
    <2>1. \A u \in Owners : OwnerAwake(u)' <=> OwnerAwake(u)
      BY <1>3 DEF vars, OwnerAwake, Working, LookedAfter, NewsPending, PutRight, ListSlices, Created, Removed
    <2>2. \A k \in Kinds : ReconcileAwake(k)' <=> ReconcileAwake(k)
      BY <1>3 DEF vars, ReconcileAwake, StillAsRead, ListSlices, Created, Removed
    <2> QED BY <1>3, <2>1, <2>2 DEF vars, WakeInv, Awake, ReconcilesAwake
  <1> QED BY <1>1, <1>2, <1>3, WakeRestart DEF Next, Running

(* At the start every owner that exists is queued.                         *)
LEMMA WakeInvInit == Init => WakeInv
  <1> SUFFICES ASSUME Init PROVE Awake /\ ReconcilesAwake
    BY FInvInit DEF WakeInv
  <1>1. /\ \A k \in Kinds : rec[k].pc = "idle"
        /\ ownerCache = owners
        /\ \A o \in Owners : owners[o].phase # "none" => o \in queue[KindOf(o)]
    BY IdleIsIdle, KindTyped DEF Init
  <1>2. \A o \in Owners : OwnerAwake(o)
    BY <1>1 DEF OwnerAwake, LookedAfter
  <1> QED BY <1>1, <1>2 DEF Awake, ReconcilesAwake

(* With caches up to date, what the list of an owner's Slices shows is     *)
(* what is at the API server.                                              *)
LEMMA ListedAsIs ==
    ASSUME TInv, NEW o \in Owners, LookedAfter(o), sliceCache = slices
    PROVE  LET js == ownerCache[o]
           IN  /\ Missing(slices, o, js) = Missing(ListSlices(o), o, js)
               /\ ToRecreate(slices, o, js) = ToRecreate(ListSlices(o), o, js)
               /\ \A s \in ToRecreate(slices, o, js) : s \in SliceNames /\ slices[s] # None /\ ListSlices(o)[s] = slices[s]
               /\ allSlicesReady(slices, o, js) = allSlicesReady(ListSlices(o), o, js)
  <1> DEFINE js       == ownerCache[o]
             existing == ListSlices(o)
  <1>1. /\ js \in OwnerObjects /\ js.gen > 0 /\ js.gen \in 1..MaxGen /\ js.sel # None
        /\ DOMAIN js.sel \subseteq Replicas /\ slices \in Slots
    BY LookedAfterTyped DEF TInv, TypeOK
  <1>2. \A s \in SliceNames : OwnerOf(s) = o => existing[s] = slices[s]
    BY DEF ListSlices
  <1> HIDE DEF js, existing
  <1>3. \A r \in DOMAIN js.sel : lookupExistingSlice(slices, o, js.gen, r) = lookupExistingSlice(existing, o, js.gen, r)
    BY <1>1, <1>2, NameTyped DEF lookupExistingSlice
  <1>4. Missing(slices, o, js) = Missing(existing, o, js) /\ Found(slices, o, js) = Found(existing, o, js)
    BY <1>3 DEF Missing, Found
  <1>5. \A s \in Found(slices, o, js) : s \in SliceNames /\ slices[s] # None /\ existing[s] = slices[s]
    BY <1>1, <1>2, FoundTyped
  <1>6. /\ PartitionsChanged(slices, o, js) = PartitionsChanged(existing, o, js)
        /\ PartitionsChanged(slices, o, js) \subseteq Found(slices, o, js)
    BY <1>4, <1>5 DEF PartitionsChanged
  <1>7. /\ RecreationMatches(slices, o, js) = RecreationMatches(existing, o, js)
        /\ RecreationMatches(slices, o, js) \subseteq Found(slices, o, js)
    BY <1>4, <1>5, <1>6 DEF RecreationMatches
  <1>8. allSlicesReady(slices, o, js) <=> allSlicesReady(existing, o, js)
    <2>1. \A r \in DOMAIN js.sel :
             lookupExistingSlice(slices, o, js.gen, r) # None => lookupExistingSlice(slices, o, js.gen, r) \in Found(slices, o, js)
      BY DEF Found
    <2> QED BY <1>3, <1>5, <2>1 DEF allSlicesReady
  <1>9. allSlicesReady(slices, o, js) = allSlicesReady(existing, o, js)
    BY <1>8 DEF allSlicesReady
  <1> QED BY <1>4, <1>5, <1>6, <1>7, <1>9 DEF ToRecreate, js, existing

(* No wakeup is lost.  Whatever was read from stale caches, failed, or got *)
(* no answer, and wherever the process died: once nothing is under         *)
(* way or queued for an owner and the caches are up to date, each Slice it *)
(* asks for is there as asked or on its way out, and a JobSet in sync mode *)
(* is suspended exactly if some Slice is not ready.                        *)
THEOREM NoLostWakeup == Spec => []Converged
  <1>1. WakeInv => Converged
    <2> SUFFICES ASSUME WakeInv, NEW o \in Owners, Quiescent(o), owners[o].phase = "active", owners[o].lab,
                        Served(o, owners[o]), DesiredSlicesOK(o, owners[o].sel)
                 PROVE  /\ Missing(slices, o, owners[o]) = {}
                        /\ \A s \in ToRecreate(slices, o, owners[o]) : slices[s].deleting
                        /\ o \in SyncOwners => owners[o].susp = ~allSlicesReady(slices, o, owners[o])
      BY DEF Converged, ToRecreate
    <2> DEFINE js       == owners[o]
               existing == ListSlices(o)
    <2>0. TInv /\ OwnerAwake(o)
      BY DEF WakeInv, FInv, Awake
    <2>1. ownerCache[o] = js /\ sliceCache = slices /\ rec[KindOf(o)].pc = "idle" /\ o \notin queue[KindOf(o)]
      BY DEF Quiescent
    <2>2. LookedAfter(o)
      BY <2>1 DEF LookedAfter
    <2>3. PutRight(o)
      BY <2>0, <2>1, <2>2 DEF OwnerAwake, Working, NewsPending
    <2>4. /\ Missing(slices, o, js) = Missing(existing, o, js)
          /\ ToRecreate(slices, o, js) = ToRecreate(existing, o, js)
          /\ \A s \in ToRecreate(slices, o, js) : slices[s] # None /\ existing[s] = slices[s]
          /\ allSlicesReady(slices, o, js) = allSlicesReady(existing, o, js)
      BY <2>0, <2>1, <2>2, ListedAsIs
    <2>5. js.gen \in 1..MaxGen /\ DOMAIN js.sel \subseteq Replicas
      BY <2>0, <2>1, <2>2, LookedAfterTyped
    <2>6. /\ \A r \in Missing(existing, o, js) : Created(SliceName(o, js.gen, r))
          /\ \A s \in ToRecreate(existing, o, js) : existing[s].deleting \/ Removed(s)
          /\ InSyncMode(o, js) => js.susp = ~allSlicesReady(existing, o, js)
      BY <2>1, <2>3 DEF PutRight
    <2> HIDE DEF existing
    <2>7. Missing(slices, o, js) = {}
      <3> SUFFICES ASSUME NEW r \in Missing(slices, o, js) PROVE FALSE
        OBVIOUS
      <3>1. r \in Replicas /\ lookupExistingSlice(slices, o, js.gen, r) = None
        BY <2>5 DEF Missing
      <3>2. SliceName(o, js.gen, r) # None /\ slices[SliceName(o, js.gen, r)] # None
        BY <2>4, <2>5, <2>6, <3>1, NameTyped DEF Created
      <3> QED BY <3>1, <3>2 DEF lookupExistingSlice
    <2>8. \A s \in ToRecreate(slices, o, js) : slices[s].deleting
      BY <2>4, <2>6 DEF Removed
    <2>9. o \in SyncOwners => js.susp = ~allSlicesReady(slices, o, js)
      BY <2>4, <2>6 DEF InSyncMode
    <2> QED BY <2>7, <2>8, <2>9
  <1> QED BY <1>1, WakeInvInit, WakeInvStep, PTL DEF Spec

-----------------------------------------------------------------------------
(* Slices and the lists of them.                                           *)

(* A list stays right while the Slices of its owner and their cached       *)
(* copies stay as they are.                                                *)
LEMMA ListingUntouched ==
    ASSUME NEW k \in Kinds, ListingOK(k), rec'[k] = rec[k],
           \A s \in SliceNames : OwnerOf(s) = rec[k].owner => slices'[s] = slices[s] /\ sliceCache'[s] = sliceCache[s]
    PROVE  ListingOK(k)'
  BY DEF ListingOK, Removed

(* Steps of one worker leave the other's lists alone.                      *)
LEMMA OtherListings ==
    ASSUME ListInv, NEW k \in Kinds, NEW o \in Owners, KindOf(o) = k,
           \A j \in Kinds \ {k} : rec'[j] = rec[j],
           \A s \in SliceNames : OwnerOf(s) # o => slices'[s] = slices[s],
           UNCHANGED sliceCache,
           rec'[k].pc # "idle" => ListingOK(k)'
    PROVE  ListingsOK'
  <1>1. ASSUME NEW j \in Kinds \ {k}, rec'[j].pc # "idle"
        PROVE  ListingOK(j)'
    <2>1. rec[j].owner \in Owners /\ KindOf(rec[j].owner) = j /\ ListingOK(j) /\ rec'[j] = rec[j]
      BY <1>1 DEF ListInv, TInv, ReconcilesOK, ReconcileOK, ListingsOK
    <2>2. \A s \in SliceNames : OwnerOf(s) = rec[j].owner => slices'[s] = slices[s] /\ sliceCache'[s] = sliceCache[s]
      BY <2>1
    <2> QED BY <2>1, <2>2, ListingUntouched
  <1> QED BY <1>1 DEF ListingsOK

(* A worker reads the list of an owner's Slices.                           *)
LEMMA ListingBegin ==
    ASSUME ListInv, NEW k \in Kinds, NEW o \in Owners,
           ReconcileNothing(k, o) \/ ReconcileCleansUp(k, o) \/ ReconcileFinalizes(k, o) \/ ReconcileApplies(k, o)
    PROVE  SliceCacheOK' /\ ListingsOK'
  <1> DEFINE existing == ListSlices(o)
  <1>0. TInv /\ SliceCacheOK
    BY DEF ListInv
  <1>1. /\ rec[k].pc = "idle" /\ KindOf(o) = k /\ UNCHANGED <<slices, sliceCache>>
        /\ \A j \in Kinds \ {k} : rec'[j] = rec[j]
        /\ \/ rec' = rec
           \/ /\ rec'[k].pc # "idle" /\ rec'[k].owner = o /\ rec'[k].existing = existing
              /\ \A s \in rec'[k].toDelete : existing[s] # None
              /\ rec'[k].pc = "apply" => rec'[k].toCreate = Missing(existing, o, rec'[k].js)
              /\ rec'[k].pc = "cleanup" =>
                    \A s \in SliceNames : existing[s] # None => s \in rec'[k].toDelete \/ existing[s].deleting
    BY <1>0, BeginEffect, TakesEffect
  <1>2. /\ \A s \in SliceNames : OwnerOf(s) = o => existing[s] = sliceCache[s]
        /\ \A s \in SliceNames : existing[s] # None => OwnerOf(s) = o
    BY DEF ListSlices
  <1> HIDE DEF existing
  <1>3. SliceCacheOK'
    BY <1>0, <1>1 DEF SliceCacheOK, Removed
  <1>4. ASSUME rec'[k].pc # "idle"
        PROVE  ListingOK(k)'
    <2>0. /\ rec'[k].owner = o /\ rec'[k].existing = existing
          /\ \A s \in rec'[k].toDelete : existing[s] # None
          /\ rec'[k].pc = "apply" => rec'[k].toCreate = Missing(existing, o, rec'[k].js)
          /\ rec'[k].pc = "cleanup" =>
                \A s \in SliceNames : existing[s] # None => s \in rec'[k].toDelete \/ existing[s].deleting
      BY <1>1, <1>4
    <2>1. \A s \in SliceNames : OwnerOf(s) = o /\ existing[s] = None =>
              /\ slices[s] # None => ~slices[s].deleting
              /\ sliceCache[s] # None => slices[s] # None
      BY <1>0, <1>2 DEF SliceCacheOK
    <2>2. \A s \in SliceNames : OwnerOf(s) = o /\ existing[s] # None /\ slices[s] # None =>
              sliceCache[s] # None /\ slices[s].uid = existing[s].uid
      BY <1>0, <1>2 DEF SliceCacheOK
    <2>3. rec'[k].pc = "cleanup" =>
              \A s \in SliceNames : existing[s] # None => s \in rec'[k].toDelete \/ Removed(s)
      BY <1>0, <1>2, <2>0 DEF SliceCacheOK
    <2> QED BY <1>1, <1>2, <2>0, <2>1, <2>2, <2>3 DEF ListingOK, Removed
  <1> QED BY <1>0, <1>1, <1>3, <1>4, OtherListings

(* A Slice that is deleted is the one that was listed.                     *)
LEMMA ListingDelete ==
    ASSUME ListInv, NEW k \in Kinds, NEW s \in SliceNames, DeleteSlice(k, s) \/ CleanupSlice(k, s)
    PROVE  SliceCacheOK' /\ ListingsOK'
  <1>0. TInv /\ SliceCacheOK
    BY DEF ListInv
  <1>1. /\ rec[k].pc # "idle" /\ s \in rec[k].toDelete
        /\ \/ /\ rec'[k].pc = rec[k].pc /\ rec'[k].owner = rec[k].owner /\ rec'[k].js = rec[k].js
              /\ rec'[k].existing = rec[k].existing /\ rec'[k].toDelete = rec[k].toDelete \ {s}
              /\ rec'[k].toCreate = rec[k].toCreate
           \/ rec'[k].pc = "idle"
        /\ \A j \in Kinds \ {k} : rec'[j] = rec[j]
        /\ Removed(s)' /\ \A u \in SliceNames : u # s => slices'[u] = slices[u]
        /\ slices'[s] # None => slices[s] # None /\ slices'[s].uid = slices[s].uid
        /\ UNCHANGED sliceCache
    BY <1>0, DeleteSliceEffect, IdleIsIdle
  <1>a. PICK o \in Owners : o = rec[k].owner
    BY <1>0, <1>1 DEF TInv, ReconcilesOK, ReconcileOK
  <1>2. KindOf(o) = k /\ OwnerOf(s) = o /\ ListingOK(k) /\ rec[k].existing[s] # None
    BY <1>0, <1>a, <1>1 DEF ListInv, TInv, ReconcilesOK, ReconcileOK, ListingsOK, ListingOK
  <1>3. slices[s] # None => sliceCache[s] # None
    BY <1>a, <1>2 DEF ListingOK
  <1>4. SliceCacheOK'
    BY <1>0, <1>1, <1>3 DEF SliceCacheOK, Removed
  <1>5. ASSUME rec'[k].pc # "idle"
        PROVE  ListingOK(k)'
    <2>1. \A u \in SliceNames : rec[k].existing[u] # None => OwnerOf(u) = o
      BY <1>a, <1>2 DEF ListingOK
    <2>2. \A u \in SliceNames : OwnerOf(u) = o /\ rec[k].existing[u] = None =>
              /\ slices'[u] # None => ~slices'[u].deleting
              /\ sliceCache[u] # None => slices'[u] # None
      BY <1>a, <1>1, <1>2 DEF ListingOK
    <2>3. \A u \in SliceNames : OwnerOf(u) = o /\ rec[k].existing[u] # None /\ slices'[u] # None =>
              sliceCache[u] # None /\ slices'[u].uid = rec[k].existing[u].uid
      BY <1>a, <1>1, <1>2 DEF ListingOK
    <2>4. rec[k].pc = "cleanup" => \A u \in SliceNames : rec[k].existing[u] # None =>
              u \in rec[k].toDelete \ {s} \/ Removed(u)'
      BY <1>1, <1>2 DEF ListingOK, Removed
    <2> QED BY <1>a, <1>1, <1>2, <1>5, <2>1, <2>2, <2>3, <2>4 DEF ListingOK
  <1>6. \A u \in SliceNames : OwnerOf(u) # o => slices'[u] = slices[u]
    BY <1>1, <1>2
  <1> QED BY <1>1, <1>2, <1>4, <1>5, <1>6, OtherListings

(* A Slice is created only when the cache has none of the name.            *)
LEMMA ListingCreate ==
    ASSUME ListInv, NEW k \in Kinds, NEW i \in Replicas, CreateSlice(k, i)
    PROVE  SliceCacheOK' /\ ListingsOK'
  <1>0. TInv /\ SliceCacheOK
    BY DEF ListInv
  <1>a. PICK s : s = SliceName(rec[k].owner, rec[k].js.gen, i)
    OBVIOUS
  <1>1. /\ rec[k].pc = "apply" /\ i \in rec[k].toCreate
        /\ \/ /\ rec'[k].pc = rec[k].pc /\ rec'[k].owner = rec[k].owner /\ rec'[k].js = rec[k].js
              /\ rec'[k].existing = rec[k].existing /\ rec'[k].toDelete = rec[k].toDelete
              /\ rec'[k].toCreate = rec[k].toCreate \ {i}
           \/ rec'[k].pc = "idle"
        /\ \A j \in Kinds \ {k} : rec'[j] = rec[j]
        /\ s \in SliceNames /\ OwnerOf(s) = rec[k].owner
        /\ slices[s] = None /\ slices'[s] # None /\ ~slices'[s].deleting
        /\ \A u \in SliceNames : u # s => slices'[u] = slices[u]
        /\ UNCHANGED sliceCache
    BY <1>0, <1>a, CreateSliceEffect, IdleIsIdle
  <1>b. PICK o \in Owners : o = rec[k].owner
    BY <1>0, <1>1 DEF TInv, ReconcilesOK, ReconcileOK
  <1>2. KindOf(o) = k /\ ListingOK(k)
    BY <1>0, <1>b, <1>1 DEF ListInv, TInv, ReconcilesOK, ReconcileOK, ListingsOK
  <1>3. rec[k].existing[s] = None
    <2>1. lookupExistingSlice(rec[k].existing, rec[k].owner, rec[k].js.gen, i) = None
      BY <1>1, <1>2 DEF ListingOK, Missing
    <2>2. s # None
      BY <1>1, NoneAssumption
    <2> QED BY <1>a, <2>1, <2>2 DEF lookupExistingSlice
  <1>4. sliceCache[s] = None
    BY <1>1, <1>2, <1>3 DEF ListingOK
  <1>5. SliceCacheOK'
    BY <1>0, <1>1, <1>4 DEF SliceCacheOK, Removed
  <1>6. ASSUME rec'[k].pc # "idle"
        PROVE  ListingOK(k)'
    <2>1. \A u \in SliceNames : rec[k].existing[u] # None => OwnerOf(u) = o
      BY <1>b, <1>2 DEF ListingOK
    <2>2. \A u \in SliceNames : OwnerOf(u) = o /\ rec[k].existing[u] = None =>
              /\ slices'[u] # None => ~slices'[u].deleting
              /\ sliceCache[u] # None => slices'[u] # None
      BY <1>b, <1>1, <1>2 DEF ListingOK
    <2>3. \A u \in SliceNames : OwnerOf(u) = o /\ rec[k].existing[u] # None /\ slices'[u] # None =>
              sliceCache[u] # None /\ slices'[u].uid = rec[k].existing[u].uid
      BY <1>b, <1>1, <1>2, <1>3 DEF ListingOK
    <2>4. rec'[k].toCreate \subseteq Missing(rec'[k].existing, rec'[k].owner, rec'[k].js)
      BY <1>1, <1>2, <1>6 DEF ListingOK
    <2> QED BY <1>b, <1>1, <1>2, <1>6, <2>1, <2>2, <2>3, <2>4 DEF ListingOK
  <1>7. \A u \in SliceNames : OwnerOf(u) # o => slices'[u] = slices[u]
    BY <1>b, <1>1
  <1> QED BY <1>1, <1>2, <1>5, <1>6, <1>7, OtherListings

(* The other steps of a reconcile leave Slices and lists alone.            *)
LEMMA ListingOtherSteps ==
    ASSUME ListInv, NEW k \in Kinds,
           \/ AddFinalizer(k) \/ handleSyncMode(k) \/ RemoveFinalizer(k)
           \/ ReconcileEnds(k) \/ CleanupEnds(k) \/ RequestFails(k)
           \/ \E i \in Replicas : SkipSlice(k, i)
    PROVE  SliceCacheOK' /\ ListingsOK'
  <1>0. TInv /\ SliceCacheOK
    BY DEF ListInv
  <1>1. /\ rec[k].pc # "idle" /\ UNCHANGED <<slices, sliceCache>>
        /\ \A j \in Kinds \ {k} : rec'[j] = rec[j]
        /\ \/ rec'[k].pc = "idle"
           \/ /\ rec'[k].pc = "apply" /\ rec'[k].owner = rec[k].owner /\ rec'[k].existing = rec[k].existing
              /\ \/ /\ rec'[k].toCreate = Missing(rec'[k].existing, rec'[k].owner, rec'[k].js)
                    /\ \A s \in rec'[k].toDelete : rec'[k].existing[s] # None
                 \/ /\ rec[k].pc = "apply" /\ rec'[k].js = rec[k].js
                    /\ rec'[k].toDelete = rec[k].toDelete /\ rec'[k].toCreate \subseteq rec[k].toCreate
    <2>1. CASE AddFinalizer(k)
      BY <1>0, <2>1, AddFinalizerEffect, IdleIsIdle
    <2>2. CASE handleSyncMode(k)
      BY <1>0, <2>2, SyncModeEffect, IdleIsIdle
    <2>3. CASE RemoveFinalizer(k)
      BY <1>0, <2>3, RemoveFinalizerEffect, IdleIsIdle
    <2>4. CASE ReconcileEnds(k) \/ CleanupEnds(k) \/ RequestFails(k)
      BY <1>0, <2>4, EndsEffect, IdleIsIdle
    <2>5. ASSUME NEW i \in Replicas, SkipSlice(k, i)
          PROVE  /\ rec[k].pc = "apply" /\ UNCHANGED <<slices, sliceCache>>
                 /\ \A j \in Kinds \ {k} : rec'[j] = rec[j]
                 /\ rec'[k].pc = "apply" /\ rec'[k].owner = rec[k].owner /\ rec'[k].existing = rec[k].existing
                 /\ rec'[k].js = rec[k].js /\ rec'[k].toDelete = rec[k].toDelete
                 /\ rec'[k].toCreate = rec[k].toCreate \ {i}
      BY <1>0, <2>5, SkipSliceEffect
    <2>6. CASE \E i \in Replicas : SkipSlice(k, i)
      BY <2>5, <2>6
    <2> QED BY <2>1, <2>2, <2>3, <2>4, <2>6
  <1>a. PICK o \in Owners : o = rec[k].owner /\ KindOf(o) = k
    BY <1>0, <1>1 DEF TInv, ReconcilesOK, ReconcileOK
  <1>2. ListingOK(k)
    BY <1>1 DEF ListInv, ListingsOK
  <1>3. SliceCacheOK'
    BY <1>0, <1>1 DEF SliceCacheOK, Removed
  <1>4. ASSUME rec'[k].pc # "idle"
        PROVE  ListingOK(k)'
    <2>1. /\ \A s \in rec'[k].toDelete : rec'[k].existing[s] # None
          /\ rec'[k].toCreate \subseteq Missing(rec'[k].existing, rec'[k].owner, rec'[k].js)
      BY <1>1, <1>2, <1>4 DEF ListingOK
    <2>2. rec'[k].pc = "apply" /\ rec'[k].owner = rec[k].owner /\ rec'[k].existing = rec[k].existing
      BY <1>1, <1>4
    <2> QED BY <1>1, <1>2, <2>1, <2>2 DEF ListingOK
  <1> QED BY <1>a, <1>1, <1>3, <1>4, OtherListings

(* A Slice goes only after its deletion, which the cache and the lists     *)
(* that miss it have not seen; what informers deliver is up to date.       *)
LEMMA ListingKubernetes ==
    ASSUME ListInv, Kubernetes
    PROVE  SliceCacheOK' /\ ListingsOK'
  <1>0. TInv /\ SliceCacheOK /\ ListingsOK /\ sliceCache \in Slots /\ slices \in Slots
    BY DEF ListInv, TInv, TypeOK
  <1>1. CASE UNCHANGED <<slices, sliceCache, rec>>
    <2>1. SliceCacheOK'
      BY <1>0, <1>1 DEF SliceCacheOK, Removed
    <2>2. ListingsOK'
      BY <1>0, <1>1, ListingUntouched DEF ListingsOK
    <2> QED BY <2>1, <2>2
  <1>2. ASSUME NEW s \in SliceNames, SyncSlice(s)
        PROVE  SliceCacheOK' /\ ListingsOK'
    <2>1. /\ sliceCache'[s] = slices[s] /\ \A u \in SliceNames : u # s => sliceCache'[u] = sliceCache[u]
          /\ UNCHANGED <<slices, rec>>
      BY <1>0, <1>2 DEF SyncSlice, Slots
    <2>2. SliceCacheOK'
      BY <1>0, <2>1 DEF SliceCacheOK, Removed
    <2>3. ASSUME NEW k \in Kinds, rec[k].pc # "idle"
          PROVE  ListingOK(k)'
      <3>1. ListingOK(k) /\ rec'[k] = rec[k]
        BY <1>0, <2>1, <2>3 DEF ListingsOK
      <3> QED BY <2>1, <3>1 DEF ListingOK, Removed
    <2> QED BY <2>1, <2>2, <2>3 DEF ListingsOK
  <1>3. ASSUME NEW s \in SliceNames, SliceGone(s) \/ \E c \in Conditions : SliceStatus(s, c)
        PROVE  SliceCacheOK' /\ ListingsOK'
    <2>1. /\ \A u \in SliceNames : (Created(u) => Created(u)') /\ (Removed(u) => Removed(u)')
          /\ \A u \in SliceNames : slices'[u] # None =>
                /\ slices[u] # None /\ slices'[u].uid = slices[u].uid
                /\ slices'[u].deleting <=> slices[u].deleting
          /\ UNCHANGED <<sliceCache, rec>>
      BY <1>0, <1>3, SliceStepEffect
    <2>2. SliceCacheOK'
      BY <1>0, <2>1 DEF SliceCacheOK
    <2>3. ASSUME NEW k \in Kinds, rec[k].pc # "idle"
          PROVE  ListingOK(k)'
      <3>1. ListingOK(k) /\ rec'[k] = rec[k]
        BY <1>0, <2>1, <2>3 DEF ListingsOK
      <3>2. \A u \in SliceNames : OwnerOf(u) = rec[k].owner /\ rec[k].existing[u] = None =>
                /\ slices'[u] # None => ~slices'[u].deleting
                /\ sliceCache[u] # None => slices'[u] # None
        BY <2>1, <3>1 DEF ListingOK, Created
      <3>3. \A u \in SliceNames : OwnerOf(u) = rec[k].owner /\ rec[k].existing[u] # None /\ slices'[u] # None =>
                sliceCache[u] # None /\ slices'[u].uid = rec[k].existing[u].uid
        BY <2>1, <3>1 DEF ListingOK
      <3>4. rec[k].pc = "cleanup" =>
                \A u \in SliceNames : rec[k].existing[u] # None => u \in rec[k].toDelete \/ Removed(u)'
        BY <2>1, <3>1 DEF ListingOK
      <3> QED BY <2>1, <3>1, <3>2, <3>3, <3>4 DEF ListingOK
    <2> QED BY <2>1, <2>2, <2>3 DEF ListingsOK
  <1>4. ASSUME NEW o \in Owners, OwnerStep(o) \/ SyncOwner(o)
        PROVE  UNCHANGED <<slices, sliceCache, rec>>
    BY <1>0, <1>4, OwnerStepEffect DEF SyncOwner
  <1> QED BY <1>1, <1>2, <1>3, <1>4 DEF Kubernetes, OwnerStep

(* The invariant is inductive.                                             *)
LEMMA ListInvStep == ListInv /\ [Next]_vars => ListInv'
  <1> SUFFICES ASSUME ListInv, [Next]_vars PROVE SliceCacheOK' /\ ListingsOK'
    BY TInvStep DEF ListInv
  <1>1. ASSUME NEW k \in Kinds, Worker(k) PROVE SliceCacheOK' /\ ListingsOK'
    BY <1>1, ListingBegin, ListingDelete, ListingCreate, ListingOtherSteps DEF Worker
  <1>2. CASE Restart
    BY <1>2, IdleIsIdle DEF Restart, SliceCacheOK, Removed, ListingsOK
  <1>3. CASE UNCHANGED vars
    <2>1. SliceCacheOK'
      BY <1>3 DEF vars, ListInv, SliceCacheOK, Removed
    <2>2. ListingsOK'
      BY <1>3, ListingUntouched DEF vars, ListInv, ListingsOK
    <2> QED BY <2>1, <2>2
  <1> QED BY <1>1, <1>2, <1>3, ListingKubernetes DEF Next, Running

(* It holds at the start: caches are fresh and nothing is under way.       *)
LEMMA ListInvInit == Init => ListInv
  BY TInvInit, IdleIsIdle DEF Init, ListInv, SliceCacheOK, Removed, ListingsOK

(* A DELETE by name reaches the Slice that was listed and judged, or none: *)
(* no other Slice comes to have its name while the request is on its way.  *)
THEOREM ListedSliceDeleted == Spec => []DeletesWhatItRead
  <1>1. ListInv => DeletesWhatItRead
    <2> SUFFICES ASSUME ListInv, NEW k \in Kinds, rec[k].pc # "idle",
                        NEW s \in rec[k].toDelete, slices[s] # None
                 PROVE  slices[s].uid = rec[k].existing[s].uid
      BY DEF DeletesWhatItRead
    <2>1. ListingOK(k) /\ rec[k] \in Reconciles /\ OwnerOf(s) = rec[k].owner
      BY DEF ListInv, ListingsOK, TInv, TypeOK, ReconcilesOK, ReconcileOK
    <2>2. s \in SliceNames
      BY <2>1 DEF Reconciles
    <2> QED BY <2>1, <2>2 DEF ListingOK
  <1> QED BY <1>1, ListInvInit, ListInvStep, PTL DEF Spec

(* Only the worker that cleans up after an owner takes its finalizer.      *)
LEMMA FinalizerTaken ==
    ASSUME TInv, [Next]_vars, NEW k \in Kinds, rec[k].pc = "cleanup",
           owners[rec[k].owner].fin, ~owners'[rec[k].owner].fin
    PROVE  RemoveFinalizer(k)
  <1>a. PICK o \in Owners : o = rec[k].owner /\ KindOf(o) = k
    BY DEF TInv, ReconcilesOK, ReconcileOK
  <1>0. owners[o].fin /\ ~owners'[o].fin
    BY <1>a
  <1>1. ~UNCHANGED owners
    BY <1>0
  <1>2. ASSUME NEW u \in Owners, OwnerStep(u) PROVE FALSE
    <2>1. owners'[u].fin <=> owners[u].fin
      BY <1>2, OwnerStepEffect
    <2>2. \A v \in Owners \ {u} : owners'[v] = owners[v]
      BY <1>2, OwnerStepEffect
    <2> QED BY <1>0, <2>1, <2>2
  <1>3. ~Kubernetes
    BY <1>1, <1>2 DEF Kubernetes, OwnerStep, SyncOwner, SliceGone, SyncSlice, SliceStatus
  <1>4. ASSUME NEW j \in Kinds, AddFinalizer(j) \/ handleSyncMode(j) \/ RemoveFinalizer(j)
        PROVE  j = k
    <2>1. rec[j].pc # "idle" /\ \A u \in Owners \ {rec[j].owner} : owners'[u] = owners[u]
      BY <1>4, AddFinalizerEffect, SyncModeEffect, RemoveFinalizerEffect
    <2>2. rec[j].owner = o
      BY <1>a, <1>0, <2>1
    <2> QED BY <1>a, <2>1, <2>2, OwnWorker
  <1>5. ASSUME NEW j \in Kinds, Worker(j)
        PROVE  AddFinalizer(j) \/ handleSyncMode(j) \/ RemoveFinalizer(j)
    BY <1>1, <1>5 DEF Worker, ReconcileNothing, ReconcileCleansUp, ReconcileFinalizes, ReconcileApplies, Takes,
                      DeleteSlice, CleanupSlice, SkipSlice, CreateSlice, ReconcileEnds, CleanupEnds, RequestFails
  <1>6. ~AddFinalizer(k) /\ ~handleSyncMode(k)
    BY DEF AddFinalizer, handleSyncMode
  <1>7. PICK j \in Kinds : Worker(j)
    BY <1>1, <1>3 DEF Next, Running, Restart, vars
  <1> QED BY <1>4, <1>5, <1>6, <1>7

(* The finalizer goes last: when an owner loses it, each Slice that the    *)
(* cleanup has listed is gone or has its DeletionTimestamp.                *)
THEOREM FinalizerGoesLast == Spec => FinalizerOutlivesListedSlices
  <1> DEFINE Listed(k) == \A s \in SliceNames : rec[k].existing[s] # None => slices[s] = None \/ slices[s].deleting
             Loses(k)  == rec[k].pc = "cleanup" /\ owners[rec[k].owner].fin /\ ~owners'[rec[k].owner].fin
  <1>1. ListInv /\ [Next]_vars => [\A k \in Kinds : Loses(k) => Listed(k)]_vars
    <2> SUFFICES ASSUME ListInv, [Next]_vars, NEW k \in Kinds, Loses(k)
                 PROVE  Listed(k)
      OBVIOUS
    <2>1. TInv /\ ListingOK(k)
      BY DEF ListInv, ListingsOK
    <2>2. RemoveFinalizer(k)
      BY <2>1, FinalizerTaken
    <2>3. rec[k].pc = "cleanup" /\ rec[k].toDelete = {}
      BY <2>2 DEF RemoveFinalizer
    <2> QED BY <2>1, <2>3 DEF ListingOK, Removed
  <1>2. Spec => []ListInv /\ [][Next]_vars
    BY ListInvInit, ListInvStep, PTL DEF Spec
  <1>3. Spec => [][\A k \in Kinds : Loses(k) => Listed(k)]_vars
    BY <1>1, <1>2, PTL
  <1> QED BY <1>3 DEF FinalizerOutlivesListedSlices
=============================================================================
