------------------------------- MODULE Slices -------------------------------
(***************************************************************************)
(* Slice provisioning: the JobSet slice reconciler                         *)
(* (jobset_slice_controller.go) and the LeaderWorkerSet slice reconciler   *)
(* (lws_slice_controller.go), with what they share (slice_shared.go).      *)
(* Each has one worker (MaxConcurrentReconciles is left at 1), and the two *)
(* run side by side.  A reconcile reads its owner and the owner's Slices   *)
(* from informer caches that lag behind the API server, and then sends its *)
(* requests one by one: each request is a step, and may fail, or be        *)
(* carried out and still answer with an error.                             *)
(*                                                                         *)
(* Time is abstracted: whether conditionalRecreateWait is over for a Slice *)
(* is a choice at each reconcile, and an item with a RequeueAfter or a     *)
(* backoff stays in the queue until the worker takes it.  The cached reads *)
(* of one overlap check are one step.                                      *)
(***************************************************************************)
EXTENDS Naturals, Sequences

CONSTANTS
    JobSets,       \* names of JobSets with slice provisioning
    LWSs,          \* names of LeaderWorkerSets with slice provisioning
    SyncOwners,    \* those in "sync" provisioning mode
    MayUnlabel,    \* those whose slice provisioning label users take away
    LegacyOwners,  \* those with names so long that the older release named their Slices differently
    Replicas,      \* (replicated job, index) pairs, or the components of a LeaderWorkerSet
    Partitions,    \* partition ids
    Selections,    \* desired Slices: partition lists by replica; None: the annotation does not parse
    Conditions,    \* Ready conditions the slice controller reports (see SliceObjects)
    TreatUnknownActiveSliceAsReady,
    MaxGen,        \* bound: times an owner of one name is created
    None

Owners == JobSets \cup LWSs

Kinds == {"jobset", "leaderworkerset"}

KindOf(o) == IF o \in JobSets THEN "jobset" ELSE "leaderworkerset"

ASSUME OwnersAssumption ==
    /\ JobSets \cap LWSs = {}
    /\ SyncOwners \subseteq Owners
    /\ LegacyOwners \subseteq Owners
    /\ MayUnlabel \subseteq Owners
    /\ Conditions \subseteq {"ready", "active", "failed", "other"}
    /\ MaxGen \in Nat \ {0}
    /\ TreatUnknownActiveSliceAsReady \in BOOLEAN
    /\ None \notin Owners

ASSUME SelectionsAssumption ==
    \A sel \in Selections \ {None} :
        /\ DOMAIN sel \subseteq Replicas
        /\ \A r \in DOMAIN sel : sel[r] \in Seq(Partitions)

(* gen stands for the UID: it tells apart the objects that have had one    *)
(* name.  "deleting" is a DeletionTimestamp.  lab: it has the slice         *)
(* provisioning label (SliceProvisioningEnabled).                          *)
OwnerObjects == [phase : {"none", "active", "ended", "deleting"},
                 gen   : 0..MaxGen,
                 fin   : BOOLEAN,
                 susp  : BOOLEAN,
                 lab   : BOOLEAN,
                 sel   : Selections \cup {None}]

NoOwner == [phase |-> "none", gen |-> 0, fin |-> FALSE, susp |-> FALSE, lab |-> FALSE, sel |-> None]

(* SliceName, LegacySliceName, LWSSliceName, LegacyLWSSliceName: what goes *)
(* into the name of a Slice.                                               *)
SliceName(o, g, r)       == <<o, g, r, "new">>
LegacySliceName(o, g, r) == <<o, g, r, "legacy">>
SliceNames == Owners \X (1..MaxGen) \X Replicas \X {"new", "legacy"}

OwnerOf(s) == s[1]

(* uid tells apart the Slices that have had one name (see FreshUID).  cond *)
(* is the Ready condition: True, Unknown with reason ACTIVE, a reason that *)
(* RecreateConditions lists, or anything else.                             *)
SliceUIDs == 0..3

SliceObjects == [uid : SliceUIDs, parts : Seq(Partitions), cond : {"ready", "active", "failed", "other"}, deleting : BOOLEAN]

ASSUME NoneAssumption == None \notin SliceNames /\ None \notin SliceObjects

Range(seq) == {seq[i] : i \in DOMAIN seq}

VARIABLES
    owners,      \* JobSets and LeaderWorkerSets, at the API server
    slices,      \* Slices, at the API server
    ownerCache,  \* the informers' copies
    sliceCache,
    queue,       \* the workqueue of each reconciler
    rec          \* the reconcile each worker is in

vars == <<owners, slices, ownerCache, sliceCache, queue, rec>>

Slots == [SliceNames -> SliceObjects \cup {None}]

(* A reconcile: the owner and its Slices as read, and what is still to do. *)
Reconciles == [pc       : {"idle", "finalize", "apply", "cleanup"},
               owner    : Owners \cup {None},
               js       : OwnerObjects,
               existing : Slots,
               toDelete : SUBSET SliceNames,
               toCreate : SUBSET Replicas,
               requeue  : BOOLEAN]

Idle == [pc |-> "idle", owner |-> None, js |-> NoOwner, existing |-> [s \in SliceNames |-> None],
         toDelete |-> {}, toCreate |-> {}, requeue |-> FALSE]

TypeOK ==
    /\ owners \in [Owners -> OwnerObjects]
    /\ ownerCache \in [Owners -> OwnerObjects]
    /\ slices \in Slots
    /\ sliceCache \in Slots
    /\ queue \in [Kinds -> SUBSET Owners]
    /\ rec \in [Kinds -> Reconciles]

(* The cluster is empty, or an owner that the older release has served is  *)
(* already there with its Slices.                                          *)
Init ==
    /\ owners \in [Owners -> {NoOwner} \cup [phase : {"active"}, gen : {1}, fin : {TRUE},
                                              susp : {FALSE}, lab : {TRUE}, sel : Selections \ {None}]]
    /\ \A o \in Owners \ LegacyOwners : owners[o] = NoOwner
    /\ slices = [s \in SliceNames |->
                    LET js == owners[OwnerOf(s)]
                    IN  IF js.phase = "active" /\ s[2] = js.gen /\ s[3] \in DOMAIN js.sel /\ s[4] = "legacy"
                        THEN [uid |-> 0, parts |-> js.sel[s[3]], cond |-> "ready", deleting |-> FALSE]
                        ELSE None]
    /\ ownerCache = owners /\ sliceCache = slices
    /\ queue = [k \in Kinds |-> {o \in Owners : KindOf(o) = k /\ owners[o].phase # "none"}]
    /\ rec = [k \in Kinds |-> Idle]

-----------------------------------------------------------------------------
(* What the reconcilers compute from what they read.                       *)

(* Whether the desired Slices can be computed: the annotation parses, and, *)
(* for a JobSet only, no partition is named twice.                         *)
jobsetSlices(sel) ==
    /\ sel # None
    /\ \A r \in DOMAIN sel : \A i, j \in DOMAIN sel[r] : i # j => sel[r][i] # sel[r][j]
    /\ \A r, q \in DOMAIN sel : r # q => Range(sel[r]) \cap Range(sel[q]) = {}

lwsSlices(sel) == sel # None

DesiredSlicesOK(o, sel) == IF o \in JobSets THEN jobsetSlices(sel) ELSE lwsSlices(sel)

(* The owner's Slices, by label: those of an earlier object of the same    *)
(* name too.                                                               *)
ListSlices(o) == [s \in SliceNames |-> IF OwnerOf(s) = o THEN sliceCache[s] ELSE None]

(* The name under which the Slice of replica r exists, None if it does not. *)
lookupExistingSlice(existing, o, g, r) ==
    IF existing[SliceName(o, g, r)] # None THEN SliceName(o, g, r)
    ELSE IF o \in LegacyOwners /\ existing[LegacySliceName(o, g, r)] # None
         THEN LegacySliceName(o, g, r) ELSE None

isSliceReady(slice) ==
    \/ slice.cond = "ready"
    \/ TreatUnknownActiveSliceAsReady /\ ~slice.deleting /\ slice.cond = "active"

allSlicesReady(existing, o, js) ==
    \A r \in DOMAIN js.sel :
        LET s == lookupExistingSlice(existing, o, js.gen, r)
        IN  s # None /\ isSliceReady(existing[s])

(* diffSlices.  A Slice in a state to be recreated is deleted only once    *)
(* conditionalRecreateWait is over for it.                                 *)
Found(existing, o, js) ==
    {lookupExistingSlice(existing, o, js.gen, r) : r \in DOMAIN js.sel} \ {None}

Missing(existing, o, js) ==
    {r \in DOMAIN js.sel : lookupExistingSlice(existing, o, js.gen, r) = None}

PartitionsChanged(existing, o, js) ==
    {s \in Found(existing, o, js) : existing[s].parts # js.sel[s[3]]}

RecreationMatches(existing, o, js) ==
    {s \in Found(existing, o, js) \ PartitionsChanged(existing, o, js) : existing[s].cond = "failed"}

-----------------------------------------------------------------------------
(* Steps of a reconcile.                                                   *)

(* Mutant: the owner to queue is read after the record was reset.          *)
FinishQueuesNobody(k, again) ==
    /\ rec' = [rec EXCEPT ![k] = Idle]
    /\ queue' = IF again THEN [queue EXCEPT ![k] = @ \cup {Idle.owner}] ELSE queue

(* Reconcile returns; again: with an error or a RequeueAfter.              *)
Finish(k, again) ==
    /\ rec' = [rec EXCEPT ![k] = Idle]
    /\ queue' = IF again THEN [queue EXCEPT ![k] = @ \cup {rec[k].owner}] ELSE queue

(* The answer to a request that the API server has carried out: the        *)
(* reconcile goes on as r, or gets an error (a lost answer) and ends.      *)
Answered(k, r) ==
    \/ rec' = [rec EXCEPT ![k] = r] /\ UNCHANGED queue
    \/ Finish(k, TRUE)

(* Mutant: a Slice that is deleted is created again in the same reconcile. *)
PlansRecreate(o, js, existing) ==
    {[pc |-> "apply", owner |-> o, js |-> js, existing |-> existing,
      toDelete |-> {s \in PartitionsChanged(existing, o, js) \cup expired : ~existing[s].deleting},
      toCreate |-> Missing(existing, o, js) \cup {s[3] : s \in PartitionsChanged(existing, o, js) \cup expired},
      requeue  |-> expired # RecreationMatches(existing, o, js)] :
         expired \in SUBSET RecreationMatches(existing, o, js)}

(* The reconcile from jobsetSlices/lwsSlices on: what diffSlices plans.  A *)
(* Slice that is being deleted already is not deleted again.               *)
Plans(o, js, existing) ==
    {[pc |-> "apply", owner |-> o, js |-> js, existing |-> existing,
      toDelete |-> {s \in PartitionsChanged(existing, o, js) \cup expired : ~existing[s].deleting},
      toCreate |-> Missing(existing, o, js),
      requeue  |-> expired # RecreationMatches(existing, o, js)] :
         expired \in SUBSET RecreationMatches(existing, o, js)}

Takes(k, o) ==
    /\ rec[k].pc = "idle"
    /\ o \in queue[k]
    /\ queue' = [queue EXCEPT ![k] = @ \ {o}]
    /\ UNCHANGED <<owners, slices, ownerCache, sliceCache>>

(* Mutant: the DeletionTimestamp is not looked at.                         *)
TerminalEnded(o, js) == o \in JobSets /\ js.phase = "ended"

(* The owner is being deleted, or is a JobSet that completed or failed.    *)
Terminal(o, js) == js.phase = "deleting" \/ (o \in JobSets /\ js.phase = "ended")

(* GetProvisioningMode says sync.                                          *)
InSyncMode(o, js) == o \in SyncOwners /\ js.lab

(* A LeaderWorkerSet is served in async mode only; without the label it    *)
(* has no mode.                                                            *)
Served(o, js) ==
    /\ js.phase # "none" /\ ~Terminal(o, js)
    /\ o \in LWSs => js.lab /\ o \notin SyncOwners

(* Reconcile with nothing to send: the owner is gone, or not served, or    *)
(* has its finalizer and an invalid selection.                             *)
ReconcileNothing(k, o) ==
    LET js == ownerCache[o]
    IN  /\ Takes(k, o)
        /\ ~Terminal(o, js)
        /\ Served(o, js) => js.fin /\ ~DesiredSlicesOK(o, js.sel)
        /\ UNCHANGED rec

ReconcileCleansUp(k, o) ==
    LET existing == ListSlices(o)
    IN  /\ Takes(k, o)
        /\ Terminal(o, ownerCache[o])
        /\ rec' = [rec EXCEPT ![k] =
                [Idle EXCEPT !.pc = "cleanup", !.owner = o, !.js = ownerCache[o], !.existing = existing,
                             !.toDelete = {s \in SliceNames : existing[s] # None /\ ~existing[s].deleting}]]

ReconcileFinalizes(k, o) ==
    /\ Takes(k, o)
    /\ Served(o, ownerCache[o]) /\ ~ownerCache[o].fin
    /\ rec' = [rec EXCEPT ![k] = [Idle EXCEPT !.pc = "finalize", !.owner = o, !.js = ownerCache[o],
                                              !.existing = ListSlices(o)]]

ReconcileApplies(k, o) ==
    LET js == ownerCache[o]
    IN  /\ Takes(k, o)
        /\ Served(o, js) /\ js.fin /\ DesiredSlicesOK(o, js.sel)
        /\ \E plan \in Plans(o, js, ListSlices(o)) : rec' = [rec EXCEPT ![k] = plan]

(* Mutant: the reconcile goes on with the object it had read.              *)
AddFinalizerKeepsRead(k) ==
    LET o  == rec[k].owner
        js == [rec[k].js EXCEPT !.fin = TRUE]
    IN  /\ rec[k].pc = "finalize"
        /\ owners[o].phase \in {"active", "ended"}
        /\ owners' = [owners EXCEPT ![o].fin = TRUE]
        /\ IF DesiredSlicesOK(o, js.sel)
           THEN \E plan \in Plans(o, js, rec[k].existing) : Answered(k, plan)
           ELSE \E again \in BOOLEAN : Finish(k, again)
        /\ UNCHANGED <<slices, ownerCache, sliceCache>>

(* The patch that adds the finalizer, sent by name: it reaches whatever    *)
(* object has the name now, is refused for one that is being deleted, and  *)
(* its answer replaces the object the reconcile had read.                  *)
AddFinalizer(k) ==
    LET o  == rec[k].owner
        js == [owners[o] EXCEPT !.fin = TRUE]
    IN  /\ rec[k].pc = "finalize"
        /\ owners[o].phase \in {"active", "ended"}
        /\ owners' = [owners EXCEPT ![o] = js]
        /\ IF DesiredSlicesOK(o, js.sel)
           THEN \E plan \in Plans(o, js, rec[k].existing) : Answered(k, plan)
           ELSE \E again \in BOOLEAN : Finish(k, again)
        /\ UNCHANGED <<slices, ownerCache, sliceCache>>

(* The DELETE of a Slice: its own finalizer keeps it for a while.          *)
MarkDeleted(s) == slices' = [slices EXCEPT ![s].deleting = TRUE]

(* applySliceChanges: deletions first.                                     *)
DeleteSlice(k, s) ==
    /\ rec[k].pc = "apply" /\ s \in rec[k].toDelete
    /\ slices[s] # None
    /\ MarkDeleted(s)
    /\ Answered(k, [rec[k] EXCEPT !.toDelete = @ \ {s}])
    /\ UNCHANGED <<owners, ownerCache, sliceCache>>

Overlapping(parts) ==
    {s \in SliceNames : sliceCache[s] # None /\ Range(sliceCache[s].parts) \cap Range(parts) # {}}

(* Mutant: the Slice is skipped for good.                                  *)
SkipSliceForgets(k, r) ==
    /\ rec[k].pc = "apply" /\ rec[k].toDelete = {} /\ r \in rec[k].toCreate
    /\ Overlapping(rec[k].js.sel[r]) # {}
    /\ rec' = [rec EXCEPT ![k].toCreate = @ \ {r}]
    /\ UNCHANGED <<owners, slices, ownerCache, sliceCache, queue>>

(* A partition is taken: the Slice has to wait.                            *)
SkipSlice(k, r) ==
    /\ rec[k].pc = "apply" /\ rec[k].toDelete = {} /\ r \in rec[k].toCreate
    /\ Overlapping(rec[k].js.sel[r]) # {}
    /\ rec' = [rec EXCEPT ![k].toCreate = @ \ {r}, ![k].requeue = TRUE]
    /\ UNCHANGED <<owners, slices, ownerCache, sliceCache, queue>>

(* The UID that the API server gives a new Slice s: that of no Slice of    *)
(* the name that a cache or a reconcile still remembers.  There are three  *)
(* such places, so that four values are enough to tell Slices apart.       *)
Remembered(s, u) ==
    \E copy \in {sliceCache[s]} \cup {rec[k].existing[s] : k \in Kinds} : copy # None /\ copy.uid = u

FreshUID(s) == CHOOSE u \in SliceUIDs : ~Remembered(s, u)

CreateSlice(k, r) ==
    LET s == SliceName(rec[k].owner, rec[k].js.gen, r)
    IN  /\ rec[k].pc = "apply" /\ rec[k].toDelete = {} /\ r \in rec[k].toCreate
        /\ Overlapping(rec[k].js.sel[r]) = {}
        /\ slices[s] = None
        /\ slices' = [slices EXCEPT ![s] = [uid |-> FreshUID(s), parts |-> rec[k].js.sel[r],
                                               cond |-> "other", deleting |-> FALSE]]
        /\ Answered(k, [rec[k] EXCEPT !.toCreate = @ \ {r}])
        /\ UNCHANGED <<owners, ownerCache, sliceCache>>

(* Mutant: a running JobSet is never suspended again.                      *)
SyncModeOKWhenRunning(k) ==
    LET r == rec[k]
    IN  ~InSyncMode(r.owner, r.js) \/ ~r.js.susp \/ ~allSlicesReady(r.existing, r.owner, r.js)

(* Mutant: a suspended JobSet is left alone.                               *)
SyncModeOKWhenSuspended(k) ==
    LET r == rec[k]
    IN  ~InSyncMode(r.owner, r.js) \/ r.js.susp \/ allSlicesReady(r.existing, r.owner, r.js)

(* The rest of Reconcile after applySliceChanges: handleSyncMode compares  *)
(* the Slices listed at the start with the JobSet.                         *)
SyncModeOK(k) ==
    LET r == rec[k]
    IN  ~InSyncMode(r.owner, r.js) \/ r.js.susp = ~allSlicesReady(r.existing, r.owner, r.js)

ReconcileEnds(k) ==
    /\ rec[k].pc = "apply" /\ rec[k].toDelete = {} /\ rec[k].toCreate = {}
    /\ SyncModeOK(k)
    /\ Finish(k, rec[k].requeue)
    /\ UNCHANGED <<owners, slices, ownerCache, sliceCache>>

handleSyncMode(k) ==
    LET o == rec[k].owner
    IN  /\ rec[k].pc = "apply" /\ rec[k].toDelete = {} /\ rec[k].toCreate = {}
        /\ ~SyncModeOK(k)
        /\ owners[o].phase # "none"
        /\ owners' = [owners EXCEPT ![o].susp = ~rec[k].js.susp]
        /\ \E again \in {rec[k].requeue, TRUE} : Finish(k, again)
        /\ UNCHANGED <<slices, ownerCache, sliceCache>>

(* Mutant: an error is logged and the loop goes on.                        *)
CleanupSliceGoesOn(k, s) ==
    /\ rec[k].pc = "cleanup" /\ s \in rec[k].toDelete
    /\ IF slices[s] # None THEN MarkDeleted(s) \/ UNCHANGED slices ELSE UNCHANGED slices
    /\ Answered(k, [rec[k] EXCEPT !.toDelete = @ \ {s}])
    /\ UNCHANGED <<owners, ownerCache, sliceCache>>

(* Cleanup: a Slice that is gone is not an error here.                     *)
CleanupSlice(k, s) ==
    /\ rec[k].pc = "cleanup" /\ s \in rec[k].toDelete
    /\ IF slices[s] # None THEN MarkDeleted(s) ELSE UNCHANGED slices
    /\ Answered(k, [rec[k] EXCEPT !.toDelete = @ \ {s}])
    /\ UNCHANGED <<owners, ownerCache, sliceCache>>

(* The finalizer goes once the deletions are requested; the object goes    *)
(* with it if it is being deleted.                                         *)
RemoveFinalizer(k) ==
    LET o == rec[k].owner
    IN  /\ rec[k].pc = "cleanup" /\ rec[k].toDelete = {} /\ rec[k].js.fin
        /\ owners[o].phase # "none"
        /\ owners' = [owners EXCEPT ![o] = IF @.phase = "deleting"
                                           THEN [NoOwner EXCEPT !.gen = owners[o].gen]
                                           ELSE [@ EXCEPT !.fin = FALSE]]
        /\ \E again \in BOOLEAN : Finish(k, again)
        /\ UNCHANGED <<slices, ownerCache, sliceCache>>

CleanupEnds(k) ==
    /\ rec[k].pc = "cleanup" /\ rec[k].toDelete = {} /\ ~rec[k].js.fin
    /\ Finish(k, FALSE)
    /\ UNCHANGED <<owners, slices, ownerCache, sliceCache>>

(* A reconcile that has a request to send.                                 *)
AboutToSend(k) ==
    \/ rec[k].pc = "finalize"
    \/ rec[k].pc = "apply" /\ (rec[k].toDelete # {} \/ ~SyncModeOK(k)
                               \/ \E r \in rec[k].toCreate : Overlapping(rec[k].js.sel[r]) = {})
    \/ rec[k].pc = "cleanup" /\ (rec[k].toDelete # {} \/ rec[k].js.fin)

(* Mutant: the error is logged and not returned.                           *)
RequestFailsSilently(k) ==
    /\ AboutToSend(k)
    /\ Finish(k, FALSE)
    /\ UNCHANGED <<owners, slices, ownerCache, sliceCache>>

(* The request fails: an error of any kind, among them a name that is not  *)
(* there, a name that is taken, and a finalizer that comes too late.       *)
RequestFails(k) ==
    /\ AboutToSend(k)
    /\ Finish(k, TRUE)
    /\ UNCHANGED <<owners, slices, ownerCache, sliceCache>>

Worker(k) ==
    \/ \E o \in Owners : \/ ReconcileNothing(k, o) \/ ReconcileCleansUp(k, o)
                         \/ ReconcileFinalizes(k, o) \/ ReconcileApplies(k, o)
    \/ AddFinalizer(k)
    \/ \E s \in SliceNames : DeleteSlice(k, s) \/ CleanupSlice(k, s)
    \/ \E r \in Replicas : SkipSlice(k, r) \/ CreateSlice(k, r)
    \/ ReconcileEnds(k) \/ handleSyncMode(k)
    \/ RemoveFinalizer(k) \/ CleanupEnds(k)
    \/ RequestFails(k)

-----------------------------------------------------------------------------
(* Kubernetes (external): users, the JobSet controller, the slice          *)
(* controller and the informers.                                           *)

CreateOwner(o, sel) ==
    /\ owners[o].phase = "none" /\ owners[o].gen < MaxGen
    /\ owners' = [owners EXCEPT ![o] = [phase |-> "active", gen |-> @.gen + 1, fin |-> FALSE,
                                        susp |-> FALSE, lab |-> TRUE, sel |-> sel]]
    /\ UNCHANGED <<slices, ownerCache, sliceCache, queue, rec>>

ChangeSelection(o, sel) ==
    /\ owners[o].phase = "active" /\ owners[o].sel # sel
    /\ owners' = [owners EXCEPT ![o].sel = sel]
    /\ UNCHANGED <<slices, ownerCache, sliceCache, queue, rec>>

EndOwner(o) ==
    /\ o \in JobSets /\ owners[o].phase = "active" /\ ~owners[o].susp
    /\ owners' = [owners EXCEPT ![o].phase = "ended"]
    /\ UNCHANGED <<slices, ownerCache, sliceCache, queue, rec>>

DeleteOwner(o) ==
    /\ owners[o].phase \in {"active", "ended"}
    /\ owners' = [owners EXCEPT ![o] = IF @.fin THEN [@ EXCEPT !.phase = "deleting"]
                                       ELSE [NoOwner EXCEPT !.gen = owners[o].gen]]
    /\ UNCHANGED <<slices, ownerCache, sliceCache, queue, rec>>

RemoveLabel(o) ==
    /\ o \in MayUnlabel /\ owners[o].phase # "none" /\ owners[o].lab
    /\ owners' = [owners EXCEPT ![o].lab = FALSE]
    /\ UNCHANGED <<slices, ownerCache, sliceCache, queue, rec>>

SliceStatus(s, c) ==
    /\ slices[s] # None /\ slices[s].cond # c
    /\ slices' = [slices EXCEPT ![s].cond = c]
    /\ UNCHANGED <<owners, ownerCache, sliceCache, queue, rec>>

SliceGone(s) ==
    /\ slices[s] # None /\ slices[s].deleting
    /\ slices' = [slices EXCEPT ![s] = None]
    /\ UNCHANGED <<owners, ownerCache, sliceCache, queue, rec>>

Enqueue(o) == queue' = [queue EXCEPT ![KindOf(o)] = @ \cup {o}]

(* An informer delivers an object: the cache changes and the event queues  *)
(* the owner (sliceToJobSetRequests, sliceToLWSRequests for a Slice).  The *)
(* event filter drops the events of an owner that has not the label now,   *)
(* and lets those of its Slices pass; the event of an object that is gone  *)
(* finds nothing to do, and is queued here like any other.                 *)
SyncOwner(o) ==
    /\ ownerCache[o] # owners[o]
    /\ ownerCache' = [ownerCache EXCEPT ![o] = owners[o]]
    /\ IF owners[o].lab \/ owners[o].phase = "none" THEN Enqueue(o) ELSE UNCHANGED queue
    /\ UNCHANGED <<owners, slices, sliceCache, rec>>

SyncSlice(s) ==
    /\ sliceCache[s] # slices[s]
    /\ sliceCache' = [sliceCache EXCEPT ![s] = slices[s]]
    /\ Enqueue(OwnerOf(s))
    /\ UNCHANGED <<owners, slices, ownerCache, rec>>

(* The process dies and comes back with fresh caches; every object listed  *)
(* is an event.                                                            *)
Restart ==
    /\ rec' = [k \in Kinds |-> Idle]
    /\ ownerCache' = owners /\ sliceCache' = slices
    /\ queue' = [k \in Kinds |-> {o \in Owners : /\ KindOf(o) = k
                                                 /\ \/ owners[o].lab
                                                    \/ \E s \in SliceNames : OwnerOf(s) = o /\ slices[s] # None}]
    /\ UNCHANGED <<owners, slices>>

Kubernetes ==
    \/ \E o \in Owners, sel \in Selections : CreateOwner(o, sel) \/ ChangeSelection(o, sel)
    \/ \E o \in Owners : EndOwner(o) \/ DeleteOwner(o) \/ RemoveLabel(o) \/ SyncOwner(o)
    \/ \E s \in SliceNames : SliceGone(s) \/ SyncSlice(s)
    \/ \E s \in SliceNames, c \in Conditions : SliceStatus(s, c)

(* Everything but the death of the process.                                *)
Running == (\E k \in Kinds : Worker(k)) \/ Kubernetes

Next == Running \/ Restart

Spec == Init /\ [][Next]_vars

(* A request that the API server has to refuse: the owner or the Slice is  *)
(* gone, the Slice is there already, the owner is being deleted.           *)
MustFail(k) ==
    LET r == rec[k]
    IN  \/ r.pc = "finalize" /\ owners[r.owner].phase \in {"none", "deleting"}
        \/ r.pc = "apply" /\ \E s \in r.toDelete : slices[s] = None
        \/ /\ r.pc = "apply" /\ r.toDelete = {}
           /\ \/ \E i \in r.toCreate : slices[SliceName(r.owner, r.js.gen, i)] # None
              \/ r.toCreate = {} /\ owners[r.owner].phase = "none"
        \/ r.pc = "cleanup" /\ r.toDelete = {} /\ owners[r.owner].phase = "none"

(* A request that could be served fails, or an answer is lost.             *)
Fault ==
    \E k \in Kinds :
          \/ RequestFails(k) /\ ~MustFail(k)
          \/ AddFinalizer(k) /\ rec'[k].pc = "idle" /\ DesiredSlicesOK(rec[k].owner, owners[rec[k].owner].sel)
          \/ \E s \in SliceNames : (DeleteSlice(k, s) \/ CleanupSlice(k, s)) /\ rec'[k].pc = "idle"
          \/ \E r \in Replicas : CreateSlice(k, r) /\ rec'[k].pc = "idle"

(* A reconcile that has begun goes on.                                     *)
Proceeds(k) == rec[k].pc # "idle" /\ Worker(k)

(* Faults and restarts stop at some time; from then on a goroutine that    *)
(* can run is run, the workqueue, a FIFO, hands every owner to the worker, *)
(* informers catch up, and a Slice that is being deleted goes.             *)
Fairness ==
    /\ <>[][Running /\ ~Fault]_vars
    /\ \A k \in Kinds : WF_vars(Proceeds(k))
    /\ \A o \in Owners : /\ SF_vars(rec[KindOf(o)].pc = "idle" /\ o \in queue[KindOf(o)]
                                    /\ Worker(KindOf(o)) /\ o \notin queue'[KindOf(o)])
                         /\ WF_vars(SyncOwner(o))
    /\ \A s \in SliceNames : WF_vars(SyncSlice(s)) /\ WF_vars(SliceGone(s))

FairSpec == Spec /\ Fairness

-----------------------------------------------------------------------------
(* Properties.                                                             *)

(* While a reconcile applies its plan, the object it was made for is still *)
(* there and has the finalizer: no Slice is created for an owner whose     *)
(* cleanup is already over, though the owner is read from a stale cache    *)
(* and the finalizer is patched by name.                                   *)
AppliesUnderFinalizer ==
    \A k \in Kinds : rec[k].pc = "apply" =>
        /\ owners[rec[k].owner].fin
        /\ owners[rec[k].owner].gen = rec[k].js.gen

(* A Slice is deleted by name, without its UID, on the word of a list from *)
(* a cache that lags: the Slice that has the name by then is the very one  *)
(* that was listed and judged, and never one created since, be it with the *)
(* same partitions ("creation will happen in next reconcile",              *)
(* slice_shared.go:89).                                                    *)
DeletesWhatItRead ==
    \A k \in Kinds : rec[k].pc # "idle" =>
        \A s \in rec[k].toDelete : slices[s] # None => slices[s].uid = rec[k].existing[s].uid

(* An owner loses its finalizer only after the deletion of each Slice that *)
(* the cleanup has listed was accepted (jobset_slice_controller.go:82),    *)
(* those that the cache showed to be on their way out included.            *)
FinalizerOutlivesListedSlices ==
    [][\A k \in Kinds :
          rec[k].pc = "cleanup" /\ owners[rec[k].owner].fin /\ ~owners'[rec[k].owner].fin
              => \A s \in SliceNames : rec[k].existing[s] # None => slices[s] = None \/ slices[s].deleting]_vars

(* Nothing is under way or about to happen for o.                          *)
Quiescent(o) ==
    /\ rec[KindOf(o)].pc = "idle" /\ o \notin queue[KindOf(o)]
    /\ ownerCache[o] = owners[o] /\ sliceCache = slices

(* No wakeup is lost: when there is nothing left to do for an owner, each  *)
(* Slice it asks for is there, with the partitions it asks for and in no   *)
(* state to be recreated, or is on its way out; and a JobSet in sync mode  *)
(* is suspended exactly if some Slice is not ready.  An owner without the  *)
(* label is not looked after.                                              *)
Converged ==
    \A o \in Owners :
        Quiescent(o) /\ owners[o].phase = "active" /\ owners[o].lab /\ Served(o, owners[o]) /\ DesiredSlicesOK(o, owners[o].sel) =>
            /\ Missing(slices, o, owners[o]) = {}
            /\ \A s \in PartitionsChanged(slices, o, owners[o]) \cup RecreationMatches(slices, o, owners[o]) :
                  slices[s].deleting
            /\ o \in SyncOwners => owners[o].susp = ~allSlicesReady(slices, o, owners[o])

Wants(o, r, sel) == owners[o].phase = "active" /\ owners[o].lab /\ Served(o, owners[o]) /\ owners[o].sel = sel
                    /\ DesiredSlicesOK(o, sel) /\ r \in DOMAIN sel

(* "... but create it once overlap is removed" (slice_controller_test.go:504): *)
(* an owner gets the Slice it asks for, unless it stops asking or another  *)
(* Slice has a partition of it, whatever requests fail on the way.         *)
SlicesServed ==
    \A o \in Owners, r \in Replicas, sel \in Selections :
        Wants(o, r, sel) ~>
            \/ ~Wants(o, r, sel)
            \/ \E s \in SliceNames : slices[s] # None /\ Range(slices[s].parts) \cap Range(sel[r]) # {}
            \/ Missing(slices, o, owners[o]) = {}

(* A JobSet in sync mode does not stay suspended once its Slices are ready. *)
ReadyJobSetReleased ==
    \A o \in JobSets \cap SyncOwners, sel \in Selections :
        LET Ready == /\ owners[o].phase = "active" /\ owners[o].lab /\ owners[o].sel = sel /\ DesiredSlicesOK(o, sel)
                     /\ allSlicesReady(slices, o, owners[o])
        IN  Ready ~> ~Ready \/ ~owners[o].susp

(* An owner that is deleted does not hang on the finalizer, whatever       *)
(* requests fail and wherever the process dies: as long as it has the      *)
(* label (jobset_slice_controller.go:142), its events reach the worker,    *)
(* and the worker lets it go.                                              *)
DeletedOwnerGoes ==
    \A o \in Owners :
        owners[o].phase = "deleting" /\ owners[o].lab ~> owners[o].phase # "deleting" \/ ~owners[o].lab

(* "should delete Slices when owning JobSet is deleted"                    *)
(* (slice_controller_test.go:283).                                         *)
SlicesOfDeletedOwnerGo ==
    \A s \in SliceNames :
        slices[s] # None /\ owners[OwnerOf(s)].phase = "none"
            ~> slices[s] = None \/ owners[OwnerOf(s)].phase # "none"

(* "should not create a Slice if there is a partition ID overlap"          *)
(* (slice_controller_test.go:504).                                         *)
PartitionsDisjoint ==
    \A s, t \in SliceNames :
        s # t /\ slices[s] # None /\ slices[t] # None => Range(slices[s].parts) \cap Range(slices[t].parts) = {}

(* "suspending the JobSet until all expected Slices are Ready, then        *)
(* unsuspending it" (jobset_slice_controller.go:262): the reconcile that   *)
(* unsuspends a JobSet has not found one of its Slices to be wrong.        *)
UnsuspendedWithExpectedSlices ==
    [][\A k \in Kinds :
          rec[k].pc = "apply" /\ rec'[k].pc = "idle"
          /\ owners[rec[k].owner].susp /\ ~owners'[rec[k].owner].susp
              => PartitionsChanged(rec[k].existing, rec[k].owner, rec[k].js) = {}]_vars
=============================================================================
