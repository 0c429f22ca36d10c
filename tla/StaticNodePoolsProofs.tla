----------------------- MODULE StaticNodePoolsProofs -----------------------
(* Theorems about StaticNodePools, for any ConfigMaps, pools and           *)
(* concurrency.                                                            *)
EXTENDS StaticNodePools, GKERefinementProofs

EnvTypeOK ==
    /\ config \in ConfigMaps /\ configSeen \in ConfigMaps
    /\ inUse \subseteq Names /\ inUseSeen \subseteq Names

ReconcileTypeOK ==
    /\ built \in [Names -> ValidConfigMaps \cup {None}]
    /\ queued \in BOOLEAN /\ failed \in BOOLEAN
    /\ phase \in DeletePhases \cup {"idle", "filter", "create"}
    /\ plan \in Plans

(* A reconcile that is under way has read a ConfigMap, creates pools of it *)
(* only, and has dealt with the sets of earlier phases.                    *)
PlanOK ==
    /\ phase # "idle" => plan.desired \in ValidConfigMaps /\ plan.create \subseteq Desired(plan.desired)
    /\ phase \in {"error", "update", "create"} => plan.missing = {}
    /\ phase \in {"update", "create"} => plan.error = {}
    /\ phase = "create" => plan.update = {}

(* The goroutines of a phase do the work of that phase.                    *)
CallsOfPhase ==
    \A t \in Threads : pc[t] # "idle" =>
        \/ /\ phase \in DeletePhases
           /\ pc[t] \in DeletePoints \cup {"return"} /\ req[t].kind = "delete"
        \/ /\ phase = "create"
           /\ pc[t] \in StaticPoints \cup {"return"} /\ req[t].kind = "static"
           /\ req[t].name \in Desired(plan.desired)
           /\ req[t].labels = DesiredNodePool(plan.desired, req[t].name).labels

SInv == GKEInv /\ EnvTypeOK /\ ReconcileTypeOK /\ PlanOK /\ CallsOfPhase

(* A pool is labelled with the hash of what it was made from, if with any. *)
BuiltOK ==
    \A n \in Names : Exists(n) =>
        /\ built[n] \in ValidConfigMaps /\ n \in Desired(built[n])
        /\ pools[n].labels.hash \in {None, AllHashes[built[n]][n]}

(* Until the deletions start no pool has come that was not listed.         *)
ListedOK == phase = "filter" => \A n \in Names : Exists(n) => built[n] = plan.listed[n]

(* Each pool is deleted by one goroutine, once.                            *)
OneDeletePerPool ==
    phase \in DeletePhases =>
        \A t \in Threads : pc[t] # "idle" =>
            /\ req[t].name \notin plan[phase]
            /\ \A u \in Threads \ {t} : pc[u] # "idle" => req[u].name # req[t].name

(* So a goroutine whose operation is done finds the pool gone, or in ERROR. *)
DoneOK ==
    \A t \in Threads : pc[t] = "deleteWait" /\ op[t] = "done" =>
        pools[req[t].name].status \in {"ABSENT", "ERROR"}

DeleteAtWork(t, m) ==
    /\ req[t].name = m
    /\ \/ pc[t] \in DeletePoints
       \/ pc[t] = "return" /\ ret[t] # "nil"

(* Pool m has still to be deleted, is being deleted, could not be deleted, *)
(* or is in ERROR.                                                         *)
DealtWith(m) ==
    \/ m \in plan.missing \cup plan.error \cup plan.update
    \/ failed
    \/ \E t \in Threads : DeleteAtWork(t, m)
    \/ pools[m].status = "ERROR"

(* What stands in the way of a pool to create is dealt with before it is   *)
(* created.                                                                *)
BlockersDealtWith ==
    /\ phase \in DeletePhases \cup {"filter"} =>
          \A n \in plan.create, m \in Names : Blocks(m, n) => DealtWith(m)
    /\ phase = "create" =>
          /\ \A n \in plan.create, m \in Names : Blocks(m, n) => pools[m].status = "ERROR"
          /\ \A t \in Threads, m \in Names :
                pc[t] \in StaticPoints /\ Blocks(m, req[t].name) => pools[m].status = "ERROR"

SubblocksOK == BuiltOK /\ ListedOK /\ OneDeletePerPool /\ DoneOK /\ BlockersDealtWith

WInv == SInv /\ WaitersMatch /\ SubblocksOK

-----------------------------------------------------------------------------
(* The pool built for a name of the ConfigMap is one the provider expects. *)
LEMMA DesiredNodePoolTyped ==
    ASSUME NEW cm \in ValidConfigMaps, NEW n \in Desired(cm)
    PROVE  /\ DesiredNodePool(cm, n) \in StaticNodePools
           /\ DesiredNodePool(cm, n).name = n
           /\ DesiredNodePool(cm, n).labels.hash = AllHashes[cm][n]
  <1>1. n \in Names /\ AllHashes[cm][n] \in Hashes
    BY ConfigMapsAssumption
  <1> DEFINE b      == AllNodePools[cm][n].labels["static"] = "true"
             labels == [NoLabels EXCEPT !.hash = AllHashes[cm][n], !.static = b]
  <1>2. NoLabels \in Labels
    BY EmptyTyped
  <1>3. b \in BOOLEAN
    OBVIOUS
  <1> HIDE DEF b
  <1>4. /\ labels \in [hash : Hashes, jobset : {None}, legacyID : {None}, static : BOOLEAN]
        /\ labels.hash = AllHashes[cm][n]
    BY <1>1, <1>3 DEF NoLabels
  <1>5. DesiredNodePool(cm, n) = [name |-> n, labels |-> labels]
    BY DEF DesiredNodePool, b
  <1> HIDE DEF labels
  <1> QED
    BY <1>1, <1>4, <1>5 DEF StaticNodePools

(* Every step of the reconciler, of its goroutines, of GKE and of the      *)
(* cluster is a step of the provider or leaves the provider's state alone. *)
LEMMA StaticStepIsGKEStep ==
    ASSUME SInv, [Next]_vars
    PROVE  [GKENext]_gkeVars
  <1> USE DEF vars, cloudVars
  <1>1. CASE ReconcileNothing \/ Reconcile \/ FilterLocked \/ PhaseEnds
    BY <1>1 DEF ReconcileNothing, Reconcile, FilterLocked, PhaseEnds
  <1>2. ASSUME NEW t \in Threads, NEW n \in Names, StartDelete(t, n)
        PROVE  GKENext
    BY <1>2 DEF StartDelete, GKENext, Calls
  <1>3. ASSUME NEW t \in Threads, NEW n \in Names, StartCreate(t, n)
        PROVE  GKENext
    <2>1. DesiredNodePool(plan.desired, n) \in StaticNodePools
      BY <1>3, DesiredNodePoolTyped DEF StartCreate, SInv, PlanOK
    <2> QED BY <1>3, <2>1 DEF StartCreate, GKENext, Calls
  <1>4. ASSUME NEW t \in Threads, GoroutineEnds(t) \/ Alone(CallStep(t))
        PROVE  GKENext
    BY <1>4 DEF GoroutineEnds, Alone, GKENext, Calls
  <1>5. CASE Alone(GKEStep)
    BY <1>5 DEF Alone, GKENext
  <1>6. CASE Kubernetes
    BY <1>6 DEF Kubernetes, ChangeConfig, SliceTakes, UseEnds, SyncConfig, SyncUse, Resync
  <1>7. CASE Restart
    BY <1>7 DEF Restart, GKENext
  <1> QED
    BY <1>1, <1>2, <1>3, <1>4, <1>5, <1>6, <1>7 DEF Next, Running, Worker

-----------------------------------------------------------------------------
(* What a ConfigMap leads to is a well-typed plan.                         *)
LEMMA DiffTyped ==
    ASSUME ReconcileTypeOK, NEW cm \in ValidConfigMaps
    PROVE  /\ DiffStaticNodePools(cm) \in Plans
           /\ DiffStaticNodePools(cm).desired = cm
           /\ DiffStaticNodePools(cm).create \subseteq Desired(cm)
  <1>1. Desired(cm) \subseteq Names
    BY ConfigMapsAssumption
  <1>2. ToDeleteMissing(cm) \subseteq Names
    BY DEF ToDeleteMissing
  <1>3. ToDeleteError(cm) \subseteq Desired(cm)
    BY DEF ToDeleteError
  <1>4. ToDeleteUpdate(cm) \subseteq Desired(cm)
    BY DEF ToDeleteUpdate
  <1> QED
    BY <1>1, <1>2, <1>3, <1>4 DEF DiffStaticNodePools, Plans, ReconcileTypeOK

(* What the filter and the starts of goroutines leave of a plan.           *)
LEMMA FilterEffect ==
    ASSUME ReconcileTypeOK, FilterLocked
    PROVE  LET skipped == (plan.missing \cup plan.update) \cap inUseSeen
           IN  /\ plan' \in Plans
               /\ plan'.missing = plan.missing \ skipped /\ plan'.update = plan.update \ skipped
               /\ plan'.error = plan.error
               /\ plan'.create = {n \in plan.create : MayCreate(n, skipped)}
               /\ plan'.desired = plan.desired
  <1> DEFINE skipped == (plan.missing \cup plan.update) \cap inUseSeen
             created == {n \in plan.create : MayCreate(n, skipped)}
  <1>1. plan \in Plans
    BY DEF ReconcileTypeOK
  <1>2. created \subseteq Names
    BY <1>1 DEF Plans
  <1>3. plan' = [plan EXCEPT !.missing = plan.missing \ skipped, !.update = plan.update \ skipped,
                             !.create = created]
    BY DEF FilterLocked
  <1> HIDE DEF created
  <1> QED
    BY <1>1, <1>2, <1>3 DEF Plans, created

(* The reconciler opens a call for a deletion.                             *)
LEMMA StartDeleteEffect ==
    ASSUME ReconcileTypeOK, NEW t \in Threads, NEW n \in Names, StartDelete(t, n)
    PROVE  /\ plan' \in Plans
           /\ plan'.create = plan.create /\ plan'.desired = plan.desired
           /\ plan'.missing = IF phase = "missing" THEN plan.missing \ {n} ELSE plan.missing
           /\ plan'.error = IF phase = "error" THEN plan.error \ {n} ELSE plan.error
           /\ plan'.update = IF phase = "update" THEN plan.update \ {n} ELSE plan.update
  <1>1. plan \in Plans
    BY DEF ReconcileTypeOK
  <1>2. CASE phase = "missing"
    BY <1>1, <1>2 DEF StartDelete, Plans
  <1>3. CASE phase = "error"
    BY <1>1, <1>3 DEF StartDelete, Plans
  <1>4. CASE phase = "update"
    BY <1>1, <1>4 DEF StartDelete, Plans
  <1> QED BY <1>2, <1>3, <1>4 DEF StartDelete, DeletePhases

(* The reconciler opens a call for a creation.                             *)
LEMMA StartCreateEffect ==
    ASSUME ReconcileTypeOK, NEW t \in Threads, NEW n \in Names, StartCreate(t, n)
    PROVE  /\ plan' \in Plans
           /\ plan'.create = plan.create \ {n} /\ plan'.desired = plan.desired
           /\ plan'.missing = plan.missing /\ plan'.error = plan.error /\ plan'.update = plan.update
  BY DEF ReconcileTypeOK, StartCreate, Plans

(* An empty plan is a plan.                                                *)
LEMMA NoPlanTyped == NoPlan \in Plans
  BY DEF NoPlan, Plans

(* The cluster's objects keep their types.                                 *)
LEMMA EnvTyped ==
    ASSUME EnvTypeOK, [Next]_vars
    PROVE  EnvTypeOK'
  <1> USE DEF EnvTypeOK, vars, envVars
  <1>1. CASE Worker
    BY <1>1 DEF Worker, ReconcileNothing, Reconcile, FilterLocked, PhaseEnds, StartDelete, StartCreate
  <1>2. CASE \E t \in Threads : GoroutineEnds(t) \/ Alone(CallStep(t))
    BY <1>2 DEF GoroutineEnds, Alone
  <1>3. CASE Alone(GKEStep)
    BY <1>3 DEF Alone
  <1>4. CASE Kubernetes
    BY <1>4 DEF Kubernetes, ChangeConfig, SliceTakes, UseEnds, SyncConfig, SyncUse, Resync
  <1>5. CASE Restart
    BY <1>5 DEF Restart
  <1> QED
    BY <1>1, <1>2, <1>3, <1>4, <1>5 DEF Next, Running

(* The reconcile's own state and what the pools were made from keep theirs. *)
LEMMA ReconcileTyped ==
    ASSUME ReconcileTypeOK, [Next]_vars
    PROVE  ReconcileTypeOK'
  <1> USE DEF vars, cloudVars, staticVars
  <1>1. CASE ReconcileNothing
    BY <1>1 DEF ReconcileTypeOK, ReconcileNothing
  <1>2. CASE Reconcile
    BY <1>2, DiffTyped DEF ReconcileTypeOK, Reconcile
  <1>3. CASE FilterLocked
    <2>1. plan' \in Plans
      BY <1>3, FilterEffect
    <2> QED BY <1>3, <2>1 DEF ReconcileTypeOK, FilterLocked, DeletePhases
  <1>4. CASE PhaseEnds
    <2>1. plan' \in Plans
      BY <1>4, NoPlanTyped DEF ReconcileTypeOK, PhaseEnds
    <2>2. phase' \in DeletePhases \cup {"idle", "filter", "create"}
      BY <1>4 DEF PhaseEnds, NextPhase, DeletePhases
    <2> QED BY <1>4, <2>1, <2>2 DEF ReconcileTypeOK, PhaseEnds
  <1>5. ASSUME NEW t \in Threads, NEW n \in Names, StartDelete(t, n)
        PROVE  ReconcileTypeOK'
    <2>1. plan' \in Plans
      BY <1>5, StartDeleteEffect
    <2> QED BY <1>5, <2>1 DEF ReconcileTypeOK, StartDelete
  <1>6. ASSUME NEW t \in Threads, NEW n \in Names, StartCreate(t, n)
        PROVE  ReconcileTypeOK'
    <2>1. plan' \in Plans
      BY <1>6, StartCreateEffect
    <2> QED BY <1>6, <2>1 DEF ReconcileTypeOK, StartCreate
  <1>7. ASSUME NEW t \in Threads, GoroutineEnds(t)
        PROVE  ReconcileTypeOK'
    BY <1>7 DEF GoroutineEnds, ReconcileTypeOK
  <1>8. CASE \/ \E t \in Threads : Alone(CallStep(t))
             \/ Alone(GKEStep)
    <2>1. plan.desired \in ValidConfigMaps \cup {None}
      BY DEF ReconcileTypeOK, Plans
    <2>2. UNCHANGED staticVars
      BY <1>8 DEF Alone
    <2>3. built' \in [Names -> ValidConfigMaps \cup {None}]
      BY <1>8, <2>1 DEF Alone, ReconcileTypeOK
    <2> QED BY <2>2, <2>3 DEF ReconcileTypeOK
  <1>9. CASE Kubernetes
    BY <1>9 DEF ReconcileTypeOK, Kubernetes, ChangeConfig, SliceTakes, UseEnds, SyncConfig, SyncUse, Resync
  <1>10. CASE Restart
    BY <1>10, NoPlanTyped DEF ReconcileTypeOK, Restart
  <1>11. CASE UNCHANGED vars
    BY <1>11 DEF ReconcileTypeOK
  <1> QED
    BY <1>1, <1>2, <1>3, <1>4, <1>5, <1>6, <1>7, <1>8, <1>9, <1>10, <1>11 DEF Next, Running, Worker

-----------------------------------------------------------------------------
(* A goroutine of a deletion stays in it until it returns, and so does one *)
(* of a creation; here no other call is made.                              *)
LEMMA CallOfPhase ==
    ASSUME GKEInv, CallsOfPhase, NEW t \in Threads, CallStep(t)
    PROVE  \/ /\ pc[t] \in DeletePoints /\ phase \in DeletePhases
              /\ pc'[t] \in DeletePoints \cup {"return"}
              /\ \/ DeleteLoadNPName(t) \/ DeleteStoreNPName(t)
                 \/ DeleteNotFound(t) \/ DeleteAccepted(t) \/ DeleteRefused(t) \/ DeleteWaits(t)
           \/ /\ pc[t] \in StaticPoints /\ phase = "create"
              /\ pc'[t] \in StaticPoints \cup {"return"}
              /\ checkNodePoolExists(t) \/ StaticAccepted(t) \/ StaticRefused(t) \/ StaticWaits(t)
  <1> USE DEF DeletePoints, StaticPoints
  <1>1. /\ pc[t] # "idle"
        /\ pc \in [Threads -> Points]
    BY CallStepLocal DEF GKEInv, GKETypeOK
  <1>2. \/ phase \in DeletePhases /\ pc[t] \in DeletePoints \cup {"return"}
        \/ phase = "create" /\ pc[t] \in StaticPoints \cup {"return"}
    BY <1>1 DEF CallsOfPhase
  <1>3. pc[t] \in DeletePoints \cup StaticPoints \cup {"return"}
    BY <1>2
  <1>4. \/ DeleteLoadNPName(t) \/ DeleteStoreNPName(t)
        \/ DeleteNotFound(t) \/ DeleteAccepted(t) \/ DeleteRefused(t) \/ DeleteWaits(t)
        \/ checkNodePoolExists(t) \/ StaticAccepted(t) \/ StaticRefused(t) \/ StaticWaits(t)
    BY <1>3 DEF CallStep, Check, CheckFails, CreateLoadNPName, CreateStoreNPName, CreateLoadJobKey,
                CreateStoreJobKey, CreateAccepted, CreateRefused, CreateWaits
  <1>5. CASE \/ DeleteLoadNPName(t) \/ DeleteStoreNPName(t)
             \/ DeleteNotFound(t) \/ DeleteAccepted(t) \/ DeleteRefused(t) \/ DeleteWaits(t)
    BY <1>1, <1>2, <1>5 DEF DeleteLoadNPName, DeleteStoreNPName, DeleteNotFound, DeleteAccepted,
                      DeleteRefused, DeleteWaits, DeleteReturns, Goto, Returns, DeletePhases
  <1>6. CASE checkNodePoolExists(t) \/ StaticAccepted(t) \/ StaticRefused(t) \/ StaticWaits(t)
    BY <1>1, <1>2, <1>6 DEF checkNodePoolExists, StaticAccepted, StaticRefused, StaticWaits, Goto,
                      Returns, DeletePhases
  <1> QED BY <1>4, <1>5, <1>6

(* Between reconciles, and until the filter has run, no goroutine runs.    *)
LEMMA NoGoroutine ==
    ASSUME CallsOfPhase, phase \in {"idle", "filter"}, NEW t \in Threads
    PROVE  pc[t] = "idle"
  BY DEF CallsOfPhase, DeletePhases

(* The plan stays one of the ConfigMap that was read.                      *)
LEMMA PlanStep ==
    ASSUME SInv, [Next]_vars
    PROVE  PlanOK'
  <1> USE DEF SInv, vars, cloudVars, staticVars
  <1>1. CASE ReconcileNothing
    BY <1>1 DEF PlanOK, ReconcileNothing
  <1>2. CASE Reconcile
    BY <1>2, DiffTyped DEF PlanOK, Reconcile
  <1>3. CASE FilterLocked
    BY <1>3, FilterEffect DEF PlanOK, FilterLocked
  <1>4. CASE PhaseEnds
    <2>1. CASE phase' = "idle"
      BY <2>1 DEF PlanOK
    <2>2. CASE phase' # "idle"
      <3>1. plan' = plan /\ phase' = NextPhase[phase] /\ plan[phase] = {}
        BY <1>4, <2>2 DEF PhaseEnds
      <3>2. \/ phase = "missing" /\ phase' = "error" /\ plan.missing = {}
            \/ phase = "error" /\ phase' = "update" /\ plan.error = {}
            \/ phase = "update" /\ phase' = "create" /\ plan.update = {}
        BY <1>4, <2>2, <3>1 DEF PhaseEnds, NextPhase
      <3> QED BY <3>1, <3>2 DEF PlanOK
    <2> QED BY <2>1, <2>2
  <1>5. ASSUME NEW t \in Threads, NEW n \in Names, StartDelete(t, n)
        PROVE  PlanOK'
    BY <1>5, StartDeleteEffect DEF PlanOK, StartDelete
  <1>6. ASSUME NEW t \in Threads, NEW n \in Names, StartCreate(t, n)
        PROVE  PlanOK'
    BY <1>6, StartCreateEffect DEF PlanOK, StartCreate
  <1>7. ASSUME NEW t \in Threads, GoroutineEnds(t)
        PROVE  PlanOK'
    BY <1>7 DEF GoroutineEnds, PlanOK
  <1>8. CASE \/ \E t \in Threads : Alone(CallStep(t))
             \/ Alone(GKEStep)
    BY <1>8 DEF Alone, PlanOK
  <1>9. CASE Kubernetes
    BY <1>9 DEF PlanOK, Kubernetes, ChangeConfig, SliceTakes, UseEnds, SyncConfig, SyncUse, Resync
  <1>10. CASE Restart
    BY <1>10 DEF PlanOK, Restart
  <1>11. CASE UNCHANGED vars
    BY <1>11 DEF PlanOK
  <1> QED
    BY <1>1, <1>2, <1>3, <1>4, <1>5, <1>6, <1>7, <1>8, <1>9, <1>10, <1>11 DEF Next, Running, Worker

(* The goroutines stay those of the phase.                                 *)
LEMMA CallsOfPhaseStep ==
    ASSUME SInv, [Next]_vars
    PROVE  CallsOfPhase'
  <1> USE DEF SInv, vars, cloudVars, staticVars, gkeVars
  <1>0. pc \in [Threads -> Points] /\ req \in [Threads -> Requests]
    BY DEF GKEInv, GKETypeOK
  <1>1. CASE ReconcileNothing
    BY <1>1 DEF CallsOfPhase, ReconcileNothing
  <1>2. CASE Reconcile \/ FilterLocked
    <2>1. \A t \in Threads : pc'[t] = "idle"
      BY <1>2, NoGoroutine DEF Reconcile, FilterLocked
    <2> QED BY <2>1 DEF CallsOfPhase
  <1>4. CASE PhaseEnds
    BY <1>4 DEF CallsOfPhase, PhaseEnds
  <1>5. ASSUME NEW t \in Threads, NEW n \in Names, StartDelete(t, n)
        PROVE  CallsOfPhase'
    <2>1. /\ pc'[t] = "delLoad" /\ req'[t].kind = "delete" /\ phase' = phase
          /\ \A u \in Threads \ {t} : pc'[u] = pc[u] /\ req'[u] = req[u]
      BY <1>0, <1>5 DEF StartDelete, DeleteNodePool, Goto, NoRequest
    <2>2. phase \in DeletePhases
      BY <1>5 DEF StartDelete
    <2> QED BY <2>1, <2>2 DEF CallsOfPhase, DeletePoints, DeletePhases
  <1>6. ASSUME NEW t \in Threads, NEW n \in Names, StartCreate(t, n)
        PROVE  CallsOfPhase'
    <2>1. n \in Desired(plan.desired) /\ plan.desired \in ValidConfigMaps /\ phase = "create"
      BY <1>6 DEF StartCreate, PlanOK
    <2>2. /\ pc'[t] = "staticCheck" /\ req'[t].kind = "static" /\ phase' = phase
          /\ req'[t].name = n /\ req'[t].labels = DesiredNodePool(plan.desired, n).labels
          /\ \A u \in Threads \ {t} : pc'[u] = pc[u] /\ req'[u] = req[u]
      BY <1>0, <1>6, <2>1, DesiredNodePoolTyped DEF StartCreate, StaticEnsure, Goto
    <2>3. plan'.desired = plan.desired
      BY <1>6, StartCreateEffect
    <2> QED BY <2>1, <2>2, <2>3 DEF CallsOfPhase, StaticPoints, DeletePhases
  <1>7. ASSUME NEW t \in Threads, GoroutineEnds(t)
        PROVE  CallsOfPhase'
    BY <1>0, <1>7 DEF GoroutineEnds, CallEnds, CallsOfPhase
  <1>8. ASSUME NEW t \in Threads, Alone(CallStep(t))
        PROVE  CallsOfPhase'
    <2>1. CallStep(t) /\ UNCHANGED staticVars
      BY <1>8 DEF Alone
    <2>2. req' = req /\ \A u \in Threads : u # t => pc'[u] = pc[u]
      BY <2>1, CallStepLocal DEF GKEInv
    <2>3. pc[t] # "idle"
      BY <2>1, CallStepLocal DEF GKEInv
    <2> QED BY <2>1, <2>2, <2>3, CallOfPhase DEF CallsOfPhase, DeletePhases, DeletePoints, StaticPoints
  <1>9. CASE Alone(GKEStep)
    BY <1>9, GKEStepLocal DEF Alone, CallsOfPhase
  <1>10. CASE Kubernetes
    BY <1>10 DEF CallsOfPhase, Kubernetes, ChangeConfig, SliceTakes, UseEnds, SyncConfig, SyncUse, Resync
  <1>11. CASE Restart
    BY <1>11 DEF CallsOfPhase, Restart, ProviderRestarts
  <1>12. CASE UNCHANGED vars
    BY <1>12 DEF CallsOfPhase
  <1> QED
    BY <1>1, <1>2, <1>4, <1>5, <1>6, <1>7, <1>8, <1>9, <1>10, <1>11, <1>12 DEF Next, Running, Worker

(* The invariant is inductive.                                             *)
LEMMA SInvStep == SInv /\ [Next]_vars => SInv'
  <1> SUFFICES ASSUME SInv, [Next]_vars PROVE SInv'
    OBVIOUS
  <1>1. GKEInv'
    BY StaticStepIsGKEStep, GKEInvStep DEF SInv
  <1> QED
    BY <1>1, EnvTyped, ReconcileTyped, PlanStep, CallsOfPhaseStep DEF SInv

(* It holds at the start, with nothing under way.                          *)
LEMMA SInvInit == Init => SInv
  <1> SUFFICES ASSUME Init PROVE SInv
    OBVIOUS
  <1>1. GKEInv
    BY GKEInitTyped DEF Init
  <1>2. EnvTypeOK
    BY DEF Init, EnvTypeOK
  <1>3. ReconcileTypeOK
    BY NoPlanTyped DEF Init, ReconcileTypeOK
  <1>4. PlanOK
    BY DEF Init, PlanOK
  <1>5. CallsOfPhase
    BY DEF Init, GKEInit, CallsOfPhase
  <1> QED BY <1>1, <1>2, <1>3, <1>4, <1>5 DEF SInv

(* Type correctness of the static reconciler, its plan and its goroutines, *)
(* whatever the ConfigMaps, the concurrency and the faults of GKE.         *)
THEOREM StaticTypeCorrect == Spec => []StaticTypeOK
  <1>1. SInv => StaticTypeOK
    BY DEF SInv, GKEInv, EnvTypeOK, ReconcileTypeOK, StaticTypeOK
  <1> QED
    BY <1>1, SInvInit, SInvStep, PTL DEF Spec

(* The static reconciler implements the provider's specification: it       *)
(* changes the provider's state through its calls alone, so what holds of  *)
(* the provider under arbitrary callers holds here.                        *)
THEOREM StaticImplementsProvider == Spec => GKESpec
  <1>1. Init => GKEInit
    BY DEF Init
  <1>2. SInv /\ [Next]_vars => [GKENext]_gkeVars
    BY StaticStepIsGKEStep
  <1> QED
    BY <1>1, <1>2, SInvInit, SInvStep, PTL DEF Spec, GKESpec

(* So its calls too are answered as ProviderCalls promises, from however   *)
(* many goroutines they are made.                                          *)
THEOREM StaticSeesPromise == Spec => KeepsPromise
  BY StaticImplementsProvider, PromiseKept, PTL

-----------------------------------------------------------------------------
(* What a pool is made from can be told from its hash as far as the        *)
(* subblock goes: nodePoolHash covers the reservation in both of its forms. *)
LEMMA HashTellsSubblock ==
    ASSUME NEW c \in ValidConfigMaps, NEW d \in ValidConfigMaps, NEW m \in Desired(c), m \in Desired(d),
           AllHashes[c][m] = AllHashes[d][m]
    PROVE  SubblockOf(c, m) = SubblockOf(d, m)
  <1>1. Specs!nodePoolHash(AllNodePools[c][m]) = Specs!nodePoolHash(AllNodePools[d][m])
    BY DEF AllHashes
  <1>2. ASSUME NEW np PROVE Specs!nodePoolHash(np).reservation = np.reservation
    BY DEF Specs!nodePoolHash
  <1> QED
    BY <1>1, <1>2 DEF SubblockOf

(* Pools of one ConfigMap are on different subblocks.                      *)
LEMMA OwnSubblocks ==
    ASSUME NEW cm \in ValidConfigMaps, NEW m \in Desired(cm), NEW n \in Desired(cm), m # n
    PROVE  SubblockOf(cm, m) # SubblockOf(cm, n)
  BY ConfigMapsAssumption

(* What the steps of GKE and of the goroutines do to the record of what    *)
(* each pool was made from.                                                *)
LEMMA AloneEffect ==
    ASSUME NEW n \in Names,
           Alone(GKEStep) \/ \E t \in Threads : Alone(CallStep(t))
    PROVE  /\ UNCHANGED staticVars
           /\ pools[n].status # "ABSENT" /\ pools'[n].status # "ABSENT" => built'[n] = built[n]
           /\ pools[n].status = "ABSENT" /\ pools'[n].status # "ABSENT" => built'[n] = plan.desired
  BY DEF Alone

(* The end of an operation: no pool comes, and one in ERROR or gone stays  *)
(* as it is.                                                               *)
LEMMA GKEStepPools ==
    ASSUME GKETypeOK, GKEStep, NEW m \in Names
    PROVE  /\ pools'[m].status # "ABSENT" => pools[m].status # "ABSENT" /\ pools'[m].labels = pools[m].labels
           /\ pools[m].status \in {"ABSENT", "ERROR"} => pools'[m] = pools[m]
  <1>1. PICK n \in Names : Provisioned(n) \/ ProvisioningFails(n) \/ Deleted(n) \/ DeletionFails(n)
    BY DEF GKEStep
  <1>2. pools[n].status \notin {"ABSENT", "ERROR"}
    BY <1>1 DEF Provisioned, ProvisioningFails, Deleted, DeletionFails
  <1> QED BY <1>1, <1>2, OpEndsEffect

(* A goroutine of a deletion changes no pool but its own, and no label; a  *)
(* deletion that returns nil found its pool gone or its operation done.    *)
LEMMA DeleteCallEffect ==
    ASSUME SInv, phase \in DeletePhases, NEW t \in Threads, CallStep(t)
    PROVE  /\ pc[t] \in DeletePoints /\ req[t].name \in Names
           /\ pc'[t] \in DeletePoints \cup {"return"}
           /\ \A m \in Names :
                /\ pools'[m].labels = pools[m].labels
                /\ \/ pools'[m].status = pools[m].status
                   \/ /\ m = req[t].name
                      /\ pools[m].status # "ABSENT" /\ pools'[m].status = "STOPPING"
                      /\ pc'[t] = "deleteWait"
           /\ pc'[t] = "return" /\ ret'[t] = "nil" =>
                \/ pools[req[t].name].status = "ABSENT" /\ pools'[req[t].name].status = "ABSENT"
                \/ /\ pc[t] = "deleteWait" /\ op[t] = "done"
                   /\ pools'[req[t].name].status = pools[req[t].name].status
           /\ pc'[t] = "deleteWait" => op'[t] = "running"
           /\ \A u \in Threads \ {t} : ret'[u] = ret[u] /\ op'[u] = op[u]
  <1> USE DEF SInv, GKEInv, GKETypeOK, maps
  <1>0. /\ pc[t] \in DeletePoints /\ req[t].name \in Names
        /\ pc'[t] \in DeletePoints \cup {"return"}
        /\ \/ DeleteLoadNPName(t) \/ DeleteStoreNPName(t)
           \/ DeleteNotFound(t) \/ DeleteAccepted(t) \/ DeleteRefused(t) \/ DeleteWaits(t)
    BY CallOfPhase DEF DeletePhases, RequestsOK
  <1>1. CASE DeleteLoadNPName(t)
    BY <1>0, <1>1 DEF DeleteLoadNPName, Goto, Returns
  <1>2. CASE DeleteStoreNPName(t)
    BY <1>0, <1>2 DEF DeleteStoreNPName, Goto
  <1>3. CASE DeleteNotFound(t)
    BY <1>0, <1>3 DEF DeleteNotFound, DeleteReturns, Returns
  <1>4. CASE DeleteAccepted(t)
    BY <1>0, <1>4 DEF DeleteAccepted, Goto, Pools
  <1>5. CASE DeleteRefused(t)
    BY <1>0, <1>5 DEF DeleteRefused, DeleteReturns, Returns
  <1>6. CASE DeleteWaits(t)
    <2>1. CASE OpDone(t)
      BY <1>0, <1>6, <2>1 DEF DeleteWaits, DeleteReturns, Returns, OpDone, OpGivenUp
    <2>2. CASE OpGivenUp(t) /\ DeleteReturns(t, "Error")
      BY <1>0, <1>6, <2>2, GivenUpEffect DEF DeleteReturns, Returns, OpGivenUp
    <2> QED BY <1>6, <2>1, <2>2 DEF DeleteWaits
  <1> QED BY <1>0, <1>1, <1>2, <1>3, <1>4, <1>5, <1>6

(* A goroutine of a creation changes no pool but its own, and that only if *)
(* there was none.                                                         *)
LEMMA CreateCallEffect ==
    ASSUME SInv, phase = "create", NEW t \in Threads, CallStep(t)
    PROVE  /\ pc[t] \in StaticPoints /\ req[t].name \in Names
           /\ pc'[t] \in StaticPoints \cup {"return"}
           /\ \A m \in Names :
                \/ pools'[m].status = pools[m].status /\ pools'[m].labels = pools[m].labels
                \/ /\ m = req[t].name
                   /\ pools[m].status = "ABSENT" /\ pools'[m].status = "PROVISIONING"
                   /\ pools'[m].labels = req[t].labels
  <1> USE DEF SInv, GKEInv, GKETypeOK, maps
  <1>0. /\ pc[t] \in StaticPoints /\ req[t].name \in Names
        /\ pc'[t] \in StaticPoints \cup {"return"}
        /\ checkNodePoolExists(t) \/ StaticAccepted(t) \/ StaticRefused(t) \/ StaticWaits(t)
    BY CallOfPhase DEF DeletePhases, RequestsOK
  <1>1. CASE checkNodePoolExists(t)
    BY <1>0, <1>1 DEF checkNodePoolExists
  <1>2. CASE StaticAccepted(t)
    BY <1>0, <1>2 DEF StaticAccepted
  <1>3. CASE StaticRefused(t)
    BY <1>0, <1>3 DEF StaticRefused
  <1>4. CASE StaticWaits(t)
    BY <1>0, <1>4, GivenUpEffect DEF StaticWaits, OpDone
  <1> QED BY <1>0, <1>1, <1>2, <1>3, <1>4

-----------------------------------------------------------------------------
(* Steps of the ConfigMap, of Slices and of the caches.                    *)
LEMMA SubblocksOther ==
    ASSUME WInv, UNCHANGED <<cloudVars, phase, plan, failed>>
    PROVE  SubblocksOK'
  BY DEF WInv, SubblocksOK, cloudVars, gkeVars, BuiltOK, ListedOK, OneDeletePerPool, DoneOK,
         BlockersDealtWith, Blocks, Managed, Exists, DealtWith, DeleteAtWork, SubblockOf

(* Whatever blocks a pool to create is in one of the lists: it is not in   *)
(* the ConfigMap, or its subblock is not that of the ConfigMap and the     *)
(* hash shows it.                                                          *)
LEMMA SubblocksReconcile ==
    ASSUME WInv, Reconcile
    PROVE  SubblocksOK'
  <1> DEFINE cm == configSeen
             P  == DiffStaticNodePools(cm)
  <1>1. /\ cm \in ValidConfigMaps /\ phase' = "filter" /\ plan' = P
        /\ UNCHANGED <<gkeVars, built, failed>>
    BY DEF Reconcile, cloudVars
  <1>2. /\ P.missing = ToDeleteMissing(cm) /\ P.error = ToDeleteError(cm) /\ P.update = ToDeleteUpdate(cm)
        /\ P.desired = cm /\ P.listed = built /\ P.create \subseteq Desired(cm)
    BY <1>1, DiffTyped DEF DiffStaticNodePools, WInv, SInv
  <1> HIDE DEF cm, P
  <1>3. \A t \in Threads : pc'[t] = "idle"
    BY <1>1, NoGoroutine DEF WInv, SInv, Reconcile, gkeVars
  <1>4. BuiltOK'
    BY <1>1 DEF WInv, SubblocksOK, BuiltOK, Exists, gkeVars
  <1>5. ListedOK'
    BY <1>1, <1>2 DEF ListedOK
  <1>6. OneDeletePerPool' /\ DoneOK'
    BY <1>3 DEF OneDeletePerPool, DoneOK
  <1>7. ASSUME NEW n \in P.create, NEW m \in Names, Managed(m), m # n, SubblockOf(built[m], m) = SubblockOf(cm, n)
        PROVE  m \in P.missing \cup P.error \cup P.update
    <2>1. Exists(m) /\ pools[m].labels.static /\ pools[m].labels.hash # None
      BY <1>7 DEF Managed
    <2>2. CASE m \notin Desired(cm)
      BY <1>2, <2>1, <2>2 DEF ToDeleteMissing
    <2>3. CASE m \in Desired(cm)
      <3>1. SubblockOf(cm, m) # SubblockOf(built[m], m)
        BY <1>1, <1>2, <1>7, <2>3, OwnSubblocks
      <3>2. built[m] \in ValidConfigMaps /\ m \in Desired(built[m]) /\ pools[m].labels.hash = AllHashes[built[m]][m]
        BY <2>1 DEF WInv, SubblocksOK, BuiltOK
      <3>3. pools[m].labels.hash # AllHashes[cm][m]
        BY <1>1, <2>3, <3>1, <3>2, HashTellsSubblock
      <3> QED BY <1>2, <2>1, <2>3, <3>3 DEF ToDeleteUpdate
    <2> QED BY <2>2, <2>3
  <1>8. BlockersDealtWith'
    BY <1>1, <1>2, <1>7 DEF BlockersDealtWith, Blocks, Managed, Exists, DealtWith, DeletePhases, gkeVars, SubblockOf
  <1> QED BY <1>4, <1>5, <1>6, <1>8 DEF SubblocksOK

(* filterLocked drops what a pool that stays would block.                  *)
LEMMA SubblocksFilter ==
    ASSUME WInv, FilterLocked
    PROVE  SubblocksOK'
  <1> DEFINE skipped == (plan.missing \cup plan.update) \cap inUseSeen
  <1>1. phase = "filter" /\ phase' = "missing" /\ UNCHANGED <<gkeVars, built, failed>>
    BY DEF FilterLocked, cloudVars
  <1>2. /\ plan'.missing = plan.missing \ skipped /\ plan'.update = plan.update \ skipped
        /\ plan'.error = plan.error
        /\ plan'.create = {n \in plan.create : MayCreate(n, skipped)}
        /\ plan'.desired = plan.desired
    BY FilterEffect DEF WInv, SInv
  <1> HIDE DEF skipped
  <1>3. \A t \in Threads : pc[t] = "idle"
    BY <1>1, NoGoroutine DEF WInv, SInv
  <1>4. BuiltOK' /\ ListedOK' /\ OneDeletePerPool' /\ DoneOK'
    BY <1>1, <1>3 DEF WInv, SubblocksOK, BuiltOK, ListedOK, OneDeletePerPool, DoneOK, Exists, gkeVars
  <1>5. ASSUME NEW n \in plan'.create, NEW m \in Names, Blocks(m, n)
        PROVE  \/ m \in plan'.missing \cup plan'.error \cup plan'.update
               \/ failed
               \/ pools[m].status = "ERROR"
    <2>1. n \in plan.create /\ MayCreate(n, skipped)
      BY <1>2
    <2>2. DealtWith(m)
      BY <1>1, <1>5, <2>1 DEF WInv, SubblocksOK, BlockersDealtWith
    <2>3. m \notin skipped
      <3>1. built[m] = plan.listed[m]
        BY <1>1, <1>5 DEF WInv, SubblocksOK, ListedOK, Blocks, Managed
      <3> QED BY <1>5, <2>1, <3>1 DEF Blocks, MayCreate
    <2>4. m \in plan.missing \cup plan.error \cup plan.update \/ failed \/ pools[m].status = "ERROR"
      BY <1>3, <2>2 DEF DealtWith, DeleteAtWork, DeletePoints
    <2> QED BY <1>2, <2>3, <2>4
  <1>6. BlockersDealtWith'
    BY <1>1, <1>2, <1>5 DEF BlockersDealtWith, Blocks, Managed, Exists, DealtWith, gkeVars, SubblockOf
  <1> QED BY <1>4, <1>6 DEF SubblocksOK

(* When the deletions are over without an error, what still blocks a pool  *)
(* to create is in ERROR.                                                  *)
LEMMA SubblocksPhaseEnds ==
    ASSUME WInv, PhaseEnds
    PROVE  SubblocksOK'
  <1>1. /\ \A t \in Threads : pc[t] = "idle"
        /\ UNCHANGED <<gkeVars, built>> /\ failed' = FALSE
    BY DEF PhaseEnds, cloudVars
  <1>2. BuiltOK' /\ OneDeletePerPool' /\ DoneOK'
    BY <1>1 DEF WInv, SubblocksOK, BuiltOK, OneDeletePerPool, DoneOK, Exists, gkeVars
  <1>3. CASE phase' = "idle"
    BY <1>2, <1>3 DEF SubblocksOK, ListedOK, BlockersDealtWith, DeletePhases
  <1>4. CASE phase' # "idle"
    <2>1. /\ plan' = plan /\ ~failed /\ plan[phase] = {}
          /\ phase \in DOMAIN NextPhase /\ phase' = NextPhase[phase]
      BY <1>4 DEF PhaseEnds
    <2>2. \/ phase = "missing" /\ phase' = "error" /\ plan.missing = {}
          \/ phase = "error" /\ phase' = "update" /\ plan.error = {}
          \/ phase = "update" /\ phase' = "create" /\ plan.update = {}
      BY <1>4, <2>1 DEF NextPhase
    <2>3. ASSUME NEW n \in plan.create, NEW m \in Names, Blocks(m, n)
          PROVE  \/ m \in plan.missing \cup plan.error \cup plan.update
                 \/ pools[m].status = "ERROR"
      <3>1. DealtWith(m)
        BY <2>2, <2>3 DEF WInv, SubblocksOK, BlockersDealtWith, DeletePhases
      <3> QED BY <1>1, <2>1, <3>1 DEF DealtWith, DeleteAtWork, DeletePoints
    <2>4. phase' = "create" => plan.missing = {} /\ plan.error = {} /\ plan.update = {}
      BY <2>2 DEF WInv, SInv, PlanOK
    <2>5. BlockersDealtWith'
      BY <1>1, <2>1, <2>2, <2>3, <2>4
      DEF BlockersDealtWith, Blocks, Managed, Exists, DealtWith, DeletePhases, StaticPoints, gkeVars, SubblockOf
    <2>6. ListedOK'
      BY <2>2 DEF ListedOK
    <2> QED BY <1>2, <2>5, <2>6 DEF SubblocksOK
  <1> QED BY <1>3, <1>4

(* A pool taken from a list is at once the work of a goroutine, and of one *)
(* only.                                                                   *)
LEMMA SubblocksStartDelete ==
    ASSUME WInv, NEW t \in Threads, NEW n \in Names, StartDelete(t, n)
    PROVE  SubblocksOK'
  <1> USE DEF WInv, SInv, GKEInv, GKETypeOK
  <1>1. /\ phase \in DeletePhases /\ n \in plan[phase] /\ pc[t] = "idle"
        /\ UNCHANGED <<pools, op, ret, built, phase, failed>>
        /\ pc'[t] = "delLoad" /\ req'[t].name = n
        /\ \A u \in Threads \ {t} : pc'[u] = pc[u] /\ req'[u] = req[u]
    BY DEF StartDelete, DeleteNodePool, Goto, NoRequest
  <1>2. /\ plan'.create = plan.create /\ plan'.desired = plan.desired
        /\ plan'[phase] = plan[phase] \ {n}
        /\ plan'.missing \cup plan'.error \cup plan'.update \cup {n}
             = plan.missing \cup plan.error \cup plan.update \cup {n}
    BY <1>1, StartDeleteEffect DEF DeletePhases
  <1>3. BuiltOK' /\ ListedOK'
    BY <1>1 DEF SubblocksOK, BuiltOK, ListedOK, Exists, DeletePhases
  <1>4. OneDeletePerPool'
    BY <1>1, <1>2 DEF SubblocksOK, OneDeletePerPool
  <1>5. DoneOK'
    BY <1>1 DEF SubblocksOK, DoneOK
  <1>6. ASSUME NEW k \in plan.create, NEW m \in Names, Blocks(m, k)
        PROVE  DealtWith(m)'
    <2>1. DealtWith(m)
      BY <1>1, <1>6 DEF SubblocksOK, BlockersDealtWith
    <2>2. CASE m = n
      BY <1>1, <2>2 DEF DealtWith, DeleteAtWork, DeletePoints
    <2>3. CASE m # n
      BY <1>1, <1>2, <2>1, <2>3 DEF DealtWith, DeleteAtWork, DeletePoints
    <2> QED BY <2>2, <2>3
  <1>7. BlockersDealtWith'
    BY <1>1, <1>2, <1>6 DEF BlockersDealtWith, Blocks, Managed, Exists, DeletePhases, SubblockOf
  <1> QED BY <1>3, <1>4, <1>5, <1>7 DEF SubblocksOK

(* A pool whose creation starts has nothing in its way but pools in ERROR. *)
LEMMA SubblocksStartCreate ==
    ASSUME WInv, NEW t \in Threads, NEW n \in Names, StartCreate(t, n)
    PROVE  SubblocksOK'
  <1> USE DEF WInv, SInv, GKEInv, GKETypeOK
  <1>0. DesiredNodePool(plan.desired, n).name = n
    BY DesiredNodePoolTyped DEF StartCreate, PlanOK
  <1>1. /\ phase = "create" /\ n \in plan.create /\ pc[t] = "idle"
        /\ UNCHANGED <<pools, op, ret, built, phase, failed>>
        /\ pc'[t] = "staticCheck" /\ req'[t].name = n
        /\ \A u \in Threads \ {t} : pc'[u] = pc[u] /\ req'[u] = req[u]
    BY <1>0 DEF StartCreate, StaticEnsure, Goto
  <1>2. plan'.create \subseteq plan.create /\ plan'.desired = plan.desired
    BY StartCreateEffect
  <1>3. BuiltOK' /\ ListedOK' /\ OneDeletePerPool'
    BY <1>1 DEF SubblocksOK, BuiltOK, ListedOK, OneDeletePerPool, Exists, DeletePhases
  <1>4. DoneOK'
    BY <1>1 DEF SubblocksOK, DoneOK
  <1>5. BlockersDealtWith'
    BY <1>1, <1>2 DEF SubblocksOK, BlockersDealtWith, Blocks, Managed, Exists, DeletePhases, SubblockOf
  <1> QED BY <1>3, <1>4, <1>5 DEF SubblocksOK

(* A deletion that was not done when its goroutine ends is remembered as   *)
(* an error.                                                               *)
LEMMA SubblocksGoroutineEnds ==
    ASSUME WInv, NEW t \in Threads, GoroutineEnds(t)
    PROVE  SubblocksOK'
  <1> USE DEF WInv, SInv, GKEInv, GKETypeOK
  <1>1. /\ pc[t] = "return" /\ pc'[t] = "idle" /\ failed' = (failed \/ ret[t] # "nil")
        /\ UNCHANGED <<pools, op, built, phase, plan>>
        /\ \A u \in Threads \ {t} : pc'[u] = pc[u] /\ req'[u] = req[u] /\ ret'[u] = ret[u]
    BY DEF GoroutineEnds, CallEnds
  <1>2. BuiltOK' /\ ListedOK'
    BY <1>1 DEF SubblocksOK, BuiltOK, ListedOK, Exists
  <1>3. OneDeletePerPool' /\ DoneOK'
    BY <1>1 DEF SubblocksOK, OneDeletePerPool, DoneOK
  <1>4. ASSUME NEW m \in Names, DealtWith(m)
        PROVE  DealtWith(m)'
    BY <1>1, <1>4 DEF DealtWith, DeleteAtWork, DeletePoints
  <1>5. BlockersDealtWith'
    BY <1>1, <1>4 DEF SubblocksOK, BlockersDealtWith, Blocks, Managed, Exists, SubblockOf, StaticPoints
  <1> QED BY <1>2, <1>3, <1>5 DEF SubblocksOK

(* A step of a deletion: it returns nil only for a pool that is gone or in *)
(* ERROR, since no other goroutine works on the pool.                      *)
LEMMA SubblocksDeleteCall ==
    ASSUME WInv, phase \in DeletePhases, NEW t \in Threads, Alone(CallStep(t))
    PROVE  SubblocksOK'
  <1> USE DEF WInv, SInv
  <1>1. CallStep(t) /\ UNCHANGED <<phase, plan, failed>>
    BY DEF Alone, staticVars
  <1>2. /\ pc[t] \in DeletePoints /\ req[t].name \in Names
        /\ pc'[t] \in DeletePoints \cup {"return"}
        /\ req' = req
        /\ \A u \in Threads \ {t} : pc'[u] = pc[u] /\ ret'[u] = ret[u] /\ op'[u] = op[u]
        /\ pc'[t] = "deleteWait" => op'[t] = "running"
    BY <1>1, DeleteCallEffect, CallStepLocal DEF GKEInv
  <1>3. ASSUME NEW m \in Names
        PROVE  /\ pools'[m].labels = pools[m].labels
               /\ pools'[m].status # "ABSENT" <=> pools[m].status # "ABSENT"
               /\ pools'[m].status # "ABSENT" => built'[m] = built[m]
               /\ \/ pools'[m].status = pools[m].status
                  \/ m = req[t].name /\ pc'[t] = "deleteWait"
    BY <1>1, DeleteCallEffect, AloneEffect
  <1>4. BuiltOK'
    BY <1>3 DEF SubblocksOK, BuiltOK, Exists
  <1>5. ListedOK'
    BY <1>1 DEF ListedOK, DeletePhases
  <1>6. OneDeletePerPool'
    BY <1>1, <1>2 DEF SubblocksOK, OneDeletePerPool, DeletePoints
  <1>7. DoneOK'
    <2> SUFFICES ASSUME NEW u \in Threads, pc'[u] = "deleteWait", op'[u] = "done"
                 PROVE  pools'[req[u].name].status \in {"ABSENT", "ERROR"}
      BY <1>2 DEF DoneOK
    <2>1. u # t /\ pc[u] = "deleteWait" /\ op[u] = "done"
      BY <1>2
    <2>2. req[u].name # req[t].name /\ req[u].name \in Names
      BY <1>2, <2>1 DEF SubblocksOK, OneDeletePerPool, DeletePoints, GKEInv, RequestsOK
    <2> QED BY <1>3, <2>1, <2>2 DEF SubblocksOK, DoneOK
  <1>8. ASSUME NEW m \in Names, pools[m].status # "ABSENT", DealtWith(m)
        PROVE  DealtWith(m)'
    <2>1. CASE m \in plan.missing \cup plan.error \cup plan.update \/ failed
      BY <1>1, <2>1 DEF DealtWith
    <2>2. CASE \E u \in Threads \ {t} : DeleteAtWork(u, m)
      BY <1>2, <2>2 DEF DealtWith, DeleteAtWork
    <2>3. CASE pools[m].status = "ERROR"
      BY <1>2, <1>3, <2>3 DEF DealtWith, DeleteAtWork, DeletePoints
    <2>4. CASE DeleteAtWork(t, m)
      <3>1. m = req[t].name
        BY <2>4 DEF DeleteAtWork
      <3>2. CASE pc'[t] = "return" /\ ret'[t] = "nil"
        <4>1. pc[t] = "deleteWait" /\ op[t] = "done" /\ pools'[m].status = pools[m].status
          BY <1>1, <1>8, <3>1, <3>2, DeleteCallEffect
        <4>2. pools[m].status = "ERROR"
          BY <1>8, <3>1, <4>1 DEF SubblocksOK, DoneOK
        <4> QED BY <4>1, <4>2 DEF DealtWith
      <3>3. CASE ~(pc'[t] = "return" /\ ret'[t] = "nil")
        BY <1>2, <3>1, <3>3 DEF DealtWith, DeleteAtWork
      <3> QED BY <3>2, <3>3
    <2> QED BY <1>8, <2>1, <2>2, <2>3, <2>4 DEF DealtWith
  <1>9. BlockersDealtWith'
    BY <1>1, <1>3, <1>8 DEF SubblocksOK, BlockersDealtWith, Blocks, Managed, Exists, SubblockOf, DeletePhases
  <1> QED BY <1>4, <1>5, <1>6, <1>7, <1>9 DEF SubblocksOK

(* A pool that is created is of the ConfigMap that was read and in the way *)
(* of no other pool of it.                                                 *)
LEMMA SubblocksCreateCall ==
    ASSUME WInv, phase = "create", NEW t \in Threads, Alone(CallStep(t))
    PROVE  SubblocksOK'
  <1> USE DEF WInv, SInv
  <1>1. CallStep(t) /\ UNCHANGED <<phase, plan, failed>>
    BY DEF Alone, staticVars
  <1>2. /\ pc[t] \in StaticPoints /\ req[t].name \in Names
        /\ pc'[t] \in StaticPoints \cup {"return"}
        /\ req' = req
        /\ \A u \in Threads \ {t} : pc'[u] = pc[u]
    BY <1>1, CreateCallEffect, CallStepLocal DEF GKEInv
  <1>3. \A u \in Threads : pc[u] \in StaticPoints => req[u].name \in Desired(plan.desired)
    BY DEF CallsOfPhase, StaticPoints, DeletePhases
  <1>4. plan.desired \in ValidConfigMaps /\ plan.create \subseteq Desired(plan.desired)
    BY DEF PlanOK
  <1>5. ASSUME NEW m \in Names
        PROVE  \/ /\ pools'[m].status = pools[m].status /\ pools'[m].labels = pools[m].labels
                  /\ pools'[m].status # "ABSENT" => built'[m] = built[m]
               \/ /\ m = req[t].name /\ built'[m] = plan.desired
                  /\ pools'[m].labels = req[t].labels
    <2>1. \/ pools'[m].status = pools[m].status /\ pools'[m].labels = pools[m].labels
          \/ /\ m = req[t].name
             /\ pools[m].status = "ABSENT" /\ pools'[m].status = "PROVISIONING"
             /\ pools'[m].labels = req[t].labels
      BY <1>1, CreateCallEffect
    <2>2. /\ pools[m].status # "ABSENT" /\ pools'[m].status # "ABSENT" => built'[m] = built[m]
          /\ pools[m].status = "ABSENT" /\ pools'[m].status # "ABSENT" => built'[m] = plan.desired
      BY AloneEffect
    <2> QED BY <2>1, <2>2
  <1>6. BuiltOK'
    <2>1. req[t].labels.hash = AllHashes[plan.desired][req[t].name]
      BY <1>2, <1>3, <1>4, DesiredNodePoolTyped DEF CallsOfPhase, StaticPoints, DeletePhases
    <2> QED BY <1>2, <1>3, <1>4, <1>5, <2>1 DEF SubblocksOK, BuiltOK, Exists
  <1>7. ListedOK' /\ OneDeletePerPool'
    BY <1>1 DEF ListedOK, OneDeletePerPool, DeletePhases
  <1>8. DoneOK'
    <2>1. \A u \in Threads : pc[u] # "deleteWait"
      BY DEF CallsOfPhase, StaticPoints, DeletePhases
    <2> QED BY <1>2, <2>1 DEF DoneOK, StaticPoints
  <1>9. ASSUME NEW n \in Desired(plan.desired), NEW m \in Names, Blocks(m, n)'
        PROVE  Blocks(m, n) /\ pools'[m].status = pools[m].status
    <2>1. m # n /\ SubblockOf(built'[m], m) = SubblockOf(plan.desired, n)
      BY <1>1, <1>9 DEF Blocks, SubblockOf
    <2>2. ~(m = req[t].name /\ built'[m] = plan.desired)
      BY <1>2, <1>3, <1>4, <2>1, OwnSubblocks
    <2> QED BY <1>1, <1>5, <1>9, <2>1, <2>2 DEF Blocks, Managed, Exists, SubblockOf
  <1>10. BlockersDealtWith'
    <2>1. ASSUME NEW n \in plan.create, NEW m \in Names, Blocks(m, n)'
          PROVE  pools'[m].status = "ERROR"
      BY <1>4, <1>9, <2>1 DEF SubblocksOK, BlockersDealtWith
    <2>2. ASSUME NEW u \in Threads, NEW m \in Names, pc'[u] \in StaticPoints, Blocks(m, req[u].name)'
          PROVE  pools'[m].status = "ERROR"
      <3>1. pc[u] \in StaticPoints
        BY <1>2, <2>2
      <3>2. Blocks(m, req[u].name) /\ pools'[m].status = pools[m].status
        BY <1>2, <1>3, <1>9, <2>2, <3>1 DEF Blocks
      <3> QED BY <3>1, <3>2 DEF SubblocksOK, BlockersDealtWith
    <2> QED BY <1>1, <1>2, <2>1, <2>2 DEF BlockersDealtWith, DeletePhases, Blocks
  <1> QED BY <1>6, <1>7, <1>8, <1>10 DEF SubblocksOK

(* An operation that ends is told to the goroutine that started it: a      *)
(* deletion leaves the pool gone or in ERROR.                              *)
LEMMA SubblocksGKE ==
    ASSUME WInv, Alone(GKEStep)
    PROVE  SubblocksOK'
  <1> USE DEF WInv, SInv
  <1>1. GKEStep /\ UNCHANGED <<phase, plan, failed>> /\ GKETypeOK
    BY DEF Alone, staticVars, GKEInv
  <1>2. PICK n \in Names : Provisioned(n) \/ ProvisioningFails(n) \/ Deleted(n) \/ DeletionFails(n)
    BY <1>1 DEF GKEStep
  <1>3. /\ UNCHANGED <<pc, req, ret>>
        /\ \A t \in Threads : op'[t] = IF t = pools[n].waiter THEN "done" ELSE op[t]
    BY <1>1, <1>2, OpEndsEffect
  <1>4. ASSUME NEW m \in Names
        PROVE  /\ pools'[m].status # "ABSENT" => /\ pools[m].status # "ABSENT"
                                                 /\ pools'[m].labels = pools[m].labels
                                                 /\ built'[m] = built[m]
               /\ pools[m].status \in {"ABSENT", "ERROR"} => pools'[m].status = pools[m].status
    BY <1>1, GKEStepPools, AloneEffect
  <1>5. BuiltOK' /\ ListedOK'
    BY <1>1, <1>4 DEF SubblocksOK, BuiltOK, ListedOK, Exists
  <1>6. OneDeletePerPool'
    BY <1>1, <1>3 DEF SubblocksOK, OneDeletePerPool
  <1>7. DoneOK'
    <2> SUFFICES ASSUME NEW t \in Threads, pc[t] = "deleteWait", op'[t] = "done"
                 PROVE  pools'[req[t].name].status \in {"ABSENT", "ERROR"}
      BY <1>3 DEF DoneOK
    <2>1. req[t].name \in Names
      BY DEF GKEInv, RequestsOK, DeletePoints
    <2>2. CASE op[t] = "done"
      BY <1>4, <2>1, <2>2 DEF SubblocksOK, DoneOK
    <2>3. CASE op[t] # "done"
      <3>1. pools[n].waiter = t
        BY <1>3, <2>3
      <3>2. req[t].name = n /\ pools[n].status = "STOPPING"
        BY <3>1 DEF WaitersMatch
      <3>3. Deleted(n) \/ DeletionFails(n)
        BY <1>2, <3>2 DEF Provisioned, ProvisioningFails
      <3>4. pools \in [Names -> Pools] /\ pools[n] \in Pools
        BY <1>1 DEF GKETypeOK
      <3>5. CASE Deleted(n)
        BY <3>2, <3>4, <3>5 DEF Deleted, OpEnds, AbsentPool
      <3>6. CASE DeletionFails(n)
        BY <3>2, <3>4, <3>6 DEF DeletionFails, OpEnds, Pools
      <3> QED BY <3>3, <3>5, <3>6
    <2> QED BY <2>2, <2>3
  <1>8. ASSUME NEW m \in Names, DealtWith(m)
        PROVE  DealtWith(m)'
    BY <1>1, <1>3, <1>4, <1>8 DEF DealtWith, DeleteAtWork
  <1>9. BlockersDealtWith'
    BY <1>1, <1>3, <1>4, <1>8 DEF SubblocksOK, BlockersDealtWith, Blocks, Managed, Exists, SubblockOf
  <1> QED BY <1>5, <1>6, <1>7, <1>9 DEF SubblocksOK

(* A restart leaves the pools as they are and forgets the plan.            *)
LEMMA SubblocksRestart ==
    ASSUME WInv, Restart
    PROVE  SubblocksOK'
  <1> USE DEF WInv, SInv
  <1>1. \A n \in Names : pools'[n].status = pools[n].status /\ pools'[n].labels = pools[n].labels
    BY DEF Restart, ProviderRestarts, GKEInv, GKETypeOK, Pools
  <1>2. BuiltOK'
    BY <1>1 DEF SubblocksOK, BuiltOK, Exists, Restart
  <1>3. phase' = "idle" /\ \A t \in Threads : pc'[t] = "idle"
    BY DEF Restart, ProviderRestarts
  <1>4. ListedOK' /\ OneDeletePerPool' /\ DoneOK' /\ BlockersDealtWith'
    BY <1>3 DEF ListedOK, OneDeletePerPool, DoneOK, BlockersDealtWith, DeletePhases
  <1> QED BY <1>2, <1>4 DEF SubblocksOK

(* What stands in the way of a creation stays dealt with.                  *)
LEMMA SubblocksStep ==
    ASSUME WInv, [Next]_vars
    PROVE  SubblocksOK'
  <1>1. CASE ReconcileNothing
    BY <1>1, SubblocksOther DEF ReconcileNothing
  <1>2. ASSUME NEW t \in Threads, Alone(CallStep(t))
        PROVE  SubblocksOK'
    <2>1. phase \in DeletePhases \/ phase = "create"
      BY <1>2, CallOfPhase DEF WInv, SInv, Alone
    <2> QED BY <1>2, <2>1, SubblocksDeleteCall, SubblocksCreateCall
  <1>3. CASE Kubernetes
    BY <1>3, SubblocksOther
    DEF Kubernetes, ChangeConfig, SliceTakes, UseEnds, SyncConfig, SyncUse, Resync, staticVars
  <1>4. CASE UNCHANGED vars
    BY <1>4, SubblocksOther DEF vars, staticVars
  <1> QED
    BY <1>1, <1>2, <1>3, <1>4, SubblocksReconcile, SubblocksFilter, SubblocksPhaseEnds,
       SubblocksStartDelete, SubblocksStartCreate, SubblocksGoroutineEnds, SubblocksGKE, SubblocksRestart
    DEF Next, Running, Worker

(* At the start no call is under way and no pool is being dealt with.      *)
LEMMA SubblocksInit == Init => SubblocksOK
  <1> SUFFICES ASSUME Init PROVE SubblocksOK
    OBVIOUS
  <1>1. phase = "idle" /\ \A t \in Threads : pc[t] = "idle"
    BY DEF Init, GKEInit
  <1>2. BuiltOK
    BY ConfigMapsAssumption DEF Init, BuiltOK
  <1>3. ListedOK /\ OneDeletePerPool /\ DoneOK /\ BlockersDealtWith
    BY <1>1 DEF ListedOK, OneDeletePerPool, DoneOK, BlockersDealtWith, DeletePhases
  <1> QED BY <1>2, <1>3 DEF SubblocksOK

(* No creation on the subblock of another working pool that the reconciler *)
(* can recognise, for any ConfigMaps, any concurrency and any schedule of  *)
(* goroutines, GKE operations, timeouts, changes of the ConfigMap, of      *)
(* Slices and of the caches, and restarts.                                 *)
THEOREM SubblockKept == Spec => WorkingPoolKeepsSubblock
  <1>1. Init => SInv /\ SubblocksOK
    BY SInvInit, SubblocksInit
  <1>2. SInv /\ WaitersMatch /\ SubblocksOK /\ [Next]_vars => SInv' /\ SubblocksOK'
    BY SInvStep, SubblocksStep DEF WInv
  <1>3. Spec => []WaitersMatch
    BY StaticImplementsProvider, WaitersAlways, PTL
  <1>4. SInv /\ SubblocksOK /\ [Next]_vars =>
          [\A t \in Threads : Creates(t) =>
             \A m \in Names : Blocks(m, req[t].name) => pools[m].status = "ERROR"]_vars
    <2> SUFFICES ASSUME SInv, SubblocksOK, NEW t \in Threads, Creates(t), NEW m \in Names, Blocks(m, req[t].name)
                 PROVE  pools[m].status = "ERROR"
      OBVIOUS
    <2>1. pc[t] \in StaticPoints /\ phase = "create"
      BY DEF Creates, SInv, CallsOfPhase, StaticPoints, DeletePoints
    <2> QED BY <2>1 DEF SubblocksOK, BlockersDealtWith
  <1> QED
    BY <1>1, <1>2, <1>3, <1>4, PTL DEF Spec, WorkingPoolKeepsSubblock
=============================================================================
