------------------------- MODULE GKEProviderProofs -------------------------
(* Theorems about GKEProvider, for any set of threads, names and labels.   *)
EXTENDS GKEProvider, TLAPS

CreatePoints == {"check", "npLoad", "npStore", "keyLoad", "keyStore", "create", "createWait"}
StaticPoints == {"staticCheck", "staticCreate", "staticWait"}

(* The arguments of a call in progress: what each control point can rely   *)
(* on about the request.                                                   *)
RequestsOK ==
    \A t \in Threads :
        /\ pc[t] \in CreatePoints \cup DeletePoints \cup StaticPoints => req[t].name \in Names
        /\ pc[t] \in CreatePoints => req[t].jobKey \in JobKeys /\ req[t].kind = "ensure"
        /\ pc[t] \in StaticPoints => req[t].kind = "static"
        /\ req[t].kind \in {"ensure", "static"} => req[t].labels.hash # None

GKEInv == GKETypeOK /\ RequestsOK

(* What nodePoolForPod puts in a request is well typed and carries a hash. *)
LEMMA DesiredTyped ==
    ASSUME NEW np \in NodePools
    PROVE  /\ np.name \in Names /\ np.jobKey \in JobKeys
           /\ np.labels \in Labels /\ np.labels.hash # None
  BY NoneAssumption DEF NodePools, Labels

(* So is what StaticNodePoolForSubBlock puts in one.                       *)
LEMMA StaticTyped ==
    ASSUME NEW np \in StaticNodePools
    PROVE  /\ np.name \in Names
           /\ np.labels \in Labels /\ np.labels.hash # None
  BY NoneAssumption DEF StaticNodePools, Labels

(* The "nothing there" values are well typed.                              *)
LEMMA EmptyTyped ==
    /\ NoLabels \in Labels /\ AbsentPool \in Pools
    /\ NoRequest \in Requests /\ NoRequest.kind = "none"
  <1>1. NoLabels \in Labels
    BY DEF NoLabels, Labels
  <1> QED
    BY <1>1 DEF AbsentPool, Pools, Statuses, NoRequest, Requests

(* The initial states are well typed.                                      *)
LEMMA GKEInitTyped == GKEInit => GKEInv
  <1> SUFFICES ASSUME GKEInit PROVE GKEInv
    OBVIOUS
  <1>3. [status : {"RUNNING", "ERROR"}, labels : InitialLabels, waiter : {None}] \subseteq Pools
    BY InitialLabelsAssumption DEF Pools, Statuses
  <1>4. pools \in [Names -> Pools]
    BY <1>3, EmptyTyped DEF GKEInit
  <1>6. GKETypeOK
    BY <1>4, EmptyTyped DEF GKEInit, GKETypeOK, Points, Results
  <1>7. RequestsOK
    BY DEF GKEInit, RequestsOK, CreatePoints, DeletePoints, StaticPoints, NoRequest
  <1> QED
    BY <1>6, <1>7 DEF GKEInv

(* Each step of a call keeps the types and the shape of the requests.      *)
LEMMA CallTyped ==
    ASSUME GKEInv, NEW t \in Threads, CallStep(t)
    PROVE  GKEInv'
  <1> USE DEF GKEInv, GKETypeOK, RequestsOK, CreatePoints, DeletePoints, StaticPoints, Points, Results, maps
  <1>1. CASE Check(t)
    BY <1>1 DEF Check, Goto, Returns
  <1>2. CASE CheckFails(t)
    BY <1>2 DEF CheckFails, Returns
  <1>3. CASE CreateLoadNPName(t)
    BY <1>3 DEF CreateLoadNPName, Goto, Returns
  <1>4. CASE CreateStoreNPName(t)
    BY <1>4 DEF CreateStoreNPName, Goto
  <1>5. CASE CreateLoadJobKey(t)
    BY <1>5 DEF CreateLoadJobKey, Goto, Returns
  <1>6. CASE CreateStoreJobKey(t)
    BY <1>6 DEF CreateStoreJobKey, Goto
  <1>7. CASE CreateAccepted(t)
    BY <1>7 DEF CreateAccepted, Goto, Pools, Statuses, Requests
  <1>8. CASE CreateRefused(t)
    BY <1>8 DEF CreateRefused, CreateReturns, Returns
  <1>9. CASE CreateWaits(t)
    BY <1>9 DEF CreateWaits, CreateReturns, Returns, OpDone, OpGivenUp, Pools
  <1>10. CASE DeleteLoadNPName(t)
    BY <1>10 DEF DeleteLoadNPName, Goto, Returns
  <1>11. CASE DeleteStoreNPName(t)
    BY <1>11 DEF DeleteStoreNPName, Goto
  <1>12. CASE DeleteNotFound(t)
    BY <1>12 DEF DeleteNotFound, DeleteReturns, Returns
  <1>13. CASE DeleteAccepted(t)
    BY <1>13 DEF DeleteAccepted, Goto, Pools, Statuses
  <1>14. CASE DeleteRefused(t)
    BY <1>14 DEF DeleteRefused, DeleteReturns, Returns
  <1>15. CASE DeleteWaits(t)
    BY <1>15 DEF DeleteWaits, DeleteReturns, Returns, OpDone, OpGivenUp, Pools
  <1>16. CASE checkNodePoolExists(t)
    BY <1>16 DEF checkNodePoolExists, Goto, Returns
  <1>17. CASE StaticAccepted(t)
    BY <1>17 DEF StaticAccepted, Goto, Pools, Statuses, Requests
  <1>18. CASE StaticRefused(t)
    BY <1>18 DEF StaticRefused, Returns
  <1>19. CASE StaticWaits(t)
    BY <1>19 DEF StaticWaits, Returns, OpDone, OpGivenUp, Pools
  <1> QED
    BY <1>1, <1>2, <1>3, <1>4, <1>5, <1>6, <1>7, <1>8, <1>9, <1>10, <1>11, <1>12, <1>13,
       <1>14, <1>15, <1>16, <1>17, <1>18, <1>19 DEF CallStep

(* So do the callers, the GKE side and a restart.                          *)
LEMMA OtherTyped ==
    ASSUME GKEInv, (\E t \in Threads : Calls(t)) \/ GKEStep \/ ProviderRestarts
    PROVE  GKEInv'
  <1> USE DEF GKEInv, GKETypeOK, RequestsOK, CreatePoints, DeletePoints, StaticPoints, Points, Results, maps
  <1>1. ASSUME NEW t \in Threads, NEW np \in NodePools, EnsureNodePoolForPod(t, np)
        PROVE  GKEInv'
    BY <1>1, DesiredTyped DEF EnsureNodePoolForPod, Goto, Requests
  <1>2. ASSUME NEW t \in Threads, EnsureRejectsPod(t)
        PROVE  GKEInv'
    BY <1>2 DEF EnsureRejectsPod, Returns
  <1>3. ASSUME NEW t \in Threads, NEW n \in Names, DeleteNodePool(t, n)
        PROVE  GKEInv'
    BY <1>3 DEF DeleteNodePool, Goto, Requests, NoRequest, NoLabels, Labels
  <1>4. ASSUME NEW t \in Threads, CallEnds(t)
        PROVE  GKEInv'
    BY <1>4 DEF CallEnds, Requests, NoRequest, NoLabels, Labels
  <1>5. ASSUME NEW n \in Names, NEW pool \in Pools, OpEnds(n, pool)
        PROVE  GKEInv'
    BY <1>5 DEF OpEnds
  <1>6. ASSUME NEW n \in Names,
               Provisioned(n) \/ ProvisioningFails(n) \/ Deleted(n) \/ DeletionFails(n)
        PROVE  GKEInv'
    <2>1. \A s \in Statuses : [pools[n] EXCEPT !.status = s, !.waiter = None] \in Pools
      BY DEF Pools
    <2> QED
      BY <1>5, <1>6, <2>1, EmptyTyped
      DEF Provisioned, ProvisioningFails, Deleted, DeletionFails, Statuses
  <1>7. CASE ProviderRestarts
    <2>1. \A n \in Names : [pools[n] EXCEPT !.waiter = None] \in Pools
      BY DEF Pools
    <2>2. GKETypeOK'
      BY <1>7, <2>1, EmptyTyped DEF ProviderRestarts
    <2>3. RequestsOK'
      BY <1>7, EmptyTyped DEF ProviderRestarts
    <2> QED BY <2>2, <2>3
  <1>8. ASSUME NEW t \in Threads, NEW np \in StaticNodePools, StaticEnsure(t, np)
        PROVE  GKEInv'
    BY <1>8, StaticTyped DEF StaticEnsure, Goto, Requests
  <1> QED
    BY <1>1, <1>2, <1>3, <1>4, <1>6, <1>7, <1>8 DEF Calls, GKEStep

(* The typing invariant is inductive.                                      *)
LEMMA GKEInvStep == GKEInv /\ [GKENext]_gkeVars => GKEInv'
  <1> SUFFICES ASSUME GKEInv, [GKENext]_gkeVars PROVE GKEInv'
    OBVIOUS
  <1>1. CASE GKENext
    BY <1>1, CallTyped, OtherTyped DEF GKENext
  <1>2. CASE UNCHANGED gkeVars
    BY <1>2 DEF gkeVars, GKEInv, GKETypeOK, RequestsOK
  <1> QED BY <1>1, <1>2

(* Type correctness of the provider's state: the pools GKE shows, the      *)
(* three in-progress maps and every thread's call record.                  *)
THEOREM GKETypeCorrect == GKESpec => []GKETypeOK
  <1>1. GKEInv => GKETypeOK
    BY DEF GKEInv
  <1> QED
    BY <1>1, GKEInitTyped, GKEInvStep, PTL DEF GKESpec

-----------------------------------------------------------------------------
(* A step inside a call is taken by a thread that is in one; it moves no   *)
(* other thread and changes no request.                                    *)
LEMMA CallStepLocal ==
    ASSUME GKETypeOK, NEW t \in Threads, CallStep(t)
    PROVE  /\ pc[t] # "idle" /\ req' = req
           /\ \A u \in Threads : u # t => pc'[u] = pc[u]
  BY DEF GKETypeOK, CallStep, Check, CheckFails, CreateLoadNPName, CreateStoreNPName,
         CreateLoadJobKey, CreateStoreJobKey, CreateAccepted, CreateRefused, CreateWaits,
         CreateReturns, DeleteLoadNPName, DeleteStoreNPName, DeleteNotFound, DeleteAccepted,
         DeleteRefused, DeleteWaits, DeleteReturns, checkNodePoolExists, StaticAccepted,
         StaticRefused, StaticWaits, Goto, Returns

(* Operations that end move no thread.                                     *)
LEMMA GKEStepLocal ==
    ASSUME GKEStep
    PROVE  UNCHANGED <<pc, req>>
  BY DEF GKEStep, Provisioned, ProvisioningFails, Deleted, DeletionFails, OpEnds

(* Giving up an operation changes nothing about the pools but the waiter.  *)
LEMMA GivenUpEffect ==
    ASSUME GKETypeOK, NEW t \in Threads, OpGivenUp(t), NEW n \in Names
    PROVE  /\ pools'[n].status = pools[n].status /\ pools'[n].labels = pools[n].labels
           /\ pools'[n].waiter = IF pools[n].waiter = t THEN None ELSE pools[n].waiter
  <1>1. pools[n] \in Pools
    BY DEF GKETypeOK
  <1> QED
    BY <1>1 DEF OpGivenUp, Pools

(* What the end of an operation does to its pool and to its waiter.        *)
LEMMA OpEndsEffect ==
    ASSUME GKETypeOK, NEW n \in Names,
           Provisioned(n) \/ ProvisioningFails(n) \/ Deleted(n) \/ DeletionFails(n)
    PROVE  /\ pools'[n].waiter = None
           /\ pools'[n].status = "ABSENT" \/ pools'[n].labels = pools[n].labels
           /\ pools[n].status # "ABSENT"
           /\ \A m \in Names \ {n} : pools'[m] = pools[m]
           /\ \A t \in Threads : op'[t] = IF t = pools[n].waiter THEN "done" ELSE op[t]
           /\ UNCHANGED <<maps, pc, req, ret>>
  <1>1. pools[n] \in Pools /\ pools \in [Names -> Pools]
    BY DEF GKETypeOK
  <1>2. ASSUME NEW s \in Statuses
        PROVE  /\ [pools[n] EXCEPT !.status = s, !.waiter = None].waiter = None
               /\ [pools[n] EXCEPT !.status = s, !.waiter = None].labels = pools[n].labels
    BY <1>1 DEF Pools
  <1>3. AbsentPool.status = "ABSENT" /\ AbsentPool.waiter = None
    BY DEF AbsentPool
  <1>4. PICK pool : OpEnds(n, pool) /\ pool.waiter = None
                    /\ (pool.status = "ABSENT" \/ pool.labels = pools[n].labels)
    BY <1>2, <1>3 DEF Provisioned, ProvisioningFails, Deleted, DeletionFails, Statuses
  <1>5. pools[n].status # "ABSENT"
    BY DEF Provisioned, ProvisioningFails, Deleted, DeletionFails
  <1> QED
    BY <1>1, <1>4, <1>5 DEF OpEnds

(* After a restart nobody waits for anything.                              *)
LEMMA RestartEffect ==
    ASSUME GKETypeOK, ProviderRestarts, NEW n \in Names
    PROVE  pools'[n].waiter = None
  <1>1. pools[n] \in Pools
    BY DEF GKETypeOK
  <1> QED
    BY <1>1 DEF ProviderRestarts, Pools

(* A step of a call leaves no key behind: a thread that leaves the points   *)
(* at which it holds a key removes that key.                               *)
LEMMA CallOwned ==
    ASSUME GKEInv, InProgressOwned, NEW t \in Threads, CallStep(t)
    PROVE  InProgressOwned'
  <1> USE DEF GKEInv, GKETypeOK, RequestsOK, InProgressOwned, HoldsNP, HoldsKey, HoldsDel, CreatePoints, DeletePoints, StaticPoints, maps
  <1>1. CASE Check(t)
    BY <1>1 DEF Check, Goto, Returns
  <1>2. CASE CheckFails(t)
    BY <1>2 DEF CheckFails, Returns
  <1>3. CASE CreateLoadNPName(t)
    BY <1>3 DEF CreateLoadNPName, Goto, Returns
  <1>4. CASE CreateStoreNPName(t)
    BY <1>4 DEF CreateStoreNPName, Goto
  <1>5. CASE CreateLoadJobKey(t)
    BY <1>5 DEF CreateLoadJobKey, Goto, Returns
  <1>6. CASE CreateStoreJobKey(t)
    BY <1>6 DEF CreateStoreJobKey, Goto
  <1>7. CASE CreateAccepted(t)
    BY <1>7 DEF CreateAccepted, Goto
  <1>8. CASE CreateRefused(t)
    BY <1>8 DEF CreateRefused, CreateReturns, Returns
  <1>9. CASE CreateWaits(t)
    BY <1>9 DEF CreateWaits, CreateReturns, Returns, OpDone, OpGivenUp
  <1>10. CASE DeleteLoadNPName(t)
    BY <1>10 DEF DeleteLoadNPName, Goto, Returns
  <1>11. CASE DeleteStoreNPName(t)
    BY <1>11 DEF DeleteStoreNPName, Goto
  <1>12. CASE DeleteNotFound(t)
    BY <1>12 DEF DeleteNotFound, DeleteReturns, Returns
  <1>13. CASE DeleteAccepted(t)
    BY <1>13 DEF DeleteAccepted, Goto
  <1>14. CASE DeleteRefused(t)
    BY <1>14 DEF DeleteRefused, DeleteReturns, Returns
  <1>15. CASE DeleteWaits(t)
    BY <1>15 DEF DeleteWaits, DeleteReturns, Returns, OpDone, OpGivenUp
  <1>16. CASE checkNodePoolExists(t)
    BY <1>16 DEF checkNodePoolExists, Goto, Returns
  <1>17. CASE StaticAccepted(t)
    BY <1>17 DEF StaticAccepted, Goto
  <1>18. CASE StaticRefused(t)
    BY <1>18 DEF StaticRefused, Returns
  <1>19. CASE StaticWaits(t)
    BY <1>19 DEF StaticWaits, Returns, OpDone, OpGivenUp
  <1> QED
    BY <1>1, <1>2, <1>3, <1>4, <1>5, <1>6, <1>7, <1>8, <1>9, <1>10, <1>11, <1>12, <1>13,
       <1>14, <1>15, <1>16, <1>17, <1>18, <1>19 DEF CallStep

(* Callers only start and end calls that hold no key; a restart empties    *)
(* the maps.                                                               *)
LEMMA OtherOwned ==
    ASSUME GKEInv, InProgressOwned, (\E t \in Threads : Calls(t)) \/ GKEStep \/ ProviderRestarts
    PROVE  InProgressOwned'
  <1> USE DEF GKEInv, GKETypeOK, RequestsOK, InProgressOwned, HoldsNP, HoldsKey, HoldsDel, CreatePoints, DeletePoints, StaticPoints, maps
  <1>1. ASSUME NEW t \in Threads, NEW np \in NodePools, EnsureNodePoolForPod(t, np)
        PROVE  InProgressOwned'
    BY <1>1, DesiredTyped DEF EnsureNodePoolForPod, Goto
  <1>2. ASSUME NEW t \in Threads, EnsureRejectsPod(t)
        PROVE  InProgressOwned'
    BY <1>2 DEF EnsureRejectsPod, Returns
  <1>3. ASSUME NEW t \in Threads, NEW n \in Names, DeleteNodePool(t, n)
        PROVE  InProgressOwned'
    BY <1>3 DEF DeleteNodePool, Goto, NoRequest
  <1>4. ASSUME NEW t \in Threads, CallEnds(t)
        PROVE  InProgressOwned'
    BY <1>4, EmptyTyped DEF CallEnds
  <1>5. ASSUME NEW n \in Names,
               Provisioned(n) \/ ProvisioningFails(n) \/ Deleted(n) \/ DeletionFails(n)
        PROVE  InProgressOwned'
    BY <1>5 DEF Provisioned, ProvisioningFails, Deleted, DeletionFails, OpEnds, AbsentPool
  <1>6. CASE ProviderRestarts
    BY <1>6, EmptyTyped, NoneAssumption DEF ProviderRestarts
  <1>8. ASSUME NEW t \in Threads, NEW np \in StaticNodePools, StaticEnsure(t, np)
        PROVE  InProgressOwned'
    BY <1>8, StaticTyped DEF StaticEnsure, Goto
  <1> QED
    BY <1>1, <1>2, <1>3, <1>4, <1>5, <1>6, <1>8 DEF Calls, GKEStep

(* No in-progress key outlives the call that stored it, for any number of  *)
(* threads: the races of the Load and the Store can lose a key early, but  *)
(* can never leave one behind.                                             *)
THEOREM OwnedAlways == GKESpec => []InProgressOwned
  <1>1. GKEInit => InProgressOwned
    BY NoneAssumption, InitialLabelsAssumption, EmptyTyped DEF GKEInit, InProgressOwned, HoldsNP, HoldsKey, HoldsDel, NoRequest, AbsentPool, DeletePoints
  <1>2. GKEInv /\ InProgressOwned /\ [GKENext]_gkeVars => InProgressOwned'
    <2> SUFFICES ASSUME GKEInv, InProgressOwned, [GKENext]_gkeVars PROVE InProgressOwned'
      OBVIOUS
    <2>1. CASE GKENext
      BY <2>1, CallOwned, OtherOwned DEF GKENext
    <2>2. CASE UNCHANGED gkeVars
      BY <2>2 DEF gkeVars, InProgressOwned, HoldsNP, HoldsKey, HoldsDel
    <2> QED BY <2>1, <2>2
  <1> QED
    BY <1>1, <1>2, GKEInitTyped, GKEInvStep, PTL DEF GKESpec

(* How the model ties an operation to its call: a thread that polls has    *)
(* the operation it started on its own pool, and a pool's waiter is such a *)
(* thread.  The proofs need it to know whose operation has ended.          *)
WaitersMatch ==
    /\ \A t \in Threads : op[t] = "running" =>
          /\ pc[t] \in {"createWait", "deleteWait", "staticWait"}
          /\ pools[req[t].name].waiter = t
    /\ \A n \in Names : \A t \in Threads : pools[n].waiter = t =>
          /\ op[t] = "running" /\ req[t].name = n
          /\ \/ pc[t] \in {"createWait", "staticWait"} /\ pools[n].status = "PROVISIONING"
             \/ pc[t] = "deleteWait" /\ pools[n].status = "STOPPING"

(* A step of a call keeps waiters and pools in agreement.                  *)
LEMMA CallWaiters ==
    ASSUME GKEInv, WaitersMatch, NEW t \in Threads, CallStep(t)
    PROVE  WaitersMatch'
  <1> USE DEF GKEInv, GKETypeOK, RequestsOK, WaitersMatch, CreatePoints, DeletePoints, StaticPoints, maps
  <1>1. CASE Check(t)
    BY <1>1 DEF Check, Goto, Returns
  <1>2. CASE CheckFails(t)
    BY <1>2 DEF CheckFails, Returns
  <1>3. CASE CreateLoadNPName(t)
    BY <1>3 DEF CreateLoadNPName, Goto, Returns
  <1>4. CASE CreateStoreNPName(t)
    BY <1>4 DEF CreateStoreNPName, Goto
  <1>5. CASE CreateLoadJobKey(t)
    BY <1>5 DEF CreateLoadJobKey, Goto, Returns
  <1>6. CASE CreateStoreJobKey(t)
    BY <1>6 DEF CreateStoreJobKey, Goto
  <1>7. CASE CreateAccepted(t)
    BY <1>7 DEF CreateAccepted, Goto
  <1>8. CASE CreateRefused(t)
    BY <1>8 DEF CreateRefused, CreateReturns, Returns
  <1>9. CASE CreateWaits(t)
    BY <1>9, GivenUpEffect, NoneAssumption DEF CreateWaits, CreateReturns, Returns, OpDone, OpGivenUp
  <1>10. CASE DeleteLoadNPName(t)
    BY <1>10 DEF DeleteLoadNPName, Goto, Returns
  <1>11. CASE DeleteStoreNPName(t)
    BY <1>11 DEF DeleteStoreNPName, Goto
  <1>12. CASE DeleteNotFound(t)
    BY <1>12 DEF DeleteNotFound, DeleteReturns, Returns
  <1>13. CASE DeleteAccepted(t)
    BY <1>13 DEF DeleteAccepted, Goto
  <1>14. CASE DeleteRefused(t)
    BY <1>14 DEF DeleteRefused, DeleteReturns, Returns
  <1>15. CASE DeleteWaits(t)
    BY <1>15, GivenUpEffect, NoneAssumption DEF DeleteWaits, DeleteReturns, Returns, OpDone, OpGivenUp
  <1>16. CASE checkNodePoolExists(t)
    BY <1>16 DEF checkNodePoolExists, Goto, Returns
  <1>17. CASE StaticAccepted(t)
    BY <1>17 DEF StaticAccepted, Goto
  <1>18. CASE StaticRefused(t)
    BY <1>18 DEF StaticRefused, Returns
  <1>19. CASE StaticWaits(t)
    BY <1>19, GivenUpEffect, NoneAssumption DEF StaticWaits, Returns, OpDone, OpGivenUp
  <1> QED
    BY <1>1, <1>2, <1>3, <1>4, <1>5, <1>6, <1>7, <1>8, <1>9, <1>10, <1>11, <1>12, <1>13,
       <1>14, <1>15, <1>16, <1>17, <1>18, <1>19 DEF CallStep

(* So do callers, GKE's answers and a restart.                             *)
LEMMA OtherWaiters ==
    ASSUME GKEInv, WaitersMatch, (\E t \in Threads : Calls(t)) \/ GKEStep \/ ProviderRestarts
    PROVE  WaitersMatch'
  <1> USE DEF GKEInv, GKETypeOK, RequestsOK, WaitersMatch, CreatePoints, DeletePoints, StaticPoints, maps
  <1>1. ASSUME NEW t \in Threads, NEW np \in NodePools, EnsureNodePoolForPod(t, np)
        PROVE  WaitersMatch'
    BY <1>1, DesiredTyped DEF EnsureNodePoolForPod, Goto
  <1>2. ASSUME NEW t \in Threads, EnsureRejectsPod(t)
        PROVE  WaitersMatch'
    BY <1>2 DEF EnsureRejectsPod, Returns
  <1>3. ASSUME NEW t \in Threads, NEW n \in Names, DeleteNodePool(t, n)
        PROVE  WaitersMatch'
    BY <1>3 DEF DeleteNodePool, Goto, NoRequest
  <1>4. ASSUME NEW t \in Threads, CallEnds(t)
        PROVE  WaitersMatch'
    BY <1>4, EmptyTyped DEF CallEnds
  <1>5. ASSUME NEW n \in Names,
               Provisioned(n) \/ ProvisioningFails(n) \/ Deleted(n) \/ DeletionFails(n)
        PROVE  WaitersMatch'
    BY <1>5, OpEndsEffect, NoneAssumption
  <1>6. CASE ProviderRestarts
    BY <1>6, RestartEffect, EmptyTyped, NoneAssumption DEF ProviderRestarts
  <1>8. ASSUME NEW t \in Threads, NEW np \in StaticNodePools, StaticEnsure(t, np)
        PROVE  WaitersMatch'
    BY <1>8, StaticTyped DEF StaticEnsure, Goto
  <1> QED
    BY <1>1, <1>2, <1>3, <1>4, <1>5, <1>6, <1>8 DEF Calls, GKEStep

(* A thread only ever waits for, and is only ever answered about, the      *)
(* operation it started itself.                                            *)
LEMMA WaitersAlways == GKESpec => []WaitersMatch
  <1>1. GKEInit => WaitersMatch
    BY NoneAssumption, InitialLabelsAssumption, EmptyTyped DEF GKEInit, WaitersMatch, NoRequest, AbsentPool, DeletePoints
  <1>2. GKEInv /\ WaitersMatch /\ [GKENext]_gkeVars => WaitersMatch'
    <2> SUFFICES ASSUME GKEInv, WaitersMatch, [GKENext]_gkeVars PROVE WaitersMatch'
      OBVIOUS
    <2>1. CASE GKENext
      BY <2>1, CallWaiters, OtherWaiters DEF GKENext
    <2>2. CASE UNCHANGED gkeVars
      BY <2>2 DEF gkeVars, WaitersMatch
    <2> QED BY <2>1, <2>2
  <1> QED
    BY <1>1, <1>2, GKEInitTyped, GKEInvStep, PTL DEF GKESpec

(* A step of a call never turns the recreate path on a hashless pool: the   *)
(* path is entered on a hash that differs, and pools created later are     *)
(* hashed.                                                                 *)
LEMMA CallLegacy ==
    ASSUME GKEInv, LegacyPoolKept, NEW t \in Threads, CallStep(t)
    PROVE  LegacyPoolKept'
  <1> USE DEF GKEInv, GKETypeOK, RequestsOK, LegacyPoolKept, CreatePoints, DeletePoints, StaticPoints, maps
  <1>1. CASE Check(t)
    BY <1>1 DEF Check, checkExistingNodePoolState, nodePoolHashesMatch, Goto, Returns
  <1>2. CASE CheckFails(t)
    BY <1>2 DEF CheckFails, Returns
  <1>3. CASE CreateLoadNPName(t)
    BY <1>3 DEF CreateLoadNPName, Goto, Returns
  <1>4. CASE CreateStoreNPName(t)
    BY <1>4 DEF CreateStoreNPName, Goto
  <1>5. CASE CreateLoadJobKey(t)
    BY <1>5 DEF CreateLoadJobKey, Goto, Returns
  <1>6. CASE CreateStoreJobKey(t)
    BY <1>6 DEF CreateStoreJobKey, Goto
  <1>7. CASE CreateAccepted(t)
    BY <1>7 DEF CreateAccepted, Goto
  <1>8. CASE CreateRefused(t)
    BY <1>8 DEF CreateRefused, CreateReturns, Returns
  <1>9. CASE CreateWaits(t)
    BY <1>9, GivenUpEffect, NoneAssumption DEF CreateWaits, CreateReturns, Returns, OpDone, OpGivenUp
  <1>10. CASE DeleteLoadNPName(t)
    BY <1>10 DEF DeleteLoadNPName, Goto, Returns
  <1>11. CASE DeleteStoreNPName(t)
    BY <1>11 DEF DeleteStoreNPName, Goto
  <1>12. CASE DeleteNotFound(t)
    BY <1>12 DEF DeleteNotFound, DeleteReturns, Returns
  <1>13. CASE DeleteAccepted(t)
    BY <1>13 DEF DeleteAccepted, Goto
  <1>14. CASE DeleteRefused(t)
    BY <1>14 DEF DeleteRefused, DeleteReturns, Returns
  <1>15. CASE DeleteWaits(t)
    BY <1>15, GivenUpEffect, NoneAssumption DEF DeleteWaits, DeleteReturns, Returns, OpDone, OpGivenUp
  <1>16. CASE checkNodePoolExists(t)
    BY <1>16 DEF checkNodePoolExists, Goto, Returns
  <1>17. CASE StaticAccepted(t)
    BY <1>17 DEF StaticAccepted, Goto
  <1>18. CASE StaticRefused(t)
    BY <1>18 DEF StaticRefused, Returns
  <1>19. CASE StaticWaits(t)
    BY <1>19, GivenUpEffect, NoneAssumption DEF StaticWaits, Returns, OpDone, OpGivenUp
  <1> QED
    BY <1>1, <1>2, <1>3, <1>4, <1>5, <1>6, <1>7, <1>8, <1>9, <1>10, <1>11, <1>12, <1>13,
       <1>14, <1>15, <1>16, <1>17, <1>18, <1>19 DEF CallStep

(* So do callers, GKE's answers and a restart.                             *)
LEMMA OtherLegacy ==
    ASSUME GKEInv, LegacyPoolKept, (\E t \in Threads : Calls(t)) \/ GKEStep \/ ProviderRestarts
    PROVE  LegacyPoolKept'
  <1> USE DEF GKEInv, GKETypeOK, RequestsOK, LegacyPoolKept, CreatePoints, DeletePoints, StaticPoints, maps
  <1>1. ASSUME NEW t \in Threads, NEW np \in NodePools, EnsureNodePoolForPod(t, np)
        PROVE  LegacyPoolKept'
    BY <1>1, DesiredTyped DEF EnsureNodePoolForPod, Goto
  <1>2. ASSUME NEW t \in Threads, EnsureRejectsPod(t)
        PROVE  LegacyPoolKept'
    BY <1>2 DEF EnsureRejectsPod, Returns
  <1>3. ASSUME NEW t \in Threads, NEW n \in Names, DeleteNodePool(t, n)
        PROVE  LegacyPoolKept'
    BY <1>3 DEF DeleteNodePool, Goto, NoRequest
  <1>4. ASSUME NEW t \in Threads, CallEnds(t)
        PROVE  LegacyPoolKept'
    BY <1>4, EmptyTyped DEF CallEnds
  <1>5. ASSUME NEW n \in Names,
               Provisioned(n) \/ ProvisioningFails(n) \/ Deleted(n) \/ DeletionFails(n)
        PROVE  LegacyPoolKept'
    BY <1>5, OpEndsEffect, NoneAssumption
  <1>6. CASE ProviderRestarts
    BY <1>6, RestartEffect, EmptyTyped, NoneAssumption DEF ProviderRestarts
  <1>8. ASSUME NEW t \in Threads, NEW np \in StaticNodePools, StaticEnsure(t, np)
        PROVE  LegacyPoolKept'
    BY <1>8, StaticTyped DEF StaticEnsure, Goto
  <1> QED
    BY <1>1, <1>2, <1>3, <1>4, <1>5, <1>6, <1>8 DEF Calls, GKEStep

(* EnsureNodePoolForPod never deletes a pool that has no hash label.       *)
THEOREM LegacyAlways == GKESpec => []LegacyPoolKept
  <1>1. GKEInit => LegacyPoolKept
    BY NoneAssumption, InitialLabelsAssumption, EmptyTyped DEF GKEInit, LegacyPoolKept, NoRequest, AbsentPool, DeletePoints
  <1>2. GKEInv /\ LegacyPoolKept /\ [GKENext]_gkeVars => LegacyPoolKept'
    <2> SUFFICES ASSUME GKEInv, LegacyPoolKept, [GKENext]_gkeVars PROVE LegacyPoolKept'
      OBVIOUS
    <2>1. CASE GKENext
      BY <2>1, CallLegacy, OtherLegacy DEF GKENext
    <2>2. CASE UNCHANGED gkeVars
      BY <2>2 DEF gkeVars, LegacyPoolKept
    <2> QED BY <2>1, <2>2
  <1> QED
    BY <1>1, <1>2, GKEInitTyped, GKEInvStep, PTL DEF GKESpec

=============================================================================
