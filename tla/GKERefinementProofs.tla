------------------------ MODULE GKERefinementProofs ------------------------
(* The provider implements ProviderCalls, for any set of threads, names    *)
(* and labels.                                                             *)
EXTENDS GKERefinement, GKEProviderProofs

WaitPoints == {"createWait", "staticWait", "deleteWait"}

(* What the mapping relies on beyond the invariants of the provider: a     *)
(* thread without a call is as at the start, nothing is returned before    *)
(* the call returns, only an ensure or a delete call deletes, and a thread *)
(* that polls has an operation to poll.                                    *)
CallsOK ==
    \A t \in Threads :
        /\ pc[t] = "idle" => req[t] = NoRequest
        /\ pc[t] # "return" => ret[t] = "nil"
        /\ pc[t] \in DeletePoints => req[t].kind \in {"ensure", "delete"}
        /\ pc[t] \in WaitPoints => op[t] # "none"

RefInv == GKEInv /\ InProgressOwned /\ WaitersMatch /\ LegacyPoolKept /\ CallsOK

-----------------------------------------------------------------------------
(* A step of a call keeps CallsOK.                                         *)
LEMMA CallCallsOK ==
    ASSUME GKEInv, CallsOK, NEW t \in Threads, CallStep(t)
    PROVE  CallsOK'
  <1> USE DEF GKEInv, GKETypeOK, RequestsOK, CallsOK, CreatePoints, DeletePoints, StaticPoints, WaitPoints, maps
  <1>1. CASE Check(t)
    BY <1>1 DEF Check, Goto, Returns
  <1>2. CASE CheckFails(t)
    BY <1>2 DEF CheckFails, Returns
  <1>3. CASE CreateLoadNPName(t)
    BY <1>3 DEF CreateLoadNPName, Goto, Returns
  <1>4. CASE CreateStoreNPName(t)
    BY <1>4 DEF CreateStoreNPName, Goto
  <1>5. CASE CreateLoadJobKey(t)
    BY <1>5 DEF CreateLoadJobKey, Goto, Returns
  <1>6. CASE CreateStoreJobKey(t)
    BY <1>6 DEF CreateStoreJobKey, Goto
  <1>7. CASE CreateAccepted(t)
    BY <1>7 DEF CreateAccepted, Goto
  <1>8. CASE CreateRefused(t)
    BY <1>8 DEF CreateRefused, CreateReturns, Returns
  <1>9. CASE CreateWaits(t)
    BY <1>9 DEF CreateWaits, CreateReturns, Returns, OpDone, OpGivenUp
  <1>10. CASE DeleteLoadNPName(t)
    BY <1>10 DEF DeleteLoadNPName, Goto, Returns
  <1>11. CASE DeleteStoreNPName(t)
    BY <1>11 DEF DeleteStoreNPName, Goto
  <1>12. CASE DeleteNotFound(t)
    BY <1>12 DEF DeleteNotFound, DeleteReturns, Returns
  <1>13. CASE DeleteAccepted(t)
    BY <1>13 DEF DeleteAccepted, Goto
  <1>14. CASE DeleteRefused(t)
    BY <1>14 DEF DeleteRefused, DeleteReturns, Returns
  <1>15. CASE DeleteWaits(t)
    BY <1>15 DEF DeleteWaits, DeleteReturns, Returns, OpDone, OpGivenUp
  <1>16. CASE checkNodePoolExists(t)
    BY <1>16 DEF checkNodePoolExists, Goto, Returns
  <1>17. CASE StaticAccepted(t)
    BY <1>17 DEF StaticAccepted, Goto
  <1>18. CASE StaticRefused(t)
    BY <1>18 DEF StaticRefused, Returns
  <1>19. CASE StaticWaits(t)
    BY <1>19 DEF StaticWaits, Returns, OpDone, OpGivenUp
  <1> QED
    BY <1>1, <1>2, <1>3, <1>4, <1>5, <1>6, <1>7, <1>8, <1>9, <1>10, <1>11, <1>12, <1>13,
       <1>14, <1>15, <1>16, <1>17, <1>18, <1>19 DEF CallStep

(* So do callers, GKE's answers and a restart.                             *)
LEMMA OtherCallsOK ==
    ASSUME GKEInv, CallsOK, (\E t \in Threads : Calls(t)) \/ GKEStep \/ ProviderRestarts
    PROVE  CallsOK'
  <1> USE DEF GKEInv, GKETypeOK, RequestsOK, CallsOK, CreatePoints, DeletePoints, StaticPoints, WaitPoints, maps
  <1>1. ASSUME NEW t \in Threads, NEW np \in NodePools, EnsureNodePoolForPod(t, np)
        PROVE  CallsOK'
    BY <1>1 DEF EnsureNodePoolForPod, Goto
  <1>2. ASSUME NEW t \in Threads, EnsureRejectsPod(t)
        PROVE  CallsOK'
    BY <1>2 DEF EnsureRejectsPod, Returns
  <1>3. ASSUME NEW t \in Threads, NEW n \in Names, DeleteNodePool(t, n)
        PROVE  CallsOK'
    BY <1>3 DEF DeleteNodePool, Goto, NoRequest
  <1>4. ASSUME NEW t \in Threads, CallEnds(t)
        PROVE  CallsOK'
    BY <1>4 DEF CallEnds
  <1>5. ASSUME NEW n \in Names,
               Provisioned(n) \/ ProvisioningFails(n) \/ Deleted(n) \/ DeletionFails(n)
        PROVE  CallsOK'
    BY <1>5, OpEndsEffect
  <1>6. CASE ProviderRestarts
    BY <1>6 DEF ProviderRestarts
  <1>7. ASSUME NEW t \in Threads, NEW np \in StaticNodePools, StaticEnsure(t, np)
        PROVE  CallsOK'
    BY <1>7 DEF StaticEnsure, Goto
  <1> QED
    BY <1>1, <1>2, <1>3, <1>4, <1>5, <1>6, <1>7 DEF Calls, GKEStep

-----------------------------------------------------------------------------
(* The mapped state: what changes of it when only thread t moves.          *)

Others(t) ==
    \A u \in Threads \ {t} :
        pc'[u] = pc[u] /\ req'[u] = req[u] /\ op'[u] = op[u] /\ ret'[u] = ret[u]

SameToGKE == \A n \in Names : pools'[n].status = pools[n].status /\ pools'[n].labels = pools[n].labels

MappedCluster == [n \in Names |-> Visible(pools[n])]
MappedCall    == [t \in Threads |-> CallOf(t)]

(* The cluster is unchanged if only waiters change.                        *)
LEMMA ClusterKept ==
    ASSUME SameToGKE PROVE MappedCluster' = MappedCluster
  BY DEF SameToGKE, MappedCluster, Visible

CallStates  == {"idle", "open", "creating", "deleting", "created", "deleted", "answered"}
CallRecords == [state : CallStates, request : Requests, result : Results]

(* The mapped calls are records of the abstract specification.             *)
LEMMA MappedTyped ==
    ASSUME GKETypeOK PROVE MappedCall \in [Threads -> CallRecords]
  <1>1. ASSUME NEW t \in Threads PROVE CallOf(t) \in CallRecords
    BY DEF GKETypeOK, CallOf, CallState, CallRecords, CallStates
  <1> QED
    BY <1>1 DEF MappedCall

(* The calls of other threads are unchanged.                               *)
LEMMA CallMoves ==
    ASSUME NEW t \in Threads, Others(t)
    PROVE  MappedCall' = [MappedCall EXCEPT ![t] = CallOf(t)']
  <1>1. ASSUME NEW u \in Threads \ {t} PROVE CallOf(u)' = CallOf(u)
    BY <1>1 DEF Others, CallOf, CallState
  <1> QED
    BY <1>1 DEF MappedCall

(* A step that neither GKE nor the caller can see.                         *)
LEMMA Invisible ==
    ASSUME NEW t \in Threads, Others(t), SameToGKE, CallOf(t)' = CallOf(t)
    PROVE  UNCHANGED Promise!callVars
  <1>1. [MappedCall EXCEPT ![t] = CallOf(t)] = MappedCall
    BY DEF MappedCall
  <1> QED
    BY <1>1, CallMoves, ClusterKept DEF Promise!callVars, MappedCall, MappedCluster

(* A step by which a call returns answers it.                              *)
LEMMA Answering ==
    ASSUME GKETypeOK, NEW t \in Threads, Others(t), SameToGKE,
           NEW r \in {"nil", "Duplicate", "Recreate", "Error"},
           CallState(t) \in Promise!AtWork, Promise!MayAnswer(t, r),
           req' = req, pc'[t] = "return", ret'[t] = r
    PROVE  Promise!Answers(t)
  <1> DEFINE x == MappedCall[t]
             y == [x EXCEPT !.state = "answered", !.result = r]
  <1>1. CallOf(t)' = [state |-> "answered", request |-> req[t], result |-> r]
    BY DEF CallOf, CallState
  <1>2. x \in CallRecords /\ x.request = req[t] /\ x.state = CallState(t)
    BY MappedTyped DEF MappedCall, CallOf
  <1>3. y = CallOf(t)'
    <2>1. y \in CallRecords /\ y.state = "answered" /\ y.request = x.request /\ y.result = r
      BY <1>2 DEF CallRecords, CallStates, Results
    <2> HIDE DEF y
    <2> QED BY <1>1, <1>2, <2>1 DEF CallRecords
  <1>4. MappedCall' = [MappedCall EXCEPT ![t].state = "answered", ![t].result = r]
    <2>1. [MappedCall EXCEPT ![t].state = "answered", ![t].result = r] = [MappedCall EXCEPT ![t] = y]
      BY MappedTyped
    <2> HIDE DEF y
    <2> QED BY <1>3, <2>1, CallMoves
  <1> HIDE DEF x, y
  <1> QED
    BY <1>2, <1>4, ClusterKept DEF Promise!Answers, x, MappedCall, MappedCluster

AbstractRequests == [kind : {"ensure", "static", "delete"}, name : Names, jobKey : JobKeys \cup {None},
                     labels : Labels]

(* A step by which a thread enters a call opens it.                        *)
LEMMA Opening ==
    ASSUME GKETypeOK, CallsOK, NEW t \in Threads, Others(t), SameToGKE,
           NEW r \in AbstractRequests, pc[t] = "idle",
           pc'[t] \in {"check", "delLoad", "staticCheck"}, req'[t] = r, ret'[t] = ret[t]
    PROVE  Promise!Opens(t)
  <1> DEFINE x == MappedCall[t]
             y == [x EXCEPT !.state = "open", !.request = r]
  <1>1. CallOf(t)' = [state |-> "open", request |-> r, result |-> ret[t]]
    BY DEF CallOf, CallState
  <1>2. x \in CallRecords /\ x = [state |-> "idle", request |-> NoRequest, result |-> "nil"]
    BY MappedTyped DEF MappedCall, CallOf, CallState, CallsOK
  <1>3. y = CallOf(t)'
    <2>1. r \in Requests
      BY DEF AbstractRequests, Requests
    <2>2. y \in CallRecords /\ y.state = "open" /\ y.request = r /\ y.result = x.result
      BY <1>2, <2>1 DEF CallRecords, CallStates
    <2>3. x.result = ret[t]
      BY DEF MappedCall, CallOf
    <2> HIDE DEF y
    <2> QED BY <1>1, <2>2, <2>3 DEF CallRecords
  <1>4. MappedCall' = [MappedCall EXCEPT ![t].state = "open", ![t].request = r]
    <2>1. [MappedCall EXCEPT ![t].state = "open", ![t].request = r] = [MappedCall EXCEPT ![t] = y]
      BY MappedTyped
    <2> HIDE DEF y
    <2> QED BY <1>3, <2>1, CallMoves
  <1> HIDE DEF x, y
  <1> QED
    BY <1>2, <1>4, ClusterKept
    DEF Promise!Opens, Promise!Idle, x, MappedCall, MappedCluster, AbstractRequests

(* A call that returns at once has been rejected.                          *)
LEMMA Rejecting ==
    ASSUME GKETypeOK, CallsOK, NEW t \in Threads, Others(t), SameToGKE,
           pc[t] = "idle", pc'[t] = "return", req'[t] = req[t], ret'[t] = "Error"
    PROVE  Promise!Rejected(t)
  <1> DEFINE x == MappedCall[t]
             y == [x EXCEPT !.state = "answered", !.result = "Error"]
  <1>1. CallOf(t)' = [state |-> "answered", request |-> req[t], result |-> "Error"]
    BY DEF CallOf, CallState
  <1>2. x \in CallRecords /\ x = [state |-> "idle", request |-> NoRequest, result |-> "nil"]
        /\ x.request = req[t]
    BY MappedTyped DEF MappedCall, CallOf, CallState, CallsOK
  <1>3. y = CallOf(t)'
    <2>1. y \in CallRecords /\ y.state = "answered" /\ y.request = x.request /\ y.result = "Error"
      BY <1>2 DEF CallRecords, CallStates, Results
    <2> HIDE DEF y
    <2> QED BY <1>1, <1>2, <2>1 DEF CallRecords
  <1>4. MappedCall' = [MappedCall EXCEPT ![t].state = "answered", ![t].result = "Error"]
    <2>1. [MappedCall EXCEPT ![t].state = "answered", ![t].result = "Error"] = [MappedCall EXCEPT ![t] = y]
      BY MappedTyped
    <2> HIDE DEF y
    <2> QED BY <1>3, <2>1, CallMoves
  <1> HIDE DEF x, y
  <1> QED
    BY <1>2, <1>4, ClusterKept DEF Promise!Rejected, Promise!Idle, x, MappedCall, MappedCluster

(* A call whose caller has looked at the result is closed.                 *)
LEMMA Closing ==
    ASSUME NEW t \in Threads, Others(t), SameToGKE,
           pc[t] = "return", pc'[t] = "idle", req'[t] = NoRequest, ret'[t] = "nil"
    PROVE  Promise!Closes(t)
  <1>1. CallOf(t)' = [state |-> "idle", request |-> NoRequest, result |-> "nil"]
    BY DEF CallOf, CallState
  <1>2. MappedCall[t].state = "answered"
    BY DEF MappedCall, CallOf, CallState
  <1>3. MappedCall' = [MappedCall EXCEPT ![t] = [state |-> "idle", request |-> NoRequest, result |-> "nil"]]
    BY <1>1, CallMoves
  <1> QED
    BY <1>2, <1>3, ClusterKept DEF Promise!Closes, Promise!Idle, MappedCall, MappedCluster

(* When GKE accepts a request, the call goes from open to creating or      *)
(* deleting.                                                               *)
LEMMA Starting ==
    ASSUME GKETypeOK, NEW t \in Threads, Others(t), NEW a \in {"creating", "deleting"},
           CallState(t) = "open", req' = req, ret' = ret, op'[t] = "running",
           \/ a = "creating" /\ pc'[t] \in {"createWait", "staticWait"}
           \/ a = "deleting" /\ pc'[t] = "deleteWait"
    PROVE  MappedCall' = [MappedCall EXCEPT ![t].state = a]
  <1> DEFINE x == MappedCall[t]
             y == [x EXCEPT !.state = a]
  <1>1. CallOf(t)' = [state |-> a, request |-> req[t], result |-> ret[t]]
    BY DEF CallOf, CallState
  <1>2. x \in CallRecords /\ x.request = req[t] /\ x.result = ret[t]
    BY MappedTyped DEF MappedCall, CallOf
  <1>3. y = CallOf(t)'
    BY <1>1, <1>2 DEF CallRecords, CallStates
  <1>4. [MappedCall EXCEPT ![t].state = a] = [MappedCall EXCEPT ![t] = y]
    BY MappedTyped
  <1> HIDE DEF y
  <1> QED BY <1>3, <1>4, CallMoves

-----------------------------------------------------------------------------
(* What GKE does to one pool.                                              *)

(* The cluster changes at the one pool that changes.                       *)
LEMMA ClusterMoves ==
    ASSUME NEW n \in Names, \A m \in Names \ {n} : pools'[m] = pools[m]
    PROVE  MappedCluster' = [MappedCluster EXCEPT ![n] = Visible(pools'[n])]
  BY DEF MappedCluster, Visible

(* A pool that changes its status only.                                    *)
LEMMA StatusMoves ==
    ASSUME GKETypeOK, NEW n \in Names, \A m \in Names \ {n} : pools'[m] = pools[m],
           NEW a \in Statuses, pools'[n].status = a, pools'[n].labels = pools[n].labels
    PROVE  MappedCluster' = [MappedCluster EXCEPT ![n].status = a]
  <1> DEFINE x == MappedCluster[n]
             y == [x EXCEPT !.status = a]
  <1>1. x = Visible(pools[n])
    BY DEF MappedCluster
  <1>2. x \in [status : Statuses, labels : Labels] /\ x.labels = pools[n].labels
    BY <1>1 DEF Visible, GKETypeOK, Pools
  <1>3. y = [status |-> a, labels |-> pools[n].labels]
    BY <1>2
  <1>4. y = Visible(pools'[n])
    BY <1>3 DEF Visible
  <1>5. [MappedCluster EXCEPT ![n].status = a] = [MappedCluster EXCEPT ![n] = y]
    BY DEF MappedCluster
  <1> HIDE DEF y
  <1> QED BY <1>4, <1>5, ClusterMoves

(* The end of an operation, as the abstract specification has it.          *)
LEMMA Ending ==
    ASSUME RefInv, NEW n \in Names,
           Provisioned(n) \/ ProvisioningFails(n) \/ Deleted(n) \/ DeletionFails(n)
    PROVE  Promise!OperationEnds(n)
  <1> USE DEF RefInv, GKEInv
  <1>1. pools[n] \in Pools /\ pools \in [Names -> Pools] /\ op \in [Threads -> {"none", "running", "done"}]
    BY DEF GKETypeOK
  <1>2. /\ \A m \in Names \ {n} : pools'[m] = pools[m]
        /\ \A t \in Threads : op'[t] = IF t = pools[n].waiter THEN "done" ELSE op[t]
        /\ pc' = pc /\ req' = req /\ ret' = ret
    BY OpEndsEffect
  <1>3. MappedCluster[n].status = pools[n].status
    BY DEF MappedCluster, Visible
  <1>4. \/ /\ MappedCluster[n].status = "PROVISIONING"
           /\ \E a \in {"RUNNING", "ERROR"} : MappedCluster' = [MappedCluster EXCEPT ![n].status = a]
        \/ /\ MappedCluster[n].status = "STOPPING"
           /\ MappedCluster' \in {[MappedCluster EXCEPT ![n] = Visible(AbsentPool)],
                                  [MappedCluster EXCEPT ![n].status = "ERROR"]}
    <2>1. CASE Provisioned(n)
      <3>1. pools'[n].status = "RUNNING" /\ pools'[n].labels = pools[n].labels /\ pools[n].status = "PROVISIONING"
        BY <1>1, <2>1 DEF Provisioned, OpEnds, Pools
      <3>2. MappedCluster' = [MappedCluster EXCEPT ![n].status = "RUNNING"]
        BY <1>2, <3>1, StatusMoves DEF Statuses
      <3> QED BY <1>3, <3>1, <3>2
    <2>2. CASE ProvisioningFails(n)
      <3>1. pools'[n].status = "ERROR" /\ pools'[n].labels = pools[n].labels /\ pools[n].status = "PROVISIONING"
        BY <1>1, <2>2 DEF ProvisioningFails, OpEnds, Pools
      <3>2. MappedCluster' = [MappedCluster EXCEPT ![n].status = "ERROR"]
        BY <1>2, <3>1, StatusMoves DEF Statuses
      <3> QED BY <1>3, <3>1, <3>2
    <2>3. CASE Deleted(n)
      <3>1. pools'[n] = AbsentPool /\ pools[n].status = "STOPPING"
        BY <1>1, <2>3 DEF Deleted, OpEnds
      <3>2. MappedCluster' = [MappedCluster EXCEPT ![n] = Visible(AbsentPool)]
        BY <1>2, <3>1, ClusterMoves
      <3> QED BY <1>3, <3>1, <3>2
    <2>4. CASE DeletionFails(n)
      <3>1. pools'[n].status = "ERROR" /\ pools'[n].labels = pools[n].labels /\ pools[n].status = "STOPPING"
        BY <1>1, <2>4 DEF DeletionFails, OpEnds, Pools
      <3>2. MappedCluster' = [MappedCluster EXCEPT ![n].status = "ERROR"]
        BY <1>2, <3>1, StatusMoves DEF Statuses
      <3> QED BY <1>3, <3>1, <3>2
    <2> QED BY <2>1, <2>2, <2>3, <2>4
  <1>5. ASSUME NEW t \in Threads
        PROVE  CallOf(t)' = IF req[t].name # n THEN CallOf(t)
                            ELSE IF CallState(t) = "creating" THEN [CallOf(t) EXCEPT !.state = "created"]
                            ELSE IF CallState(t) = "deleting" THEN [CallOf(t) EXCEPT !.state = "deleted"]
                            ELSE CallOf(t)
    <2>1. CASE t = pools[n].waiter
      <3>1. op[t] = "running" /\ req[t].name = n /\ pc[t] \in WaitPoints /\ op'[t] = "done"
        BY <1>2, <2>1 DEF WaitersMatch, WaitPoints
      <3>2. CallOf(t) \in CallRecords /\ CallOf(t).request = req[t] /\ CallOf(t).result = ret[t]
        BY MappedTyped DEF MappedCall, CallOf
      <3>3. ASSUME NEW a \in CallStates
            PROVE  [CallOf(t) EXCEPT !.state = a] = [state |-> a, request |-> req[t], result |-> ret[t]]
        BY <3>2 DEF CallRecords
      <3>4. CASE pc[t] = "deleteWait"
        <4>1. CallState(t) = "deleting"
          BY <3>1, <3>4 DEF CallState
        <4>2. CallOf(t)' = [state |-> "deleted", request |-> req[t], result |-> ret[t]]
          BY <1>2, <3>1, <3>4 DEF CallOf, CallState
        <4> QED BY <3>1, <3>3, <4>1, <4>2 DEF CallStates
      <3>5. CASE pc[t] \in {"createWait", "staticWait"}
        <4>1. CallState(t) = "creating"
          BY <3>1, <3>5 DEF CallState
        <4>2. CallOf(t)' = [state |-> "created", request |-> req[t], result |-> ret[t]]
          BY <1>2, <3>1, <3>5 DEF CallOf, CallState
        <4> QED BY <3>1, <3>3, <4>1, <4>2 DEF CallStates
      <3> QED BY <3>1, <3>4, <3>5 DEF WaitPoints
    <2>2. CASE t # pools[n].waiter
      <3>1. CallOf(t)' = CallOf(t)
        BY <1>2, <2>2 DEF CallOf, CallState
      <3>2. req[t].name = n => CallState(t) \notin {"creating", "deleting"}
        <4> SUFFICES ASSUME req[t].name = n, CallState(t) \in {"creating", "deleting"} PROVE FALSE
          OBVIOUS
        <4>1. pc[t] \in WaitPoints /\ op[t] # "done"
          BY DEF CallState, WaitPoints
        <4>2. op[t] = "running"
          BY <1>1, <4>1 DEF CallsOK
        <4> QED BY <2>2, <4>2 DEF WaitersMatch
      <3> QED BY <3>1, <3>2
    <2> QED BY <2>1, <2>2
  <1>6. MappedCall' = [t \in Threads |->
                          IF MappedCall[t].request.name # n THEN MappedCall[t]
                          ELSE IF MappedCall[t].state = "creating" THEN [MappedCall[t] EXCEPT !.state = "created"]
                          ELSE IF MappedCall[t].state = "deleting" THEN [MappedCall[t] EXCEPT !.state = "deleted"]
                          ELSE MappedCall[t]]
    <2>1. \A t \in Threads : CallOf(t).request = req[t] /\ CallOf(t).state = CallState(t)
      BY DEF CallOf
    <2> QED BY <1>5, <2>1 DEF MappedCall
  <1> QED
    BY <1>4, <1>6 DEF Promise!OperationEnds, Promise!Name, MappedCall, MappedCluster

-----------------------------------------------------------------------------
(* A step of a call that starts no operation and ends none.                *)

Quiet(t) == Others(t) /\ SameToGKE /\ req' = req

(* A call that moves on before its request is accepted, unseen.            *)
LEMMA StaysOpen ==
    ASSUME NEW t \in Threads, Quiet(t), CallState(t) = "open", ret' = ret,
           pc'[t] \notin {"idle", "return"} \cup WaitPoints
    PROVE  UNCHANGED Promise!callVars
  <1>1. CallOf(t)' = CallOf(t)
    BY DEF Quiet, CallOf, CallState, WaitPoints
  <1> QED BY <1>1, Invisible DEF Quiet

(* A duplicate is answered only while another call is at work: this is     *)
(* what the in-progress maps are for.                                      *)
LEMMA DuplicateAllowed ==
    ASSUME RefInv, NEW t \in Threads, CallState(t) = "open", req[t].kind # "static",
           \/ pc[t] = "npLoad" /\ req[t].name \in createsNP
           \/ pc[t] = "keyLoad" /\ req[t].jobKey \in createsKey
           \/ pc[t] = "delLoad" /\ req[t].name \in deletesNP
    PROVE  Promise!MayAnswer(t, "Duplicate")
  <1> USE DEF RefInv, GKEInv
  <1>1. PICK u \in Threads :
           \/ pc[u] \in HoldsNP /\ pc[t] = "npLoad" /\ req[u].name = req[t].name
           \/ pc[u] \in HoldsKey /\ pc[t] = "keyLoad" /\ req[u].jobKey = req[t].jobKey
           \/ pc[u] \in HoldsDel /\ pc[t] = "delLoad" /\ req[u].name = req[t].name
    BY DEF InProgressOwned
  <1>2. u # t
    BY <1>1 DEF HoldsNP, HoldsKey, HoldsDel
  <1>3. CallState(u) \in Promise!AtWork
    BY <1>1 DEF CallState, Promise!AtWork, HoldsNP, HoldsKey, HoldsDel
  <1>4. req[u].kind # "static"
    BY <1>1 DEF RequestsOK, CallsOK, CreatePoints, DeletePoints, HoldsNP, HoldsKey, HoldsDel
  <1>5. pc[t] = "keyLoad" => req[t].jobKey # None
    BY NoneAssumption DEF RequestsOK, CreatePoints
  <1>6. \A v \in Threads : MappedCall[v].state = CallState(v) /\ MappedCall[v].request = req[v]
    BY DEF MappedCall, CallOf
  <1>7. /\ MappedCall[u].state \in Promise!AtWork /\ MappedCall[u].request.kind # "static"
        /\ \/ MappedCall[u].request.name = MappedCall[t].request.name
           \/ /\ MappedCall[u].request.jobKey # None
              /\ MappedCall[u].request.jobKey = MappedCall[t].request.jobKey
    BY <1>1, <1>3, <1>4, <1>5, <1>6
  <1>8. Promise!OthersAtWork(t)
    BY <1>2, <1>7 DEF Promise!OthersAtWork, Promise!Name, MappedCall
  <1> QED
    BY <1>6, <1>8 DEF Promise!MayAnswer, MappedCall

(* An error is always allowed, and a nil once the operation has ended.     *)
LEMMA ResultAllowed ==
    ASSUME NEW t \in Threads
    PROVE  /\ Promise!MayAnswer(t, "Error")
           /\ CallState(t) = "created" => Promise!MayAnswer(t, "nil")
           /\ CallState(t) = "deleted" /\ req[t].kind = "delete" => Promise!MayAnswer(t, "nil")
           /\ CallState(t) = "deleted" /\ req[t].kind = "ensure" => Promise!MayAnswer(t, "Recreate")
  <1>1. MappedCall[t].state = CallState(t) /\ MappedCall[t].request = req[t]
    BY DEF MappedCall, CallOf
  <1> QED
    BY <1>1 DEF Promise!MayAnswer, MappedCall

(* A call that finds its work done may say so.                             *)
LEMMA NothingToDoAllowed ==
    ASSUME GKETypeOK, NEW t \in Threads, CallState(t) = "open", req[t].name \in Names
    PROVE  /\ /\ req[t].kind = "ensure" /\ pools[req[t].name].status # "ABSENT"
              /\ nodePoolHashesMatch(req[t].labels, pools[req[t].name].labels)
              => Promise!MayAnswer(t, "nil")
           /\ req[t].kind = "static" /\ pools[req[t].name].status # "ABSENT" => Promise!MayAnswer(t, "nil")
           /\ req[t].kind = "delete" /\ pools[req[t].name].status = "ABSENT" => Promise!MayAnswer(t, "nil")
           /\ req[t].kind = "ensure" /\ pools[req[t].name].status = "ABSENT" => Promise!MayAnswer(t, "Recreate")
  <1>1. MappedCall[t].state = CallState(t) /\ MappedCall[t].request = req[t]
    BY DEF MappedCall, CallOf
  <1>2. /\ MappedCluster[req[t].name].status = pools[req[t].name].status
        /\ MappedCluster[req[t].name].labels = pools[req[t].name].labels
    BY DEF MappedCluster, Visible
  <1>3. req[t].kind = "ensure" /\ pools[req[t].name].status # "ABSENT"
        /\ nodePoolHashesMatch(req[t].labels, pools[req[t].name].labels)
        => Promise!NothingToDo(t) \/ Promise!StoppingTakenForThere(t)
    BY <1>1, <1>2 DEF Promise!NothingToDo, Promise!StoppingTakenForThere, Promise!Status, Promise!Name, Promise!Matches, nodePoolHashesMatch, MappedCall, MappedCluster
  <1>4. req[t].kind = "static" /\ pools[req[t].name].status # "ABSENT"
        => Promise!NothingToDo(t) \/ Promise!StoppingTakenForThere(t)
    BY <1>1, <1>2 DEF Promise!NothingToDo, Promise!StoppingTakenForThere, Promise!Status, Promise!Name, MappedCall, MappedCluster
  <1>5. req[t].kind = "delete" /\ pools[req[t].name].status = "ABSENT" => Promise!NothingToDo(t)
    BY <1>1, <1>2 DEF Promise!NothingToDo, Promise!Status, Promise!Name, MappedCall, MappedCluster
  <1> QED
    BY <1>1, <1>2, <1>3, <1>4, <1>5 DEF Promise!MayAnswer, Promise!Status, Promise!Name, MappedCall, MappedCluster

-----------------------------------------------------------------------------
(* The promise, step by step.                                              *)

(* A step that answers a call is a step of the abstract specification.     *)
LEMMA AnswerStep ==
    ASSUME GKETypeOK, NEW t \in Threads, Quiet(t), pc[t] \notin {"idle", "return"},
           NEW r \in {"nil", "Duplicate", "Recreate", "Error"}, Promise!MayAnswer(t, r),
           pc'[t] = "return", ret'[t] = r
    PROVE  Promise!Next
  <1>1. CallState(t) \in Promise!AtWork
    BY DEF CallState, Promise!AtWork
  <1>2. Promise!Answers(t)
    BY <1>1, Answering DEF Quiet
  <1> QED BY <1>2 DEF Promise!Next

(* A step of a call that leaves the pools alone, but for their waiter, is  *)
(* quiet.                                                                  *)
LEMMA QuietSteps ==
    ASSUME GKETypeOK, NEW t \in Threads,
           \/ Check(t) \/ CheckFails(t) \/ CreateLoadNPName(t) \/ CreateStoreNPName(t)
           \/ CreateLoadJobKey(t) \/ CreateStoreJobKey(t) \/ CreateRefused(t) \/ CreateWaits(t)
           \/ DeleteLoadNPName(t) \/ DeleteStoreNPName(t) \/ DeleteNotFound(t)
           \/ DeleteRefused(t) \/ DeleteWaits(t)
           \/ checkNodePoolExists(t) \/ StaticRefused(t) \/ StaticWaits(t)
    PROVE  Quiet(t)
  <1> USE DEF GKETypeOK, Quiet, Others, SameToGKE, maps
  <1>1. CASE Check(t) \/ CheckFails(t) \/ CreateLoadNPName(t) \/ CreateStoreNPName(t)
             \/ CreateLoadJobKey(t) \/ CreateStoreJobKey(t) \/ CreateRefused(t)
    BY <1>1 DEF Check, CheckFails, CreateLoadNPName, CreateStoreNPName, CreateLoadJobKey,
                CreateStoreJobKey, CreateRefused, CreateReturns, Goto, Returns
  <1>2. CASE DeleteLoadNPName(t) \/ DeleteStoreNPName(t) \/ DeleteNotFound(t) \/ DeleteRefused(t)
             \/ checkNodePoolExists(t) \/ StaticRefused(t)
    BY <1>2 DEF DeleteLoadNPName, DeleteStoreNPName, DeleteNotFound, DeleteRefused, DeleteReturns,
                checkNodePoolExists, StaticRefused, Goto, Returns
  <1>3. CASE CreateWaits(t) \/ DeleteWaits(t) \/ StaticWaits(t)
    <2>1. SameToGKE
      BY <1>3, GivenUpEffect DEF CreateWaits, DeleteWaits, StaticWaits, OpDone
    <2> QED
      BY <1>3, <2>1 DEF CreateWaits, CreateReturns, DeleteWaits, DeleteReturns, StaticWaits, Returns, OpDone, OpGivenUp
  <1> QED
    BY <1>1, <1>2, <1>3

(* Each step of a call is one the abstract specification allows.           *)
LEMMA CallImplements ==
    ASSUME RefInv, NEW t \in Threads, CallStep(t)
    PROVE  Promise!Next \/ UNCHANGED Promise!callVars
  <1> USE DEF RefInv, GKEInv
  <1>0. /\ pc \in [Threads -> Points] /\ ret \in [Threads -> Results] /\ op \in [Threads -> {"none", "running", "done"}]
        /\ pools \in [Names -> Pools]
    BY DEF GKETypeOK
  <1>1. CASE Check(t)
    <2>1. CallState(t) = "open" /\ Quiet(t) /\ req[t].name \in Names /\ req[t].kind = "ensure"
      BY <1>1, QuietSteps DEF CallState, Check, RequestsOK, CreatePoints
    <2>2. CASE pc'[t] = "return"
      <3>1. Promise!MayAnswer(t, "nil") /\ ret'[t] = "nil"
        BY <1>0, <1>1, <2>1, <2>2, NothingToDoAllowed DEF Check, checkExistingNodePoolState, Goto, Returns
      <3> QED BY <1>1, <2>1, <2>2, <3>1, AnswerStep DEF Check
    <2>3. CASE pc'[t] # "return"
      <3>1. ret' = ret /\ pc'[t] \in {"npLoad", "delLoad"}
        BY <1>0, <1>1, <2>3 DEF Check, Goto, Returns
      <3> QED BY <2>1, <3>1, StaysOpen DEF WaitPoints
    <2> QED BY <2>2, <2>3
  <1>2. CASE CheckFails(t) \/ CreateRefused(t) \/ DeleteRefused(t) \/ StaticRefused(t)
    <2>1. Quiet(t)
      BY <1>2, QuietSteps
    <2>2. pc[t] \notin {"idle", "return"} /\ pc'[t] = "return" /\ ret'[t] = "Error"
      BY <1>0, <1>2 DEF CheckFails, CreateRefused, DeleteRefused, StaticRefused, CreateReturns, DeleteReturns, Returns
    <2> QED BY <2>1, <2>2, AnswerStep, ResultAllowed
  <1>3. CASE CreateLoadNPName(t) \/ CreateLoadJobKey(t) \/ DeleteLoadNPName(t)
    <2>1. CallState(t) = "open" /\ Quiet(t)
      BY <1>3, QuietSteps DEF CallState, CreateLoadNPName, CreateLoadJobKey, DeleteLoadNPName
    <2>2. req[t].kind # "static" /\ pc[t] \notin {"idle", "return"}
      BY <1>3 DEF RequestsOK, CallsOK, CreatePoints, DeletePoints, CreateLoadNPName, CreateLoadJobKey, DeleteLoadNPName
    <2>3. CASE pc'[t] = "return"
      <3>1. ret'[t] = "Duplicate"
        BY <1>0, <1>3, <2>3 DEF CreateLoadNPName, CreateLoadJobKey, DeleteLoadNPName, Goto, Returns
      <3>2. Promise!MayAnswer(t, "Duplicate")
        BY <1>0, <1>3, <2>1, <2>2, <2>3, DuplicateAllowed
        DEF CreateLoadNPName, CreateLoadJobKey, DeleteLoadNPName, Goto
      <3> QED BY <2>1, <2>2, <2>3, <3>1, <3>2, AnswerStep
    <2>4. CASE pc'[t] # "return"
      <3>1. ret' = ret /\ pc'[t] \in {"npStore", "keyStore", "delStore"}
        BY <1>0, <1>3, <2>4 DEF CreateLoadNPName, CreateLoadJobKey, DeleteLoadNPName, Goto, Returns
      <3> QED BY <2>1, <3>1, StaysOpen DEF WaitPoints
    <2> QED BY <2>3, <2>4
  <1>4. CASE CreateStoreNPName(t) \/ CreateStoreJobKey(t) \/ DeleteStoreNPName(t)
    <2>1. CallState(t) = "open" /\ Quiet(t)
      BY <1>4, QuietSteps DEF CallState, CreateStoreNPName, CreateStoreJobKey, DeleteStoreNPName
    <2>2. ret' = ret /\ pc'[t] \in {"keyLoad", "create", "delete"}
      BY <1>0, <1>4 DEF CreateStoreNPName, CreateStoreJobKey, DeleteStoreNPName, Goto
    <2> QED BY <2>1, <2>2, StaysOpen DEF WaitPoints
  <1>5. CASE CreateAccepted(t) \/ StaticAccepted(t)
    <2> DEFINE n == req[t].name
    <2>1. /\ CallState(t) = "open" /\ Others(t) /\ req' = req /\ ret' = ret /\ op'[t] = "running"
          /\ pc'[t] \in {"createWait", "staticWait"}
      BY <1>0, <1>5 DEF CallState, Others, CreateAccepted, StaticAccepted, Goto
    <2>2. n \in Names /\ req[t].kind \in {"ensure", "static"}
      BY <1>5 DEF RequestsOK, CreatePoints, StaticPoints, CreateAccepted, StaticAccepted
    <2>3. /\ pools[n].status = "ABSENT" /\ \A m \in Names \ {n} : pools'[m] = pools[m]
          /\ pools'[n].status = "PROVISIONING" /\ pools'[n].labels = req[t].labels
      BY <1>0, <1>5, <2>2 DEF CreateAccepted, StaticAccepted
    <2>4. MappedCluster' = [MappedCluster EXCEPT ![n] = [status |-> "PROVISIONING", labels |-> req[t].labels]]
      BY <2>2, <2>3, ClusterMoves DEF Visible
    <2>5. MappedCall' = [MappedCall EXCEPT ![t].state = "creating"]
      BY <2>1, Starting
    <2>6. MappedCall[t].state = "open" /\ MappedCall[t].request = req[t] /\ MappedCluster[n].status = "ABSENT"
      BY <2>1, <2>2, <2>3 DEF MappedCall, MappedCluster, CallOf, Visible
    <2>7. Promise!Creates(t)
      BY <2>2, <2>4, <2>5, <2>6 DEF Promise!Creates, Promise!Status, Promise!Name, MappedCall, MappedCluster
    <2> QED BY <2>7 DEF Promise!Next
  <1>6. CASE DeleteAccepted(t)
    <2> DEFINE n == req[t].name
    <2>1. /\ CallState(t) = "open" /\ Others(t) /\ req' = req /\ ret' = ret /\ op'[t] = "running"
          /\ pc'[t] = "deleteWait"
      BY <1>0, <1>6 DEF CallState, Others, DeleteAccepted, Goto
    <2>2. n \in Names /\ req[t].kind \in {"ensure", "delete"}
      BY <1>6 DEF RequestsOK, CallsOK, DeletePoints, DeleteAccepted
    <2>3. /\ pools[n].status \in {"RUNNING", "ERROR"} /\ \A m \in Names \ {n} : pools'[m] = pools[m]
          /\ pools'[n].status = "STOPPING" /\ pools'[n].labels = pools[n].labels
      BY <1>0, <1>6, <2>2 DEF DeleteAccepted, Pools
    <2>4. MappedCluster' = [MappedCluster EXCEPT ![n].status = "STOPPING"]
      BY <2>2, <2>3, StatusMoves DEF Statuses
    <2>5. MappedCall' = [MappedCall EXCEPT ![t].state = "deleting"]
      BY <2>1, Starting
    <2>6. req[t].kind = "ensure" => pools[n].labels.hash # None
      BY <1>6, <2>3 DEF LegacyPoolKept, DeletePoints, DeleteAccepted
    <2>7. /\ MappedCall[t].state = "open" /\ MappedCall[t].request = req[t]
          /\ MappedCluster[n].status \in {"RUNNING", "ERROR"}
          /\ MappedCluster[n].labels = pools[n].labels
      BY <2>1, <2>2, <2>3 DEF MappedCall, MappedCluster, CallOf, Visible
    <2>8. Promise!Deletes(t)
      BY <2>2, <2>4, <2>5, <2>6, <2>7 DEF Promise!Deletes, Promise!Status, Promise!Name, MappedCall, MappedCluster
    <2> QED BY <2>8 DEF Promise!Next
  <1>7. CASE CreateWaits(t) \/ StaticWaits(t)
    <2>1. Quiet(t) /\ pc[t] \notin {"idle", "return"} /\ pc'[t] = "return"
      BY <1>0, <1>7, QuietSteps DEF CreateWaits, StaticWaits, CreateReturns, Returns
    <2>2. ret'[t] = "Error" \/ (ret'[t] = "nil" /\ CallState(t) = "created")
      BY <1>0, <1>7 DEF CreateWaits, StaticWaits, CreateReturns, Returns, OpDone, CallState
    <2> QED BY <2>1, <2>2, AnswerStep, ResultAllowed
  <1>8. CASE DeleteWaits(t)
    <2>1. Quiet(t) /\ pc[t] \notin {"idle", "return"} /\ pc'[t] = "return"
      BY <1>0, <1>8, QuietSteps DEF DeleteWaits, DeleteReturns, Returns
    <2>2. req[t].kind \in {"ensure", "delete"}
      BY <1>8 DEF CallsOK, DeletePoints, DeleteWaits
    <2>3. \/ ret'[t] = "Error"
          \/ ret'[t] = "nil" /\ CallState(t) = "deleted" /\ req[t].kind = "delete"
          \/ ret'[t] = "Recreate" /\ CallState(t) = "deleted" /\ req[t].kind = "ensure"
      BY <1>0, <1>8, <2>2 DEF DeleteWaits, DeleteReturns, Returns, OpDone, CallState
    <2> QED BY <2>1, <2>3, AnswerStep, ResultAllowed
  <1>9. CASE DeleteNotFound(t)
    <2>1. Quiet(t) /\ pc[t] = "delete" /\ pc'[t] = "return" /\ CallState(t) = "open"
      BY <1>0, <1>9, QuietSteps DEF DeleteNotFound, DeleteReturns, Returns, CallState
    <2>2. req[t].name \in Names /\ req[t].kind \in {"ensure", "delete"} /\ pools[req[t].name].status = "ABSENT"
      BY <1>9, <2>1 DEF RequestsOK, CallsOK, DeletePoints, DeleteNotFound
    <2>3. \/ ret'[t] = "nil" /\ req[t].kind = "delete"
          \/ ret'[t] = "Recreate" /\ req[t].kind = "ensure"
      BY <1>0, <1>9, <2>2 DEF DeleteNotFound, DeleteReturns, Returns
    <2> QED BY <2>1, <2>2, <2>3, AnswerStep, NothingToDoAllowed
  <1>10. CASE checkNodePoolExists(t)
    <2>1. CallState(t) = "open" /\ Quiet(t) /\ pc[t] = "staticCheck"
      BY <1>10, QuietSteps DEF CallState, checkNodePoolExists
    <2>2. req[t].name \in Names /\ req[t].kind = "static"
      BY <2>1 DEF RequestsOK, StaticPoints
    <2>3. \/ pc'[t] = "return" /\ ret'[t] = "nil" /\ pools[req[t].name].status # "ABSENT"
          \/ pc'[t] = "staticCreate" /\ ret' = ret
      BY <1>0, <1>10 DEF checkNodePoolExists, Goto, Returns
    <2> QED BY <2>1, <2>2, <2>3, AnswerStep, NothingToDoAllowed, StaysOpen DEF WaitPoints
  <1> QED
    BY <1>1, <1>2, <1>3, <1>4, <1>5, <1>6, <1>7, <1>8, <1>9, <1>10 DEF CallStep

(* So is each step of a caller.                                            *)
LEMMA CallerImplements ==
    ASSUME RefInv, NEW t \in Threads, Calls(t)
    PROVE  Promise!Next
  <1> USE DEF RefInv, GKEInv
  <1>0. /\ pc \in [Threads -> Points] /\ ret \in [Threads -> Results]
        /\ req \in [Threads -> Requests]
    BY DEF GKETypeOK
  <1>1. ASSUME NEW np \in NodePools, EnsureNodePoolForPod(t, np)
        PROVE  Promise!Opens(t)
    <2> DEFINE r == [kind |-> "ensure", name |-> np.name, jobKey |-> np.jobKey, labels |-> np.labels]
    <2>1. r \in AbstractRequests
      BY DesiredTyped DEF AbstractRequests
    <2>2. Others(t) /\ SameToGKE /\ pc[t] = "idle" /\ pc'[t] = "check" /\ req'[t] = r /\ ret'[t] = ret[t]
      BY <1>0, <1>1 DEF EnsureNodePoolForPod, Goto, Others, SameToGKE
    <2> QED BY <2>1, <2>2, Opening
  <1>2. ASSUME NEW np \in StaticNodePools, StaticEnsure(t, np)
        PROVE  Promise!Opens(t)
    <2> DEFINE r == [kind |-> "static", name |-> np.name, jobKey |-> None, labels |-> np.labels]
    <2>1. r \in AbstractRequests
      BY StaticTyped DEF AbstractRequests
    <2>2. Others(t) /\ SameToGKE /\ pc[t] = "idle" /\ pc'[t] = "staticCheck" /\ req'[t] = r /\ ret'[t] = ret[t]
      BY <1>0, <1>2 DEF StaticEnsure, Goto, Others, SameToGKE
    <2> QED BY <2>1, <2>2, Opening
  <1>3. ASSUME NEW n \in Names, DeleteNodePool(t, n)
        PROVE  Promise!Opens(t)
    <2> DEFINE r == [NoRequest EXCEPT !.kind = "delete", !.name = n]
    <2>1. r \in AbstractRequests
      BY EmptyTyped DEF AbstractRequests, NoRequest
    <2>2. Others(t) /\ SameToGKE /\ pc[t] = "idle" /\ pc'[t] = "delLoad" /\ req'[t] = r /\ ret'[t] = ret[t]
      BY <1>0, <1>3 DEF DeleteNodePool, Goto, Others, SameToGKE
    <2> HIDE DEF r
    <2> QED BY <2>1, <2>2, Opening
  <1>4. CASE EnsureRejectsPod(t)
    <2>1. Others(t) /\ SameToGKE /\ pc[t] = "idle" /\ pc'[t] = "return" /\ req'[t] = req[t] /\ ret'[t] = "Error"
      BY <1>0, <1>4 DEF EnsureRejectsPod, Returns, Others, SameToGKE
    <2>2. Promise!Rejected(t)
      BY <2>1, Rejecting
    <2> QED BY <2>2 DEF Promise!Next
  <1>5. CASE CallEnds(t)
    <2>1. Others(t) /\ SameToGKE /\ pc[t] = "return" /\ pc'[t] = "idle" /\ req'[t] = NoRequest /\ ret'[t] = "nil"
      BY <1>0, <1>5 DEF CallEnds, Others, SameToGKE
    <2>2. Promise!Closes(t)
      BY <2>1, Closing
    <2> QED BY <2>2 DEF Promise!Next
  <1> QED
    BY <1>1, <1>2, <1>3, <1>4, <1>5 DEF Calls, Promise!Next

(* A restart is the loss of every call.                                    *)
LEMMA RestartImplements ==
    ASSUME GKETypeOK, ProviderRestarts
    PROVE  Promise!Next
  <1>1. SameToGKE
    BY DEF SameToGKE, ProviderRestarts, GKETypeOK, Pools
  <1>2. MappedCall' = [t \in Threads |-> [state |-> "idle", request |-> NoRequest, result |-> "nil"]]
    BY DEF MappedCall, CallOf, CallState, ProviderRestarts
  <1>3. Promise!CallsLost
    BY <1>1, <1>2, ClusterKept DEF Promise!CallsLost, Promise!Idle, MappedCall, MappedCluster
  <1> QED BY <1>3 DEF Promise!Next

(* Initial states are mapped to initial states.                            *)
LEMMA InitImplements == GKEInit => Promise!Init
  <1> SUFFICES ASSUME GKEInit PROVE Promise!Init
    OBVIOUS
  <1>1. MappedCall = [t \in Threads |-> [state |-> "idle", request |-> NoRequest, result |-> "nil"]]
    BY DEF MappedCall, CallOf, CallState, GKEInit
  <1>2. ASSUME NEW n \in Names
        PROVE  Visible(pools[n]) \in {Visible(AbsentPool)} \cup [status : {"RUNNING", "ERROR"}, labels : InitialLabels]
    BY DEF GKEInit, Visible
  <1>3. MappedCluster \in [Names -> {Visible(AbsentPool)} \cup [status : {"RUNNING", "ERROR"}, labels : InitialLabels]]
    BY <1>2 DEF MappedCluster
  <1> QED
    BY <1>1, <1>3 DEF Promise!Init, Promise!Idle, MappedCall, MappedCluster

(* Steps that change nothing of the provider change nothing abstractly.    *)
LEMMA StutterImplements == UNCHANGED gkeVars => UNCHANGED Promise!callVars
  BY DEF gkeVars, Promise!callVars, Visible, CallOf, CallState

(* The provider keeps the promise of the cloud.Provider interface, for any *)
(* number of goroutines, pools and labels: a call has one request accepted *)
(* at most, and answers duplicate, nil or recreate only when that is so.   *)
THEOREM PromiseKept == GKESpec => KeepsPromise
  <1>1. GKEInit => RefInv
    <2> SUFFICES ASSUME GKEInit PROVE RefInv
      OBVIOUS
    <2>1. InProgressOwned /\ LegacyPoolKept /\ WaitersMatch
      BY NoneAssumption, InitialLabelsAssumption, EmptyTyped
      DEF GKEInit, InProgressOwned, WaitersMatch, LegacyPoolKept, HoldsNP, HoldsKey, HoldsDel, NoRequest, AbsentPool, DeletePoints
    <2>2. CallsOK
      BY DEF GKEInit, CallsOK, DeletePoints, WaitPoints
    <2> QED BY <2>1, <2>2, GKEInitTyped DEF RefInv
  <1>2. RefInv /\ [GKENext]_gkeVars => RefInv'
    <2> SUFFICES ASSUME RefInv, [GKENext]_gkeVars PROVE RefInv'
      OBVIOUS
    <2> USE DEF RefInv
    <2>1. CASE GKENext
      BY <2>1, GKEInvStep, CallOwned, OtherOwned, CallWaiters, OtherWaiters, CallLegacy, OtherLegacy,
         CallCallsOK, OtherCallsOK DEF GKENext
    <2>2. CASE UNCHANGED gkeVars
      BY <2>2, GKEInvStep DEF gkeVars, InProgressOwned, WaitersMatch, LegacyPoolKept, CallsOK
    <2> QED BY <2>1, <2>2
  <1>3. RefInv /\ [GKENext]_gkeVars => [Promise!Next]_(Promise!callVars)
    <2> SUFFICES ASSUME RefInv, [GKENext]_gkeVars PROVE Promise!Next \/ UNCHANGED Promise!callVars
      OBVIOUS
    <2>1. CASE \E t \in Threads : CallStep(t)
      BY <2>1, CallImplements
    <2>2. CASE \E t \in Threads : Calls(t)
      BY <2>2, CallerImplements
    <2>3. CASE GKEStep
      <3>1. PICK n \in Names : Provisioned(n) \/ ProvisioningFails(n) \/ Deleted(n) \/ DeletionFails(n)
        BY <2>3 DEF GKEStep
      <3>2. Promise!OperationEnds(n)
        BY <3>1, Ending
      <3>3. n \in DOMAIN [m \in Names |-> Visible(pools[m])]
        OBVIOUS
      <3> QED BY <3>2, <3>3 DEF Promise!Next
    <2>4. CASE ProviderRestarts
      BY <2>4, RestartImplements DEF RefInv, GKEInv
    <2>5. CASE UNCHANGED gkeVars
      BY <2>5, StutterImplements
    <2> QED BY <2>1, <2>2, <2>3, <2>4, <2>5 DEF GKENext
  <1> QED
    BY <1>1, <1>2, <1>3, InitImplements, PTL DEF GKESpec, KeepsPromise, Promise!Spec
=============================================================================
