--------------------------- MODULE ProviderCalls ---------------------------
(***************************************************************************)
(* What the cloud.Provider interface promises the reconcilers, with        *)
(* nothing of how the provider keeps its promise: no in-progress maps, no  *)
(* checks before requests, no polling.                                     *)
(*                                                                         *)
(* A call has at most one request accepted by GKE in its life.  It answers *)
(* "duplicate" only while another call is at work on the same pool or for  *)
(* the same job, nil only if the pool is as asked for (or was, and is      *)
(* being deleted: StoppingTakenForThere) or the operation the call started *)
(* has ended, "stopping" only if the pool is being deleted, and "recreate" *)
(* only if the pool it was to replace is gone or its deletion has ended.   *)
(* A pool of an older release, which has no hash, is deleted by a call for *)
(* its deletion only.                                                      *)
(***************************************************************************)
CONSTANTS Threads, Requests, NoRequest, InitialPools, AbsentPool, None

VARIABLES
    cluster,  \* status and labels of each pool
    call      \* what each thread asked for, how far it is, what it was told

callVars == <<cluster, call>>

(* A call is open until GKE accepts its request; GKE is then creating or   *)
(* deleting; created and deleted are the ends of the operation, good or    *)
(* bad; an answered call waits for its caller.                             *)
Idle == [state |-> "idle", request |-> NoRequest, result |-> "nil"]

AtWork == {"open", "creating", "deleting", "created", "deleted"}

Init ==
    /\ cluster \in InitialPools
    /\ call = [t \in Threads |-> Idle]

-----------------------------------------------------------------------------
Name(t) == call[t].request.name

Status(t) == cluster[Name(t)].status

Opens(t) ==
    /\ call[t] = Idle
    /\ \E r \in Requests : call' = [call EXCEPT ![t].state = "open", ![t].request = r]
    /\ UNCHANGED cluster

(* A call whose arguments are no good is answered at once.                 *)
Rejected(t) ==
    /\ call[t] = Idle
    /\ call' = [call EXCEPT ![t].state = "answered", ![t].result = "Error"]
    /\ UNCHANGED cluster

Creates(t) ==
    /\ call[t].state = "open" /\ call[t].request.kind \in {"ensure", "static"}
    /\ Status(t) = "ABSENT"
    /\ cluster' = [cluster EXCEPT ![Name(t)] = [status |-> "PROVISIONING", labels |-> call[t].request.labels]]
    /\ call' = [call EXCEPT ![t].state = "creating"]

Deletes(t) ==
    /\ call[t].state = "open"
    /\ \/ call[t].request.kind = "delete"
       \/ call[t].request.kind = "ensure" /\ cluster[Name(t)].labels.hash # None
    /\ Status(t) \in {"RUNNING", "ERROR"}
    /\ cluster' = [cluster EXCEPT ![Name(t)].status = "STOPPING"]
    /\ call' = [call EXCEPT ![t].state = "deleting"]

Matches(labels, wanted) == labels.hash \in {None, wanted.hash}

(* The pool is already what the call is to bring about.  A pool in ERROR   *)
(* is left to the garbage collector.                                       *)
NothingToDo(t) ==
    CASE call[t].request.kind = "delete" -> Status(t) = "ABSENT"
      [] call[t].request.kind = "static" -> Status(t) \notin {"ABSENT", "STOPPING"}
      [] call[t].request.kind = "ensure" -> /\ Status(t) \notin {"ABSENT", "STOPPING"}
                                            /\ Matches(cluster[Name(t)].labels, call[t].request.labels)

(* An exception to what nil should mean: the pool that the call is to      *)
(* bring about is there, and is being deleted.  "Stopping" is the answer   *)
(* that the interface has for this, and that the creation reconciler       *)
(* retries on; gke.go looks at the status only after a failed Get, and     *)
(* answers nil (StoppingPoolAwaited is about that).                        *)
StoppingTakenForThere(t) ==
    /\ call[t].request.kind \in {"static", "ensure"}
    /\ Status(t) = "STOPPING"
    /\ call[t].request.kind = "ensure" => Matches(cluster[Name(t)].labels, call[t].request.labels)

OthersAtWork(t) ==
    \E u \in Threads \ {t} :
        /\ call[u].state \in AtWork /\ call[u].request.kind # "static"
        /\ \/ Name(u) = Name(t)
           \/ call[u].request.jobKey # None /\ call[u].request.jobKey = call[t].request.jobKey

MayAnswer(t, result) ==
    \/ result = "Error"
    \/ result = "Duplicate" /\ call[t].state = "open" /\ call[t].request.kind # "static" /\ OthersAtWork(t)
    \/ result = "nil" /\ call[t].state = "open" /\ (NothingToDo(t) \/ StoppingTakenForThere(t))
    \/ result = "nil" /\ call[t].state = "created"
    \/ result = "nil" /\ call[t].state = "deleted" /\ call[t].request.kind = "delete"
    \/ result = "Stopping" /\ call[t].state = "open" /\ call[t].request.kind = "ensure" /\ Status(t) = "STOPPING"
    \/ result = "Recreate" /\ call[t].state = "deleted" /\ call[t].request.kind = "ensure"
    \/ result = "Recreate" /\ call[t].state = "open" /\ call[t].request.kind = "ensure" /\ Status(t) = "ABSENT"

Answers(t) ==
    /\ call[t].state \in AtWork
    /\ \E result \in {"nil", "Duplicate", "Stopping", "Recreate", "Error"} :
          /\ MayAnswer(t, result)
          /\ call' = [call EXCEPT ![t].state = "answered", ![t].result = result]
    /\ UNCHANGED cluster

Closes(t) ==
    /\ call[t].state = "answered"
    /\ call' = [call EXCEPT ![t] = Idle]
    /\ UNCHANGED cluster

(* GKE's operation on a pool ends, and the call that started it, if it has *)
(* not been answered meanwhile, knows.                                     *)
OperationEnds(n) ==
    /\ \/ /\ cluster[n].status = "PROVISIONING"
          /\ \E s \in {"RUNNING", "ERROR"} : cluster' = [cluster EXCEPT ![n].status = s]
       \/ /\ cluster[n].status = "STOPPING"
          /\ cluster' \in {[cluster EXCEPT ![n] = AbsentPool], [cluster EXCEPT ![n].status = "ERROR"]}
    /\ call' = [t \in Threads |->
                   IF Name(t) # n THEN call[t]
                   ELSE IF call[t].state = "creating" THEN [call[t] EXCEPT !.state = "created"]
                   ELSE IF call[t].state = "deleting" THEN [call[t] EXCEPT !.state = "deleted"]
                   ELSE call[t]]

(* The process dies and comes back.                                        *)
CallsLost ==
    /\ call' = [t \in Threads |-> Idle]
    /\ UNCHANGED cluster

Next ==
    \/ \E t \in Threads : Opens(t) \/ Rejected(t) \/ Creates(t) \/ Deletes(t) \/ Answers(t) \/ Closes(t)
    \/ \E n \in DOMAIN cluster : OperationEnds(n)
    \/ CallsLost

Spec == Init /\ [][Next]_callVars
=============================================================================
