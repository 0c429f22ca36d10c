--------------------------- MODULE GKERefinement ---------------------------
(* The GKE provider as an implementation of ProviderCalls.                 *)
EXTENDS GKEProvider

Visible(pool) == [status |-> pool.status, labels |-> pool.labels]

(* How far a call is, from where its thread is and what it knows of the    *)
(* operation.                                                              *)
CallState(t) ==
    CASE pc[t] = "idle"   -> "idle"
      [] pc[t] = "return" -> "answered"
      [] pc[t] \in {"createWait", "staticWait"} -> IF op[t] = "done" THEN "created" ELSE "creating"
      [] pc[t] = "deleteWait"                   -> IF op[t] = "done" THEN "deleted" ELSE "deleting"
      [] OTHER -> "open"

CallOf(t) == [state |-> CallState(t), request |-> req[t], result |-> ret[t]]

Promise == INSTANCE ProviderCalls WITH
    Requests     <- [kind : {"ensure", "static", "delete"}, name : Names, jobKey : JobKeys \cup {None},
                     labels : Labels],
    InitialPools <- [Names -> {Visible(AbsentPool)} \cup [status : {"RUNNING", "ERROR"}, labels : InitialLabels]],
    AbsentPool   <- Visible(AbsentPool),
    cluster      <- [n \in Names |-> Visible(pools[n])],
    call         <- [t \in Threads |-> CallOf(t)]

(* The provider keeps the promise of its interface: across concurrent      *)
(* calls, requests refused, operations that fail or outlive the wait for   *)
(* them, and restarts, every step of gke.go is a step of ProviderCalls or  *)
(* changes nothing a caller or GKE can see.                                *)
KeepsPromise == Promise!Spec
=============================================================================
