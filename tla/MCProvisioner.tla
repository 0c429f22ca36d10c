--------------------------- MODULE MCProvisioner ---------------------------
(* Instances of Provisioner for TLC: one JobSet, with the node pool name   *)
(* that NodePoolSpecs makes of its leader pod.                             *)
EXTENDS Provisioner, Sequences, TLC

CONSTANTS c1, d1, j1, k1, h1, h2

Context ==
    [maxPods |-> 16, secureBoot |-> FALSE, networks |-> <<>>, serviceAccount |-> "sa",
     forceOnDemand |-> FALSE, podToNodeLabels |-> {}]

OnDemandContext == [Context EXCEPT !.forceOnDemand = TRUE]

Specs    == INSTANCE NodePoolSpecs WITH ClusterContext <- Context, LongNames <- {}
OnDemand == INSTANCE NodePoolSpecs WITH ClusterContext <- OnDemandContext, LongNames <- {}

PodSpec(accelerator, topology, requests) ==
    [jobSet |-> "js", jobKey |-> "key", jobSetPrefix |-> "js", jobKeyPrefix |-> "key", namespace |-> "ns",
     owner |-> [kind |-> "Job", name |-> "job"], labels |-> <<>>, copyLabels |-> {}, tpuRequests |-> requests,
     nodeSelector |-> [k \in {"tpu-accelerator", "tpu-topology"} |->
                          IF k = "tpu-topology" THEN topology ELSE accelerator],
     networks |-> <<>>, serviceAccount |-> None]

LeaderPod == PodSpec("tpu-v5p-slice", <<2, 2, 4>>, <<4>>)

MCNames        == {Specs!podToNodePoolName(LeaderPod)}
MCNodePoolName == [j \in JobSets |-> Specs!podToNodePoolName(LeaderPod)]
MCJobKeyOf     == [j \in JobSets |-> k1]

(* Pools that an earlier JobSet of the name has left behind: one as the    *)
(* pods of the new JobSet ask for, one of another configuration.           *)
MCInitialLabels == [hash : {h1, h2}, jobset : {j1}, legacyID : {None}, static : {FALSE}]

-----------------------------------------------------------------------------
(* The construction of node pools over bounded inputs.                     *)

Accelerators == {"tpu-v4-podslice", "tpu-v5-lite-podslice", "tpu-v5p-slice", "tpu-v6e-slice", "tpu7x", "gpu"}
Topologies   == [1..2 -> {1, 2, 4, None}] \cup [1..3 -> {1, 2, 4, None}]
TPURequests  == {<<0>>, <<1>>, <<4>>, <<8>>, <<2, 2>>, <<4, None>>}

PodSpecs ==
    LET plain == {PodSpec(acc, topo, reqs) : acc \in Accelerators, topo \in Topologies, reqs \in TPURequests}
    IN  plain \cup {[s EXCEPT !.nodeSelector = @ @@ [k \in {"gke-spot", "reservation-name", "reservation-project"} |->
                                                        IF k = "gke-spot" THEN "true" ELSE k]] : s \in plain}

Chips(topology) == IF Len(topology) = 2 THEN topology[1] * topology[2] ELSE topology[1] * topology[2] * topology[3]

(* A pool has as many nodes as hold the chips of the topology at 4 each,   *)
(* and no more (tpuTopologyToNodeCount).                                   *)
ASSUME NodesHoldTheChips ==
    \A s \in PodSpecs :
        LET np == Specs!nodePoolForPod(s)
        IN  np # None => /\ 4 * np.nodeCount >= Chips(s.nodeSelector["tpu-topology"])
                         /\ 4 * (np.nodeCount - 1) < Chips(s.nodeSelector["tpu-topology"])

(* ForceOnDemand drops spot and reservation and changes nothing else, so   *)
(* that a pod of either kind has one pool name whichever way it runs.      *)
ASSUME OnDemandDropsReservation ==
    \A s \in PodSpecs :
        LET np == Specs!nodePoolForPod(s)
        IN  OnDemand!nodePoolForPod(s) =
                IF np = None THEN None ELSE [np EXCEPT !.spot = FALSE, !.reservation = None]

(* The hash of a pod's pool covers neither topology nor node count         *)
(* (gke.go:1058): a pool with fewer nodes than a pod needs can match it.   *)
ASSUME TopologyIsNotHashed ==
    LET small == Specs!nodePoolForPod(PodSpec("tpu-v5p-slice", <<2, 2, 1>>, <<4>>))
        large == Specs!nodePoolForPod(LeaderPod)
    IN  /\ small.name = large.name /\ small.nodeCount < large.nodeCount
        /\ Specs!nodePoolHash(small) = Specs!nodePoolHash(large)
=============================================================================
