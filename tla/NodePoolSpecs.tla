--------------------------- MODULE NodePoolSpecs ---------------------------
(***************************************************************************)
(* What the controller asks GKE for: the node pool of a pod                *)
(* (nodePoolForPod in gke.go), the static node pools of a ConfigMap        *)
(* (constructDesiredNodePools in static_nodepool_controller.go,            *)
(* StaticNodePoolForSubBlock in gke.go), and the hash by which a pool that *)
(* exists is compared with one that is wanted (nodePoolHash).              *)
(*                                                                         *)
(* A string the code puts together from parts is the tuple of the parts,   *)
(* and a string it takes apart is given as the tuple.  The hash is the     *)
(* record of what is hashed: collisions of the 32-bit hash are left out.   *)
(* None is an optional value that is not set, text that does not parse, or *)
(* an error returned.  Settings of the cluster that every pool gets        *)
(* unchanged (disks, tags, locations, upgrade settings) are left out.      *)
(***************************************************************************)
EXTENDS Integers, Sequences, Functions, Folds, TLC

CONSTANTS
    None,
    ClusterContext,  \* GKEContext: maxPods, secureBoot, networks, serviceAccount, forceOnDemand, podToNodeLabels
    LongNames        \* node pool names of more than 40 characters

OrDefault(x, default) == IF x = None THEN default ELSE x

-----------------------------------------------------------------------------
(* Static node pools.                                                      *)

(* "start-end" or "start", given as the numbers between the dashes.        *)
ParseSubBlocks(parts) ==
    IF None \in Range(parts) \/ Len(parts) > 2 \/ parts[1] > parts[Len(parts)]
    THEN None
    ELSE <<parts[1], parts[Len(parts)]>>

SubblocksOfBlock(block) ==
    LET range == ParseSubBlocks(block.subblocks) IN range[1] .. range[2]

SetNodePoolName(nodepoolPrefix, blockName, index) ==
    IF nodepoolPrefix # None THEN <<nodepoolPrefix, index>> ELSE <<blockName, "subblock", index>>

(* One pool for each subblock of each gscBlock; a range that does not      *)
(* parse fails them all.                                                   *)
constructDesiredNodePools(gscBlocks) ==
    IF \E b \in gscBlocks : ParseSubBlocks(b.subblocks) = None
    THEN None
    ELSE UNION {{[name     |-> SetNodePoolName(b.nodepoolPrefix, b.name, i),
                  subblock |-> <<b.reservation, b.name, i>>] : i \in SubblocksOfBlock(b)} : b \in gscBlocks}

(* Mutant: the reservation is not hashed.                                  *)
nodePoolHashWithoutReservation(np) ==
    [placement |-> np.placement, nodeCount |-> np.nodeCount, maxPods |-> np.maxPods,
     machineType |-> np.machineType, shielded |-> np.shielded, labels |-> np.labels]

(* labels does not hold the hash itself, which is added last.              *)
nodePoolHash(np) ==
    IF "static" \in DOMAIN np.labels /\ np.labels["static"] = "true"
    THEN [placement |-> np.placement, nodeCount |-> np.nodeCount, maxPods |-> np.maxPods,
          machineType |-> np.machineType, reservation |-> np.reservation, shielded |-> np.shielded,
          labels |-> np.labels]
    ELSE [spot |-> np.spot, labels |-> np.labels, machineType |-> np.machineType,
          reservation |-> np.reservation]

PlacementByTopology(topology) == [policy |-> None, topology |-> topology, type |-> "COMPACT"]
PlacementByPolicy(policy)     == [policy |-> policy, topology |-> None, type |-> None]
NoPlacement                   == [policy |-> None, topology |-> None, type |-> None]

TopologyPolicy(topology) == <<"tpu-provisioner", topology>>

StaticPlacement(nodepoolConfig) ==
    CASE nodepoolConfig.placementPolicy # None -> PlacementByPolicy(nodepoolConfig.placementPolicy)
      [] nodepoolConfig.placementPolicy = None /\ nodepoolConfig.accelerator = "tpu7x"
           -> PlacementByPolicy(TopologyPolicy(nodepoolConfig.topology))
      [] OTHER -> PlacementByTopology(nodepoolConfig.topology)

(* "network:subnetwork, ...", given as the tuple of the parts of each      *)
(* entry, which is empty for a blank one.                                  *)
parseAdditionalNodeNetworks(entries) ==
    IF \E i \in DOMAIN entries : Len(entries[i]) = 1
    THEN None
    ELSE SelectSeq(entries, LAMBDA entry : Len(entry) = 2)

(* The user's labels are written over the controller's own.                *)
StaticNodePoolForSubBlock(nodePoolID, subblockToConsume, nodepoolConfig) ==
    IF nodePoolID \in LongNames \/ parseAdditionalNodeNetworks(ClusterContext.networks) = None
    THEN None
    ELSE [name        |-> nodePoolID,
          machineType |-> nodepoolConfig.machineType,
          nodeCount   |-> nodepoolConfig.nodeCount,
          reservation |-> subblockToConsume,
          spot        |-> FALSE,
          labels      |-> nodepoolConfig.nodeLabels @@ [manager |-> "tpu-provisioner", id |-> nodePoolID, static |-> "true"],
          placement   |-> StaticPlacement(nodepoolConfig),
          shielded    |-> [integrity  |-> OrDefault(nodepoolConfig.shieldedIntegrityMonitoring, TRUE),
                           secureBoot |-> OrDefault(nodepoolConfig.shieldedSecureBoot, ClusterContext.secureBoot)],
          autoRepair  |-> OrDefault(nodepoolConfig.enableAutoRepair, TRUE),
          maxPods     |-> IF nodepoolConfig.maxPodsPerNode = 0 THEN ClusterContext.maxPods ELSE nodepoolConfig.maxPodsPerNode,
          networks    |-> parseAdditionalNodeNetworks(ClusterContext.networks),
          serviceAccount |-> ClusterContext.serviceAccount]

-----------------------------------------------------------------------------
(* The node pool of a pod.                                                 *)

(* The requests of its containers; None: not a whole number.               *)
sumTPURequests(requests) ==
    IF None \in Range(requests) THEN None ELSE FoldFunction(+, 0, requests)

Dimensions(accelerator) ==
    CASE accelerator \in {"tpu-v4-podslice", "tpu-v5p-slice", "tpu7x"}        -> 3
      [] accelerator \in {"tpu-v5-lite-podslice", "tpu-v6e-slice"}            -> 2
      [] OTHER                                                                -> None

(* Hosts have 4 chips; a part of a host counts as one.                     *)
tpuTopologyToNodeCount(accelerator, topology) ==
    IF Dimensions(accelerator) # Len(topology) \/ None \in Range(topology)
    THEN None
    ELSE (FoldFunction(LAMBDA x, y : x * y, 1, topology) + 3) \div 4

MachineFamily(accelerator) ==
    CASE accelerator = "tpu-v4-podslice"      -> "ct4p-hightpu"
      [] accelerator = "tpu-v5-lite-podslice" -> "ct5lp-hightpu"
      [] accelerator = "tpu-v5p-slice"        -> "ct5p-hightpu"
      [] accelerator = "tpu-v6e-slice"        -> "ct6e-standard"
      [] accelerator = "tpu7x"                -> "tpu7x-standard"
      [] OTHER                                -> None

tpuMachineType(accelerator, tpuRequest) ==
    IF tpuRequest < 1 \/ MachineFamily(accelerator) = None
    THEN None
    ELSE <<MachineFamily(accelerator), tpuRequest>>

(* The machine types that end in "1t", and two of v6e.                     *)
SingleHost(machineType, nodeCount) ==
    \/ machineType[2] % 10 = 1
    \/ machineType = <<"ct6e-standard", 8>>
    \/ machineType = <<"ct6e-standard", 4>> /\ nodeCount = 1

(* The name takes 34 characters of the JobSet's name and 5 of the job key, *)
(* given as jobSetPrefix and jobKeyPrefix.                                 *)
podToNodePoolName(p) ==
    IF p.jobSet = None \/ p.jobKey = None THEN None ELSE <<p.jobSetPrefix, p.jobKeyPrefix>>

(* Selectors of Google's that the code reads or that name no label of the  *)
(* node; the two others of theirs, ICI resiliency and location hint, are   *)
(* copied like the user's.                                                 *)
GoogleSelectors == {"tpu-topology", "tpu-accelerator", "reservation-name", "reservation-project", "gke-spot"}

(* Later ones are written over earlier ones: the controller's own, those   *)
(* copied from the pod, those of the node selector.                        *)
NodeLabelsForPod(p) ==
    Restrict(p.nodeSelector, DOMAIN p.nodeSelector \ GoogleSelectors)
    @@ Restrict(p.labels, (ClusterContext.podToNodeLabels \cup p.copyLabels) \cap DOMAIN p.labels)
    @@ [manager |-> "tpu-provisioner", parentKind |-> p.owner.kind, parentName |-> p.owner.name,
        parentNamespace |-> p.namespace, jobSet |-> p.jobSet, jobSetNamespace |-> p.namespace]

Selected(p, key) == IF key \in DOMAIN p.nodeSelector THEN p.nodeSelector[key] ELSE None

ReservationForPod(p) ==
    IF ClusterContext.forceOnDemand \/ Selected(p, "reservation-name") = None
    THEN None
    ELSE <<Selected(p, "reservation-project"), Selected(p, "reservation-name")>>

PlacementForPod(accelerator, topology, machineType, nodeCount) ==
    CASE accelerator = "tpu7x" -> PlacementByPolicy(TopologyPolicy(topology))
      [] accelerator # "tpu7x" /\ SingleHost(machineType, nodeCount) -> NoPlacement
      [] OTHER -> PlacementByTopology(topology)

nodePoolForPod(p) ==
    LET topology    == Selected(p, "tpu-topology")
        accelerator == Selected(p, "tpu-accelerator")
        tpuRequest  == sumTPURequests(p.tpuRequests)
        nodeCount   == tpuTopologyToNodeCount(accelerator, topology)
        machineType == tpuMachineType(accelerator, tpuRequest)
        networks    == parseAdditionalNodeNetworks(
                           IF p.networks = <<>> THEN ClusterContext.networks ELSE p.networks)
    IN  IF \/ p.owner = None \/ p.jobSet = None \/ topology = None \/ accelerator = None
           \/ tpuRequest = None \/ nodeCount = None \/ machineType = None
           \/ networks = None \/ podToNodePoolName(p) = None
        THEN None
        ELSE [name        |-> podToNodePoolName(p),
              machineType |-> machineType,
              nodeCount   |-> nodeCount,
              reservation |-> ReservationForPod(p),
              spot        |-> ~ClusterContext.forceOnDemand /\ Selected(p, "gke-spot") = "true",
              labels      |-> NodeLabelsForPod(p),
              placement   |-> PlacementForPod(accelerator, topology, machineType, nodeCount),
              shielded    |-> [integrity |-> TRUE, secureBoot |-> ClusterContext.secureBoot],
              autoRepair  |-> TRUE,
              maxPods     |-> ClusterContext.maxPods,
              networks    |-> networks,
              serviceAccount |-> OrDefault(p.serviceAccount, ClusterContext.serviceAccount)]
=============================================================================
