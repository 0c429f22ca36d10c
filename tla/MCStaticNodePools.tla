------------------------- MODULE MCStaticNodePools -------------------------
(* Instances of StaticNodePools for TLC.                                   *)
EXTENDS StaticNodePools, TLC

CONSTANTS cm1, cm2, noCM

Parameters ==
    [machineType |-> "tpu7x-standard-4t", accelerator |-> "tpu7x", topology |-> <<4, 4, 4>>,
     nodeCount |-> 16, nodeLabels |-> <<>>, shieldedIntegrityMonitoring |-> None,
     shieldedSecureBoot |-> None, maxPodsPerNode |-> 0, enableAutoRepair |-> None,
     placementPolicy |-> None, recreateOnError |-> None]

GscBlock(name, subblocks, prefix) ==
    [reservation |-> "r", name |-> name, subblocks |-> subblocks, nodepoolPrefix |-> prefix]

(* A pool; and the same pool on a subblock of another block, with its old  *)
(* subblock left to a pool named after it.                                 *)
MCContentOf ==
    cm1 :> [nodepoolConfig |-> Parameters, gscBlocks |-> {GscBlock("b1", <<1>>, "p")}]
    @@ cm2 :> [nodepoolConfig |-> Parameters,
               gscBlocks |-> {GscBlock("b2", <<1, 1>>, "p"), GscBlock("b1", <<1>>, None)}]
    @@ noCM :> None

MCNames == {<<"p", 1>>, <<"b1", "subblock", 1>>}

(* The pool both ask for.                                                  *)
MCShared == Desired(cm1) \cap Desired(cm2)

MCHashes == UNION {{AllHashes[cm][n] : n \in Desired(cm)} : cm \in ValidConfigMaps}

MCInitialLabels == {[NoLabels EXCEPT !.hash = h, !.static = TRUE] : h \in MCHashes}

MCClusterContext == [maxPods |-> 16, secureBoot |-> FALSE, networks |-> <<>>, serviceAccount |-> "sa"]

-----------------------------------------------------------------------------
(* The parameters, and each of them changed.                               *)
ChangedParameters ==
    {Parameters,
     [Parameters EXCEPT !.machineType = "ct5p-hightpu-4t"],
     [Parameters EXCEPT !.accelerator = "tpu-v5p-slice"],
     [Parameters EXCEPT !.topology = <<2, 2, 4>>],
     [Parameters EXCEPT !.nodeCount = 4],
     [Parameters EXCEPT !.maxPodsPerNode = 16],
     [Parameters EXCEPT !.maxPodsPerNode = 32],
     [Parameters EXCEPT !.nodeLabels = [team |-> "a"]],
     [Parameters EXCEPT !.nodeLabels = [team |-> "b"]],
     [Parameters EXCEPT !.shieldedIntegrityMonitoring = TRUE],
     [Parameters EXCEPT !.shieldedIntegrityMonitoring = FALSE],
     [Parameters EXCEPT !.shieldedSecureBoot = TRUE],
     [Parameters EXCEPT !.enableAutoRepair = FALSE],
     [Parameters EXCEPT !.placementPolicy = <<"own">>],
     [Parameters EXCEPT !.recreateOnError = TRUE]}

(* The hash of a static pool tells every change of a parameter, but for    *)
(* auto-repair (gke.go:1034), which is applied to no pool that is there;   *)
(* and nothing else: writing out a default does not recreate a pool.       *)
ASSUME HashTellsParameters ==
    \A x, y \in ChangedParameters :
        LET np == Specs!StaticNodePoolForSubBlock("n", <<"r", "b1", 1>>, x)
            other == Specs!StaticNodePoolForSubBlock("n", <<"r", "b1", 1>>, y)
        IN  Specs!nodePoolHash(np) = Specs!nodePoolHash(other)
                <=> [np EXCEPT !.autoRepair = other.autoRepair] = other
=============================================================================
