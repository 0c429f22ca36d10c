--------------------------- MODULE MCGKEProvider ---------------------------
(* The provider alone, called by any thread with any request.              *)
EXTENDS GKERefinement

CONSTANTS h1, h2, j1

(* A pool of this release and a pool of a release that wrote no hash.      *)
MCInitialLabels == {[hash |-> h1, jobset |-> j1, legacyID |-> None, static |-> FALSE],
                    [hash |-> None, jobset |-> None, legacyID |-> j1, static |-> FALSE]}
=============================================================================
