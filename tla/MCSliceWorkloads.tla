-------------------------- MODULE MCSliceWorkloads --------------------------
(* An instance of SliceWorkloads for TLC.                                  *)
EXTENDS SliceWorkloads

CONSTANTS a, b, p, q

(* One Slice, on the partition that everybody wants.                       *)
MCOne == {[i \in {1} |-> <<p>>]}
=============================================================================
