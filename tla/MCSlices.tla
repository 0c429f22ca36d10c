------------------------------ MODULE MCSlices ------------------------------
(* Instances of Slices for TLC.                                            *)
EXTENDS Slices, TLC

CONSTANTS a, b, p, q

(* One Slice on one partition.                                             *)
MCOne == {[i \in {1} |-> <<p>>]}

(* A selection that is changed.                                            *)
MCTwo == {[i \in {1} |-> <<p>>], [i \in {1} |-> <<q>>]}

(* The same, and a selection that does not parse.                          *)
MCTwoOrNone == MCTwo \cup {None}

(* Nothing but its name tells one partition from the other.                *)
MCSymmetry == Permutations({p, q})
=============================================================================
