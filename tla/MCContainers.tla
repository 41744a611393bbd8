---------------------------- MODULE MCContainers ----------------------------
(* The tree and the heap with small pools. *)
EXTENDS Containers, TLC

\* The values are only stored and handed back; all properties are of safety.
ValueSymmetry == Permutations(Values)

=============================================================================
