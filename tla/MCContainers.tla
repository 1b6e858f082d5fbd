---------------------------- MODULE MCContainers ----------------------------
(* Instances of Containers. *)
EXTENDS Containers, TLC

Symmetry == Permutations(Items) \cup Permutations(Keepers)
=============================================================================
