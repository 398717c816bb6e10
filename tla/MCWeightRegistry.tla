-------------------------- MODULE MCWeightRegistry --------------------------
(* Three versions, two interchangeable replicas; a trainer that restarts   *)
(* from the same parent publishes the same version id with other contents. *)
EXTENDS WeightRegistry, TLC

Symmetry == Permutations(Workers) \cup Permutations(Checksums)
=============================================================================
