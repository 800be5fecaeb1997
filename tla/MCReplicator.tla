---------------------------- MODULE MCReplicator ----------------------------
(* Symmetric pods for the runs of Replicator.                               *)
EXTENDS Replicator, TLC

Symmetry == Permutations(Pods)
=============================================================================
