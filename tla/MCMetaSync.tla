----------------------------- MODULE MCMetaSync -----------------------------
(* Symmetric pods and writes for the safety runs of MetaSync.               *)
EXTENDS MetaSync, TLC

Symmetry == Permutations(Pods) \cup Permutations(Writes)
=============================================================================
