-------------------------- MODULE MCArtifactStore --------------------------
(* ArtifactStore on small instances.                                        *)
EXTENDS ArtifactStore, TLC

Symmetry == Permutations(Repos) \cup Permutations(Paths)
            \cup Permutations(Digests) \cup Permutations(Writers)
============================================================================
