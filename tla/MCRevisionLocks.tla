--------------------------- MODULE MCRevisionLocks ---------------------------
(* Instances of RevisionLocks for TLC; the sets are interchangeable.       *)
EXTENDS RevisionLocks, TLC

Symmetry == Permutations(Revisions) \cup Permutations(Children)
              \cup Permutations(Operators) \cup Permutations(Deployments)
=============================================================================
