-------------------------- MODULE MCSourcePolling --------------------------
(* Instances of SourcePolling for TLC. *)
EXTENDS SourcePolling, TLC

CONSTANTS a, b, p, q, c1, c2

Symmetry == Permutations({a, b}) \cup Permutations({p, q})
=============================================================================
