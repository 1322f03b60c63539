---------------------------- MODULE MCApplyAsks ----------------------------
(* Instances of ApplyAsks for TLC. *)
EXTENDS ApplyAsks, TLC

CONSTANTS a, b, c, r, s

Symmetry == Permutations({a, b, c}) \cup Permutations({r, s})
=============================================================================
