--------------------------- MODULE MCFeedMatching ---------------------------
(* Instances of FeedMatching for TLC. *)
EXTENDS FeedMatching, TLC

CONSTANTS a, b, c, d, e, f, p, q, r, s

(* Bounds: a job is hidden only in behaviours without a save or a death;   *)
(* those with a save have two moments, and those with two saves also two   *)
(* jobs and one run at a time.                                             *)
Bounds ==
    /\ hides > 0 => faults = 0 /\ saves = 0
    /\ saves > 0 => now <= 2
    /\ saves > 1 =>
        /\ Cardinality({j \in Jobs : seen[j] # 0}) <= 2
        /\ Cardinality({x \in Runs : Running(x)}) <= 1

Symmetry == Permutations({a, b, c}) \cup Permutations({r, s}) \cup Permutations({e, f})
=============================================================================
