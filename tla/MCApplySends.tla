---------------------------- MODULE MCApplySends ----------------------------
(* Instances of ApplySends for TLC. *)
EXTENDS ApplySends, TLC

CONSTANTS a, b, c, j

(* Two real sends race for one job. *)
RaceSends == {a, b}
RaceJobs == {j}
RaceJobOf == [s \in RaceSends |-> j]

(* One send by itself, for faults at every place. *)
OneSend == {a}
OneJobOf == [s \in OneSend |-> j]

(* Three sends of one job, c a dry run. *)
ThreeSends == {a, b, c}
ThreeJobOf == [s \in ThreeSends |-> j]

(* The two real sends are interchangeable. *)
Symmetric == Permutations(RaceSends)
=============================================================================
