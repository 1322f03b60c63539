------------------------ MODULE MCApplicationStages ------------------------
(* Instances of ApplicationStages for TLC. *)
EXTENDS ApplicationStages, TLC

CONSTANTS job1, job2, invite, rejection, call1, call2

Symmetry == Permutations({call1, call2})

MCTracked == <<job1, job2>>
MCReports == [e \in {invite, rejection} |-> IF e = invite THEN "interview" ELSE "rejected"]
============================================================================
