--------------------------- MODULE MCNewJobAlerts ---------------------------
(* Instances of NewJobAlerts for TLC. *)
EXTENDS NewJobAlerts, TLC

CONSTANTS j, k, phone, pad, q, r

OneJob == {j}
OneDevice == {phone}
TwoDevices == {phone, pad}
OneRun == {q}
TwoRuns == {q, r}

RunSymmetry == Permutations({q, r}) \cup Permutations({phone, pad})
=============================================================================
