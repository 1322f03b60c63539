---------------------------- MODULE MCAlertsEnd ----------------------------
(* Two instances of NewJobAlerts in one liveness run: the one the          *)
(* configuration names, in which the person turns alerts off and on, and   *)
(* one in which all the rest happens.  A behaviour stays in its case.      *)
EXTENDS MCNewJobAlerts

VARIABLE case

Rest == INSTANCE NewJobAlerts WITH
    Devices <- OneDevice, Modes <- BOOLEAN, Events <- {"devices", "matches", "profile"},
    Faults <- {"crash", "slow"}, MaxFaults <- 1, MaxTokens <- 2, MaxDays <- 2

MCInit ==
    \/ case = "settings" /\ Init
    \/ case = "rest" /\ Rest!Init

MCNext ==
    /\ UNCHANGED case
    /\ \/ case = "settings" /\ Next
       \/ case = "rest" /\ Rest!Next

(* An action of the case a behaviour is in. *)
Of(A, B) == (case = "settings" /\ A) \/ (case = "rest" /\ B)

MCFairness ==
    /\ \A y \in Runs : WF_vars(Of(Begin(y), Rest!Begin(y))) /\ WF_vars(Of(RunStep(y), Rest!RunStep(y)))
    /\ \A x \in Jobs : WF_vars(Of(Insert(x) \/ Revive(x), Rest!Insert(x) \/ Rest!Revive(x)))
    /\ WF_vars(Of(DropQueued \/ ReviveQueued \/ ReviveQueuedRows, FALSE))
    /\ WF_vars(Of(TenMinutes, Rest!TenMinutes))

MCSpec == MCInit /\ [][MCNext]_<<vars, case>> /\ MCFairness
=============================================================================
