---------------------------- MODULE MCAlertCases ----------------------------
(* Three instances of NewJobAlerts in one run: the one the configuration   *)
(* names, two devices that come and go, and two of a single device on      *)
(* which everything fails.  A behaviour stays in its case.                 *)
EXTENDS MCNewJobAlerts

VARIABLE case

(* One day, with jobs that come back and preferences that change. *)
Busy == INSTANCE NewJobAlerts WITH
    Devices <- OneDevice, Modes <- BOOLEAN, Events <- {"matches", "profile"},
    Faults <- {"crash", "slow", "answer"}, MaxFaults <- 1, MaxTokens <- 1, MaxDays <- 1

(* Two days of digests. *)
Days == INSTANCE NewJobAlerts WITH
    Devices <- OneDevice, Modes <- BOOLEAN, Events <- {"matches"},
    Faults <- {"crash", "slow", "answer"}, MaxFaults <- 1, MaxTokens <- 1, MaxDays <- 2

MCInit ==
    \/ case = "devices" /\ Init
    \/ case = "busy" /\ Busy!Init
    \/ case = "days" /\ Days!Init

MCNext ==
    /\ UNCHANGED case
    /\ \/ case = "devices" /\ Next
       \/ case = "busy" /\ Busy!Next
       \/ case = "days" /\ Days!Next

MCSpec == MCInit /\ [][MCNext]_<<vars, case>>
=============================================================================
