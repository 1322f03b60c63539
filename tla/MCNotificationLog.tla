------------------------- MODULE MCNotificationLog -------------------------
(* The notification log for TLC, in three cases: two rows that go as one   *)
(* push, under ticks that overlap, die and outlive their claims; the same  *)
(* with a third row by itself, one tick at a time; and three rows by       *)
(* themselves under the day's limit, one tick at a time and with no fault. *)
(* A behaviour stays in its case.                                          *)
EXTENDS NotificationLog, TLC

CONSTANTS a, b, c, d, e, closing, deadline, followup, t, u

MCKinds == {closing, deadline, followup}

(* Two saved jobs closed, two deadlines and a follow-up.                   *)
MCKindOf == (a :> closing) @@ (b :> closing) @@ (c :> deadline) @@ (d :> deadline) @@ (e :> followup)

VARIABLE case

Rows == [pair |-> {a, b}, mixed |-> {a, b, e}, cap |-> {c, d, e}]

Last == [pair |-> 4, mixed |-> 5, cap |-> 7]

OneAtATime == \A v, w \in Ticks : "off" \in {tick[v], tick[w]} \/ v = w

MCInit == Init /\ case \in DOMAIN Rows

MCNext ==
    /\ Next /\ UNCHANGED case
    /\ \A n \in Notes \ Rows[case] : UNCHANGED status[n]
    /\ now' <= Last[case]
    /\ case # "pair" => OneAtATime' /\ stray' = {} /\ faults' = 0
    /\ case # "mixed" => UNCHANGED enabled

MCSpec == MCInit /\ [][MCNext]_<<vars, case>>

MCSymmetry == Permutations({a, b}) \cup Permutations({c, d}) \cup Permutations({t, u})
=============================================================================
