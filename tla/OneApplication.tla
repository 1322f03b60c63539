--------------------------- MODULE OneApplication ---------------------------
(***************************************************************************)
(* What auto-apply promises about a job, whatever happens on the way: one  *)
(* send at a time has the job, the employer gets the application at most   *)
(* once and only from that send, and once a send is over (sent, or maybe   *)
(* sent) nothing more reaches the employer.                                *)
(***************************************************************************)
EXTENDS Naturals

CONSTANTS Sends, Jobs, NoSend

VARIABLES
    turn,      \* turn[j]: the send that has job j, or NoSend
    over,      \* over[j]: the job is sent, or may have been
    received   \* received[j]: what reached the employer, <<send, how often>>

vars == <<turn, over, received>>

Init ==
    /\ turn = [j \in Jobs |-> NoSend]
    /\ over = [j \in Jobs |-> FALSE]
    /\ received = [j \in Jobs |-> {}]

Begin(j, s) ==
    /\ turn[j] = NoSend
    /\ turn' = [turn EXCEPT ![j] = s]
    /\ UNCHANGED <<over, received>>

GiveUp(j) ==
    /\ turn[j] # NoSend /\ ~over[j] /\ received[j] = {}
    /\ turn' = [turn EXCEPT ![j] = NoSend]
    /\ UNCHANGED <<over, received>>

Deliver(j) ==
    /\ turn[j] # NoSend /\ ~over[j] /\ received[j] = {}
    /\ received' = [received EXCEPT ![j] = {<<turn[j], 1>>}]
    /\ UNCHANGED <<turn, over>>

End(j) ==
    /\ turn[j] # NoSend /\ ~over[j]
    /\ over' = [over EXCEPT ![j] = TRUE]
    /\ UNCHANGED <<turn, received>>

Next == \E j \in Jobs :
    \/ \E s \in Sends : Begin(j, s)
    \/ GiveUp(j) \/ Deliver(j) \/ End(j)

Spec == Init /\ [][Next]_vars
=============================================================================
