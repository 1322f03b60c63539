------------------------- MODULE ApplySends_proofs -------------------------
(***************************************************************************)
(* Proofs about ApplySends, for every set of sends and jobs, every fault   *)
(* and any number of them.                                                 *)
(***************************************************************************)
EXTENDS ApplySends, TLAPS

-----------------------------------------------------------------------------
(* Facts about the helpers of the specification.                           *)

(* Moving a Workflow on leaves every Workflow at a place of the model. *)
LEMMA GotoType ==
    ASSUME at \in [Sends -> Places], NEW s \in Sends, NEW from, NEW to \in Places,
           Goto(s, from, to)
    PROVE  at' \in [Sends -> Places]
BY DEF Goto

(* A reservation is given back or stays as it is. *)
LEMMA LedgerType ==
    ASSUME ledger \in [Sends -> {"none", "held", "released"}], NEW s \in Sends,
           NEW x \in {"none", "held", "released"}, ledger' = [ledger EXCEPT ![s] = x]
    PROVE  ledger' \in [Sends -> {"none", "held", "released"}]
OBVIOUS

(* Leaving a page closes at most one session this code knows of. *)
LEMMA ClosingType ==
    ASSUME closed \subseteq Sessions, NEW b \in Sessions \cup {NoSession}
    PROVE  Closing(b) \subseteq Sessions
BY DEF Closing

(* A failed attempt leads to another attempt or to failSend. *)
LEMMA RetryType ==
    ASSUME TypeOK, NEW s \in Sends, Retry(s)
    PROVE  /\ at' \in [Sends -> Places]
           /\ tries' \in [Sends -> 0 .. RunRetries]
<1>1. at \in [Sends -> Places] /\ tries \in [Sends -> 0 .. RunRetries]
  BY DEF TypeOK
<1>. QED  BY <1>1 DEF Retry, Places, RunRetries

(* The ghost that counts deliveries stays a count. *)
LEMMA DeliveredType ==
    ASSUME sent \in [Sends -> Nat], NEW s \in Sends, NEW n \in Nat, Delivered(s, n)
    PROVE  sent' \in [Sends -> Nat]
BY DEF Delivered

(* The row, the session to keep and the page after EndAs are well typed. *)
LEMMA EndAsType ==
    ASSUME TypeOK, NEW s \in Sends, NEW from, NEW st \in FINISHED,
           NEW kept \in Sessions \cup {NoSession}, EndAs(s, from, st, kept)
    PROVE  /\ at' \in [Sends -> Places]
           /\ end' \in [Sends -> FINISHED]
           /\ keep' \in [Sends -> Sessions \cup {NoSession}]
           /\ page' \in [Sends -> Sessions \cup {NoSession}]
           /\ closed' \subseteq Sessions
<1>1. at' \in [Sends -> Places]
  BY DEF TypeOK, EndAs, Goto, Places
<1>2. Closing(page[s]) \subseteq Sessions
  BY ClosingType DEF TypeOK
<1>3. closed' \subseteq Sessions
  BY <1>2 DEF TypeOK, EndAs
<1>. QED  BY <1>1, <1>3 DEF TypeOK, EndAs

(* What recordSubmit leaves is well typed, whatever the page said. *)
LEMMA RecordSubmitType ==
    ASSUME TypeOK, NEW s \in Sends, NEW from, RecordSubmit(s, from)
    PROVE  /\ at' \in [Sends -> Places]
           /\ end' \in [Sends -> FINISHED]
           /\ keep' \in [Sends -> Sessions \cup {NoSession}]
           /\ page' \in [Sends -> Sessions \cup {NoSession}]
           /\ closed' \subseteq Sessions
           /\ sent' \in [Sends -> Nat]
<1>1. CASE EndAs(s, from, "submitted", NoSession) /\ Delivered(s, 1)
  <2>1. sent' \in [Sends -> Nat]
    BY <1>1, DeliveredType DEF TypeOK
  <2>. QED  BY <1>1, <2>1, EndAsType DEF FINISHED, SENT
<1>2. CASE \E n \in {0, 1} : EndAs(s, from, "unconfirmed", NoSession) /\ Delivered(s, n)
  <2>1. sent' \in [Sends -> Nat]
    BY <1>2, DeliveredType DEF TypeOK
  <2>. QED  BY <1>2, <2>1, EndAsType DEF FINISHED, SENT
<1>3. CASE \E st \in {"blocked", "needs_you", "failed"} :
             EndAs(s, from, st, NoSession) /\ UNCHANGED sent
  BY <1>3, EndAsType DEF FINISHED, SENT, TypeOK
<1>. QED  BY <1>1, <1>2, <1>3 DEF RecordSubmit

-----------------------------------------------------------------------------
(* Every variable keeps its type.                                          *)
LEMMA TypeInit == Init => TypeOK
BY SendsAssumption DEF Init, TypeOK, ReqStates, Places, FINISHED, SENT, RunRetries

LEMMA TypeNext == TypeOK /\ [Next]_vars => TypeOK'
<1>. SUFFICES ASSUME TypeOK, [Next]_vars PROVE TypeOK'
  OBVIOUS
<1>. USE DEF rows, books, request, flow, codes, history
<1>1. ASSUME NEW s \in Sends, Check(s) PROVE TypeOK'
  BY <1>1 DEF TypeOK, Check, Turn, ReqStates
<1>2. ASSUME NEW s \in Sends, Reserve(s) PROVE TypeOK'
  BY <1>2 DEF TypeOK, Reserve, Turn, ReqStates
<1>3. ASSUME NEW s \in Sends, FindKept(s) PROVE TypeOK'
  <2>1. req' \in [Sends -> ReqStates]
    BY <1>3 DEF TypeOK, FindKept, Turn, ReqStates
  <2>2. cand' \in [Sends -> Sends \cup {NoSend}]
    <3>1. cand \in [Sends -> Sends \cup {NoSend}]
      BY DEF TypeOK
    <3>. QED  BY <1>3, <3>1 DEF FindKept, Kept
  <2>3. took' \in [Sends -> Sessions \cup {NoSession}]
    <3>1. /\ took \in [Sends -> Sessions \cup {NoSession}]
          /\ session \in [Sends -> Sessions \cup {NoSession}]
      BY DEF TypeOK
    <3>. QED  BY <1>3, <3>1 DEF FindKept, Kept
  <2>. QED  BY <1>3, <2>1, <2>2, <2>3 DEF TypeOK, FindKept
<1>4. ASSUME NEW s \in Sends, TakeOver(s) PROVE TypeOK'
  BY <1>4 DEF TypeOK, TakeOver, Turn, ReqStates
<1>5. ASSUME NEW s \in Sends, Insert(s) PROVE TypeOK'
  <2>1. req' \in [Sends -> ReqStates]
    BY <1>5 DEF TypeOK, Insert, Turn, ReqStates
  <2>2. /\ status' \in [Sends -> Statuses \cup {"none"}]
        /\ session' \in [Sends -> Sessions \cup {NoSession}]
        /\ took' \in [Sends -> Sessions \cup {NoSession}]
    <3>1. CASE UNCHANGED rows
      BY <1>5, <3>1 DEF TypeOK, Insert
    <3>2. CASE /\ status' = [status EXCEPT ![s] = "queued"]
               /\ session' = [session EXCEPT ![s] = took[s]]
      BY <1>5, <3>2 DEF TypeOK, Insert, Statuses, Going
    <3>. QED  BY <1>5, <3>1, <3>2 DEF Insert
  <2>. QED  BY <1>5, <2>1, <2>2 DEF TypeOK, Insert
<1>6. ASSUME NEW s \in Sends, Create(s) PROVE TypeOK'
  BY <1>6 DEF TypeOK, Create, Turn, Goto, ReqStates, Places
<1>7. ASSUME NEW s \in Sends, CreateFails(s) PROVE TypeOK'
  BY <1>7 DEF TypeOK, CreateFails, Turn, ReqStates
<1>8. ASSUME NEW s \in Sends, Unstarted(s) PROVE TypeOK'
  BY <1>8 DEF TypeOK, Unstarted, Turn, ReqStates, Statuses, FINISHED
<1>9. ASSUME NEW s \in Sends, Refund(s) PROVE TypeOK'
  BY <1>9 DEF TypeOK, Refund, Turn, ReqStates
<1>10. ASSUME NEW s \in Sends, Record(s) PROVE TypeOK'
  BY <1>10 DEF TypeOK, Record, Turn, ReqStates
<1>11. ASSUME NEW s \in Sends, RequestDies(s) PROVE TypeOK'
  <2>1. /\ req' \in [Sends -> ReqStates]
        /\ took' \in [Sends -> Sessions \cup {NoSession}]
    BY <1>11 DEF TypeOK, RequestDies, ReqStates
  <2>2. ledger' \in [Sends -> {"none", "held", "released"}] /\ orphans' \in Nat
    <3>1. CASE ledger' = [ledger EXCEPT ![s] = "none"] /\ orphans' = orphans + 1
      BY <3>1, LedgerType DEF TypeOK
    <3>2. CASE UNCHANGED <<ledger, orphans>>
      BY <3>2 DEF TypeOK
    <3>. QED  BY <1>11, <3>1, <3>2 DEF RequestDies
  <2>3. faults' \in 0 .. MaxFaults
    BY <1>11, SendsAssumption DEF TypeOK, RequestDies
  <2>. QED  BY <1>11, <2>1, <2>2, <2>3 DEF TypeOK, RequestDies
<1>12. ASSUME NEW s \in Sends, Load(s) PROVE TypeOK'
  <2>1. CASE EndAs(s, "run", "unconfirmed", NoSession)
    BY <1>12, <2>1, EndAsType DEF TypeOK, Load, FINISHED, SENT
  <2>2. CASE ~EndAs(s, "run", "unconfirmed", NoSession)
    BY <1>12, <2>2 DEF TypeOK, Load, Goto, Places
  <2>. QED  BY <2>1, <2>2
<1>13. ASSUME NEW s \in Sends, Claim(s) PROVE TypeOK'
  <2>1. /\ at' \in [Sends -> Places]
        /\ tries' \in [Sends -> 0 .. RunRetries]
    BY <1>13, RetryType DEF TypeOK, Claim, Places
  <2>2. status' \in [Sends -> Statuses \cup {"none"}]
    BY <1>13 DEF TypeOK, Claim, Statuses, Going
  <2>. QED  BY <1>13, <2>1, <2>2 DEF TypeOK, Claim
<1>14. ASSUME NEW s \in Sends, Open(s) PROVE TypeOK'
  <2>1. CASE EndAs(s, "open", "needs_you", NoSession)
    BY <1>14, <2>1, EndAsType DEF TypeOK, Open, FINISHED
  <2>2. CASE ~EndAs(s, "open", "needs_you", NoSession)
    <3>1. <<s, tries[s]>> \in Sessions
      BY DEF Sessions, TypeOK
    <3>4. /\ page \in [Sends -> Sessions \cup {NoSession}]
          /\ session \in [Sends -> Sessions \cup {NoSession}]
      BY DEF TypeOK
    <3>2. page' \in [Sends -> Sessions \cup {NoSession}]
      BY <1>14, <2>2, <3>1, <3>4 DEF Open
    <3>3. at' \in [Sends -> Places]
      BY <1>14, <2>2, GotoType DEF TypeOK, Open, Places
    <3>. QED  BY <1>14, <2>2, <3>2, <3>3 DEF TypeOK, Open
  <2>. QED  BY <2>1, <2>2
<1>15. ASSUME NEW s \in Sends, Fill(s) PROVE TypeOK'
  <2>1. ASSUME NEW st \in FINISHED, NEW kept \in Sessions \cup {NoSession},
               EndAs(s, "fill", st, kept)
        PROVE  TypeOK'
    BY <1>15, <2>1, EndAsType DEF TypeOK, Fill
  <2>2. CASE Goto(s, "fill", "mark") /\ UNCHANGED <<end, keep, page, closed>>
    BY <1>15, <2>2 DEF TypeOK, Fill, Goto, Places
  <2>3. page[s] \in Sessions \cup {NoSession}
    BY DEF TypeOK
  <2>. QED  BY <1>15, <2>1, <2>2, <2>3 DEF Fill, FINISHED
<1>16. ASSUME NEW s \in Sends, Mark(s) PROVE TypeOK'
  BY <1>16 DEF TypeOK, Mark, Goto, Places, Statuses, Going
<1>17. ASSUME NEW s \in Sends, Press(s) PROVE TypeOK'
  <2>1. CASE RecordSubmit(s, "press")
    BY <1>17, <2>1, RecordSubmitType DEF TypeOK, Press
  <2>2. CASE Goto(s, "press", "note") /\ UNCHANGED <<end, keep, page, closed, sent>>
    BY <1>17, <2>2 DEF TypeOK, Press, Goto, Places
  <2>. QED  BY <1>17, <2>1, <2>2 DEF Press
<1>18. ASSUME NEW s \in Sends, Note(s) PROVE TypeOK'
  BY <1>18 DEF TypeOK, Note, Goto, Places, Statuses, Going
<1>19. ASSUME NEW s \in Sends, Noted(s) PROVE TypeOK'
  BY <1>19 DEF TypeOK, Noted, Goto, Places
<1>20. ASSUME NEW s \in Sends, Finish(s) PROVE TypeOK'
  BY <1>20 DEF TypeOK, Finish, Goto, Places, Statuses
<1>21. ASSUME NEW s \in Sends, Settle(s) PROVE TypeOK'
  <2>1. at' \in [Sends -> Places]
    BY <1>21 DEF TypeOK, Settle, Goto, AfterFinish, Places
  <2>2. ledger' \in [Sends -> {"none", "held", "released"}] /\ tracked' \subseteq Jobs
    <3>1. ledger' \in [Sends -> {"none", "held", "released"}]
      <4>. DEFINE x == IF Releases(end[s]) /\ ledger[s] = "held" THEN "released" ELSE ledger[s]
      <4>1. x \in {"none", "held", "released"}
        BY DEF TypeOK
      <4>2. ledger' = [ledger EXCEPT ![s] = x]
        BY <1>21 DEF Settle
      <4>. HIDE DEF x
      <4>. QED  BY <4>1, <4>2, LedgerType DEF TypeOK
    <3>2. tracked' \subseteq Jobs
      <4>1. JobOf[s] \in Jobs /\ tracked \subseteq Jobs
        BY SendsAssumption DEF TypeOK
      <4>. QED  BY <1>21, <4>1 DEF Settle
    <3>. QED  BY <3>1, <3>2
  <2>. QED  BY <1>21, <2>1, <2>2 DEF TypeOK, Settle
<1>22. ASSUME NEW s \in Sends, Wake(s) PROVE TypeOK'
  BY <1>22 DEF TypeOK, Wake, Goto, Places
<1>23. ASSUME NEW s \in Sends, LetGo(s) PROVE TypeOK'
  BY <1>23 DEF TypeOK, LetGo, Goto, Places
<1>24. ASSUME NEW s \in Sends, Drop(s) PROVE TypeOK'
  <2>1. Closing(keep[s]) \subseteq Sessions
    BY ClosingType DEF TypeOK
  <2>. QED  BY <1>24, <2>1 DEF TypeOK, Drop, Goto, Places
<1>25. ASSUME NEW s \in Sends, EmailCode(s) \/ TypeCode(s) PROVE TypeOK'
  <2>1. PICK to \in Sends : DeliverCode(s, to)
    BY <1>25 DEF EmailCode, TypeCode, DeliverCode, Waiting
  <2>. QED  BY <2>1 DEF TypeOK, DeliverCode
<1>26. ASSUME NEW s \in Sends, CodeComes(s) \/ CodeTimesOut(s) PROVE TypeOK'
  BY <1>26 DEF TypeOK, CodeComes, CodeTimesOut, Goto, Places
<1>27. ASSUME NEW s \in Sends, Enter(s) PROVE TypeOK'
  BY <1>27 DEF TypeOK, Enter, Goto, Places
<1>28. ASSUME NEW s \in Sends, Retype(s) PROVE TypeOK'
  BY <1>28 DEF TypeOK, Retype, Goto, Places, Statuses, Going
<1>29. ASSUME NEW s \in Sends, TypeIn(s) PROVE TypeOK'
  <2>1. CASE RecordSubmit(s, "type")
    BY <1>29, <2>1, RecordSubmitType DEF TypeOK, TypeIn
  <2>2. CASE \E st \in {"blocked", "needs_you", "failed", "unconfirmed"} :
               EndAs(s, "type", st, NoSession) /\ UNCHANGED sent
    BY <1>29, <2>2, EndAsType DEF TypeOK, TypeIn, FINISHED, SENT
  <2>. QED  BY <1>29, <2>1, <2>2 DEF TypeIn
<1>30. ASSUME NEW s \in Sends, Expire(s) PROVE TypeOK'
  <2>1. Closing(session[s]) \subseteq Sessions
    BY ClosingType DEF TypeOK
  <2>2. at' \in [Sends -> Places]
    BY <1>30, GotoType DEF TypeOK, Expire, Places
  <2>3. /\ end' \in [Sends -> FINISHED]
        /\ keep' \in [Sends -> Sessions \cup {NoSession}]
        /\ closed' \subseteq Sessions
    <3>1. /\ end \in [Sends -> FINISHED] /\ closed \subseteq Sessions
          /\ keep \in [Sends -> Sessions \cup {NoSession}]
      BY DEF TypeOK
    <3>. QED  BY <1>30, <2>1, <3>1 DEF Expire, FINISHED
  <2>. QED  BY <1>30, <2>2, <2>3 DEF TypeOK, Expire
<1>31. ASSUME NEW s \in Sends, Fail(s) PROVE TypeOK'
  <2>1. ASSUME NEW st \in FINISHED, EndAs(s, "fail", st, NoSession)
        PROVE  TypeOK'
    <3>1. /\ at' \in [Sends -> Places]
          /\ end' \in [Sends -> FINISHED]
          /\ keep' \in [Sends -> Sessions \cup {NoSession}]
          /\ page' \in [Sends -> Sessions \cup {NoSession}]
          /\ closed' \subseteq Sessions
      BY <2>1, EndAsType
    <3>2. step' \in [Sends -> {"run", "enter", "expire", "fail"}]
      <4>1. step \in [Sends -> {"run", "enter", "expire", "fail"}]
        BY DEF TypeOK
      <4>. QED  BY <1>31, <4>1 DEF Fail
    <3>3. UNCHANGED <<rows, books, request, tries, codes, stopping, sent, faults, history>>
      BY <1>31 DEF Fail
    <3>. QED  BY <3>1, <3>2, <3>3 DEF TypeOK
  <2>2. CASE Goto(s, "fail", "end") /\ UNCHANGED <<end, keep, page, closed>>
    BY <1>31, <2>2 DEF TypeOK, Fail, Goto, Places
  <2>. QED  BY <1>31, <2>1, <2>2 DEF Fail, FINISHED, SENT
<1>32. ASSUME NEW s \in Sends, AttemptDies(s) PROVE TypeOK'
  <2>1. at' \in [Sends -> Places] /\ tries' \in [Sends -> 0 .. RunRetries]
    BY <1>32, RetryType DEF TypeOK, AttemptDies, Places
  <2>2. closed' \subseteq Sessions
    <3>1. Closing(page[s]) \subseteq Sessions
      BY ClosingType DEF TypeOK
    <3>. QED  BY <1>32, <3>1 DEF TypeOK, AttemptDies
  <2>3. sent' \in [Sends -> Nat]
    BY <1>32, DeliveredType DEF TypeOK, AttemptDies
  <2>4. faults' \in 0 .. MaxFaults
    BY <1>32, SendsAssumption DEF TypeOK, AttemptDies
  <2>5. page' \in [Sends -> Sessions \cup {NoSession}]
    BY <1>32 DEF TypeOK, AttemptDies
  <2>. QED  BY <1>32, <2>1, <2>2, <2>3, <2>4, <2>5 DEF TypeOK, AttemptDies
<1>33. ASSUME NEW s \in Sends, FinishDies(s) PROVE TypeOK'
  <2>1. at' \in [Sends -> Places] /\ tries' \in [Sends -> 0 .. RunRetries]
    BY <1>33, RetryType DEF TypeOK, FinishDies, Places
  <2>2. faults' \in 0 .. MaxFaults
    BY <1>33, SendsAssumption DEF TypeOK, FinishDies
  <2>. QED  BY <1>33, <2>1, <2>2 DEF TypeOK, FinishDies
<1>34. ASSUME NEW s \in Sends, Stop(s) PROVE TypeOK'
  <2>1. status' \in [Sends -> Statuses \cup {"none"}]
    BY <1>34 DEF TypeOK, Stop, Statuses, FINISHED
  <2>2. stopping' \in [Sends -> {"no", "read", "refund"}]
    BY <1>34 DEF TypeOK, Stop
  <2>3. stopped' \subseteq Sends
    BY <1>34 DEF TypeOK, Stop
  <2>. QED  BY <1>34, <2>1, <2>2, <2>3 DEF TypeOK, Stop
<1>35. ASSUME NEW s \in Sends, GiveBack(s) PROVE TypeOK'
  BY <1>35 DEF TypeOK, GiveBack
<1>36. ASSUME Pause PROVE TypeOK'
  BY <1>36 DEF TypeOK, Pause
<1>37. CASE UNCHANGED vars
  BY <1>37 DEF TypeOK, vars
<1>. QED
  BY <1>1, <1>2, <1>3, <1>4, <1>5, <1>6, <1>7, <1>8, <1>9, <1>10, <1>11,
     <1>12, <1>13, <1>14, <1>15, <1>16, <1>17, <1>18, <1>19, <1>20, <1>21,
     <1>22, <1>23, <1>24, <1>25, <1>26, <1>27, <1>28, <1>29, <1>30, <1>31,
     <1>32, <1>33, <1>34, <1>35, <1>36, <1>37
     DEF Next, Request, Workflow

(* Every variable of the model, and so every column of the table it stands *)
(* for, only ever holds a value of its type.                               *)
THEOREM TypeCorrect == Spec => []TypeOK
BY TypeInit, TypeNext, PTL DEF Spec

-----------------------------------------------------------------------------
(* The inductive invariant holds at first and every step keeps it.         *)
LEMMA InvInit == Init => IInv
<1>1. Init => OneGoing /\ OnlyRealGoOut /\ RequestInv /\ WorkflowInv
  BY SendsAssumption DEF Init, OneGoing, OnlyRealGoOut, RequestInv, WorkflowInv, Going, SENT
<1>. QED  BY <1>1, TypeInit DEF IInv

(* The parts of IInv beside the types. *)
Parts == OneGoing /\ OnlyRealGoOut /\ RequestInv /\ WorkflowInv

LEMMA InvNext == IInv /\ [Next]_vars => IInv'
<1>. SUFFICES ASSUME IInv, [Next]_vars PROVE IInv'
  OBVIOUS
<1>1. TypeOK'
  BY TypeNext DEF IInv
<1>2. /\ status \in [Sends -> Statuses \cup {"none"}]
      /\ req \in [Sends -> ReqStates]
      /\ at \in [Sends -> Places]
      /\ end \in [Sends -> FINISHED]
      /\ sent \in [Sends -> Nat]
      /\ stopping \in [Sends -> {"no", "read", "refund"}]
      /\ step \in [Sends -> {"run", "enter", "expire", "fail"}]
      /\ Real \subseteq Sends
  BY SendsAssumption DEF IInv, TypeOK
<1>3. Parts
  BY DEF IInv, Parts
<1>. USE DEF rows, books, request, flow, codes, history
<1>. USE DEF Parts, OneGoing, OnlyRealGoOut, RequestInv, WorkflowInv, Statuses, FINISHED, Going, SENT
<1>10. ASSUME NEW s \in Sends, Check(s) PROVE Parts'
  BY <1>2, <1>3, <1>10 DEF Check, Turn
<1>11. ASSUME NEW s \in Sends, Reserve(s) PROVE Parts'
  BY <1>2, <1>3, <1>11 DEF Reserve, Turn
<1>12. ASSUME NEW s \in Sends, FindKept(s) PROVE Parts'
  BY <1>2, <1>3, <1>12 DEF FindKept, Turn
<1>13. ASSUME NEW s \in Sends, TakeOver(s) PROVE Parts'
  BY <1>2, <1>3, <1>13 DEF TakeOver, Turn
<1>14. ASSUME NEW s \in Sends, Insert(s) PROVE Parts'
  BY <1>2, <1>3, <1>14 DEF Insert, Turn, IndexAllows, Taken
<1>15. ASSUME NEW s \in Sends, Create(s) PROVE Parts'
  BY <1>2, <1>3, <1>15 DEF Create, Turn, Goto
<1>16. ASSUME NEW s \in Sends, CreateFails(s) PROVE Parts'
  BY <1>2, <1>3, <1>16 DEF CreateFails, Turn
<1>17. ASSUME NEW s \in Sends, Unstarted(s) PROVE Parts'
  BY <1>2, <1>3, <1>17 DEF Unstarted, Turn
<1>18. ASSUME NEW s \in Sends, Refund(s) PROVE Parts'
  BY <1>2, <1>3, <1>18 DEF Refund, Turn
<1>19. ASSUME NEW s \in Sends, Record(s) PROVE Parts'
  BY <1>2, <1>3, <1>19 DEF Record, Turn
<1>20. ASSUME NEW s \in Sends, RequestDies(s) PROVE Parts'
  BY <1>2, <1>3, <1>20 DEF RequestDies, ReqStates
<1>21. ASSUME NEW s \in Sends, Load(s) PROVE Parts'
  BY <1>2, <1>3, <1>21 DEF Load, EndAs, Goto
<1>22. ASSUME NEW s \in Sends, Claim(s) PROVE Parts'
  BY <1>2, <1>3, <1>22 DEF Claim, IndexAllows, Taken, Retry
<1>23. ASSUME NEW s \in Sends, Open(s) PROVE Parts'
  BY <1>2, <1>3, <1>23 DEF Open, EndAs, Goto
<1>24. ASSUME NEW s \in Sends, Fill(s) PROVE Parts'
  BY <1>2, <1>3, <1>24 DEF Fill, EndAs, Goto
<1>25. ASSUME NEW s \in Sends, Mark(s) PROVE Parts'
  BY <1>2, <1>3, <1>25 DEF Mark, Goto
<1>26. ASSUME NEW s \in Sends, Press(s) PROVE Parts'
  BY <1>2, <1>3, <1>26 DEF Press, RecordSubmit, EndAs, Goto, Delivered
<1>27. ASSUME NEW s \in Sends, Note(s) PROVE Parts'
  BY <1>2, <1>3, <1>27 DEF Note, Goto
<1>28. ASSUME NEW s \in Sends, Noted(s) PROVE Parts'
  BY <1>2, <1>3, <1>28 DEF Noted, Goto
<1>29. ASSUME NEW s \in Sends, Finish(s) PROVE Parts'
  BY <1>2, <1>3, <1>29 DEF Finish, Goto
<1>30. ASSUME NEW s \in Sends, Settle(s) PROVE Parts'
  BY <1>2, <1>3, <1>30 DEF Settle, Goto, AfterFinish
<1>31. ASSUME NEW s \in Sends, Wake(s) PROVE Parts'
  BY <1>2, <1>3, <1>31 DEF Wake, Goto
<1>32. ASSUME NEW s \in Sends, LetGo(s) PROVE Parts'
  BY <1>2, <1>3, <1>32 DEF LetGo, Goto
<1>33. ASSUME NEW s \in Sends, Drop(s) PROVE Parts'
  BY <1>2, <1>3, <1>33 DEF Drop, Goto
<1>34. ASSUME NEW s \in Sends, CodeComes(s) PROVE Parts'
  BY <1>2, <1>3, <1>34 DEF CodeComes, Goto
<1>35. ASSUME NEW s \in Sends, CodeTimesOut(s) PROVE Parts'
  BY <1>2, <1>3, <1>35 DEF CodeTimesOut, Goto
<1>36. ASSUME NEW s \in Sends, Enter(s) PROVE Parts'
  BY <1>2, <1>3, <1>36 DEF Enter, Goto
<1>37. ASSUME NEW s \in Sends, Retype(s) PROVE Parts'
  BY <1>2, <1>3, <1>37 DEF Retype, Goto
<1>38. ASSUME NEW s \in Sends, TypeIn(s) PROVE Parts'
  BY <1>2, <1>3, <1>38 DEF TypeIn, RecordSubmit, EndAs, Goto, Delivered
<1>39. ASSUME NEW s \in Sends, Expire(s) PROVE Parts'
  BY <1>2, <1>3, <1>39 DEF Expire, Goto
<1>40. ASSUME NEW s \in Sends, Fail(s) PROVE Parts'
  BY <1>2, <1>3, <1>40 DEF Fail, EndAs, Goto
<1>41. ASSUME NEW s \in Sends, AttemptDies(s) PROVE Parts'
  BY <1>2, <1>3, <1>41 DEF AttemptDies, Retry, Delivered
<1>42. ASSUME NEW s \in Sends, FinishDies(s) PROVE Parts'
  <2>1. PICK to \in {"run", "fail", "expire"} : at' = [at EXCEPT ![s] = to]
    BY <1>2, <1>42 DEF FinishDies, Retry
  <2>. QED  BY <1>2, <1>3, <1>42, <2>1 DEF FinishDies
<1>43. ASSUME NEW s \in Sends, Stop(s) PROVE Parts'
  BY <1>2, <1>3, <1>43 DEF Stop
<1>44. ASSUME NEW s \in Sends, GiveBack(s) PROVE Parts'
  BY <1>2, <1>3, <1>44 DEF GiveBack
<1>45. ASSUME NEW s \in Sends, EmailCode(s) \/ TypeCode(s) PROVE Parts'
  BY <1>2, <1>3, <1>45 DEF EmailCode, TypeCode, DeliverCode
<1>46. ASSUME Pause PROVE Parts'
  BY <1>2, <1>3, <1>46 DEF Pause, Stoppable
<1>47. ASSUME UNCHANGED vars PROVE Parts'
  <2>1. /\ status' = status /\ req' = req /\ at' = at
        /\ end' = end /\ sent' = sent /\ stopping' = stopping
    BY <1>47 DEF vars
  <2>. QED  BY <1>2, <1>3, <2>1
<1>. HIDE DEF Parts, OneGoing, OnlyRealGoOut, RequestInv, WorkflowInv
<1>50. ASSUME NEW s \in Sends, Request(s) PROVE Parts'
  BY <1>11, <1>12, <1>13, <1>14, <1>15, <1>16, <1>17, <1>18, <1>19, <1>50 DEF Request
<1>51. ASSUME NEW s \in Sends, Workflow(s) PROVE Parts'
  BY <1>21, <1>22, <1>23, <1>24, <1>25, <1>26, <1>27, <1>28, <1>29, <1>30,
     <1>31, <1>32, <1>33, <1>34, <1>35, <1>36, <1>37, <1>38, <1>39, <1>40, <1>51 DEF Workflow
<1>52. ASSUME Next PROVE Parts'
  BY <1>10, <1>50, <1>51, <1>20, <1>41, <1>42, <1>43, <1>44, <1>45, <1>46, <1>52 DEF Next
<1>53. Parts'
  BY <1>47, <1>52
<1>. QED  BY <1>1, <1>53 DEF IInv, Parts

(* The row, the request, the Workflow and what the employer has always fit *)
(* together: the invariant the promises below follow from.                 *)
THEOREM FitTogether == Spec => []IInv
BY InvInit, InvNext, PTL DEF Spec

(* Never the same job twice, through any number of retries, crashes, codes *)
(* and Pauses: an employer gets at most one application for a job.         *)
THEOREM NeverTwice == Spec => []SentOnce
<1>1. IInv => SentOnce
  BY DEF IInv, OneGoing, OnlyRealGoOut, SentOnce, Going, SENT
<1>. QED  BY InvInit, InvNext, <1>1, PTL DEF Spec

(* A send whose application the employer has is never recorded as stopped  *)
(* or failed.                                                              *)
THEOREM NotDenied == Spec => []SentIsNotDenied
<1>1. IInv => SentIsNotDenied
  BY DEF IInv, OnlyRealGoOut, SentIsNotDenied
<1>. QED  BY InvInit, InvNext, <1>1, PTL DEF Spec

-----------------------------------------------------------------------------
(* The refinement: what each step does to the table is a step of           *)
(* OneApplication, or changes nothing it speaks of.                        *)

(* The send that is going is alone, and only it went out. *)
LEMMA GoingAlone ==
    ASSUME IInv, NEW s \in Real, status[s] \in Going
    PROVE  /\ JobOf[s] \in Jobs
           /\ GoingFor(JobOf[s]) = {s}
           /\ TurnOf(JobOf[s]) = s
           /\ OverOf(JobOf[s]) <=> status[s] \in SENT
<1>1. JobOf[s] \in Jobs
  BY SendsAssumption
<1>2. GoingFor(JobOf[s]) = {s}
  BY DEF GoingFor, IInv, OneGoing
<1>3. TurnOf(JobOf[s]) = s
  BY <1>2 DEF TurnOf, OneOf
<1>4. OverOf(JobOf[s]) <=> status[s] \in SENT
  BY <1>2, Zenon DEF OverOf
<1> QED BY <1>1, <1>2, <1>3, <1>4

LEMMA ReceivedAlone ==
    ASSUME IInv, NEW s \in Real, status[s] \in Going, sent[s] = 0
    PROVE  ReceivedOf(JobOf[s]) = {}
<1>1. ASSUME NEW r \in Sends, JobOf[r] = JobOf[s]
      PROVE  sent[r] = 0
  <2>1. sent[r] \in Nat
    BY DEF IInv, TypeOK
  <2>2. sent[r] > 0 => r \in Real /\ status[r] \in Going
    BY DEF IInv, OnlyRealGoOut, Going, SENT
  <2> QED BY <1>1, <2>1, <2>2 DEF IInv, OneGoing
<1>2. ASSUME NEW r \in Sends, JobOf[r] = JobOf[s]
      PROVE  {<<r, n>> : n \in 1 .. sent[r]} = {}
  BY <1>1, <1>2
<1> QED BY <1>2 DEF ReceivedOf

LEMMA NoneGoing ==
    ASSUME NEW i \in Jobs, GoingFor(i) = {}
    PROVE  TurnOf(i) = NoSend /\ OverOf(i) = FALSE
BY DEF TurnOf, OverOf

(* A step that leaves a job's sends alone, as far as they are going, sent  *)
(* or delivered. *)
LEMMA JobStays ==
    ASSUME NEW i \in Jobs,
           \A t \in Sends : JobOf[t] = i => sent'[t] = sent[t],
           \A t \in Real : JobOf[t] = i => /\ status'[t] \in Going <=> status[t] \in Going
                                           /\ status'[t] \in SENT <=> status[t] \in SENT
    PROVE  TurnOf(i)' = TurnOf(i) /\ (OverOf(i)' <=> OverOf(i)) /\ ReceivedOf(i)' = ReceivedOf(i)
<1>1. GoingFor(i)' = GoingFor(i)
  BY DEF GoingFor
<1>2. TurnOf(i)' = TurnOf(i)
  BY <1>1 DEF TurnOf
<1>3. OverOf(i)' <=> OverOf(i)
  BY <1>1, Zenon DEF OverOf, GoingFor
<1>4. ReceivedOf(i)' = ReceivedOf(i)
  BY DEF ReceivedOf
<1> QED BY <1>2, <1>3, <1>4

OnlyJob(i) == \A k \in Jobs \ {i} :
    TurnOf(k)' = TurnOf(k) /\ (OverOf(k)' <=> OverOf(k)) /\ ReceivedOf(k)' = ReceivedOf(k)

LEMMA SendStep ==
    ASSUME NEW s \in Sends,
           \A t \in Sends \ {s} : status'[t] = status[t] /\ sent'[t] = sent[t]
    PROVE  OnlyJob(JobOf[s])
<1>1. ASSUME NEW k \in Jobs \ {JobOf[s]}
      PROVE  TurnOf(k)' = TurnOf(k) /\ (OverOf(k)' <=> OverOf(k)) /\ ReceivedOf(k)' = ReceivedOf(k)
  <2>1. \A t \in Sends : JobOf[t] = k => sent'[t] = sent[t] /\ status'[t] = status[t]
    BY <1>1
  <2>2. Real \subseteq Sends
    BY SendsAssumption
  <2> QED BY <2>1, <2>2, JobStays
<1> QED BY <1>1 DEF OnlyJob

LEMMA Stutters ==
    ASSUME NEW s \in Sends, OnlyJob(JobOf[s]),
           \A t \in Sends : sent'[t] = sent[t],
           \A t \in Sends \ {s} : status'[t] = status[t],
           \/ s \notin Real
           \/ /\ status'[s] \in Going <=> status[s] \in Going
              /\ status'[s] \in SENT <=> status[s] \in SENT
    PROVE  UNCHANGED <<Turns, Overs, Receiveds>>
<1>1. \A t \in Real : /\ status'[t] \in Going <=> status[t] \in Going
                      /\ status'[t] \in SENT <=> status[t] \in SENT
  BY SendsAssumption
<1>2. \A k \in Jobs : TurnOf(k)' = TurnOf(k) /\ (OverOf(k)' <=> OverOf(k)) /\ ReceivedOf(k)' = ReceivedOf(k)
  BY <1>1, JobStays
<1>3. Turns' = Turns /\ Receiveds' = Receiveds
  BY <1>2, Zenon DEF Turns, Receiveds
<1>4. Overs' = Overs
  BY <1>2 DEF Overs, OverOf
<1> QED BY <1>3, <1>4

LEMMA TurnsAt ==
    ASSUME NEW i \in Jobs, OnlyJob(i), NEW v, TurnOf(i)' = v
    PROVE  Turns' = [Turns EXCEPT ![i] = v]
BY DEF OnlyJob, Turns

LEMMA TurnsStay ==
    ASSUME NEW i \in Jobs, OnlyJob(i), TurnOf(i)' = TurnOf(i)
    PROVE  Turns' = Turns
BY DEF OnlyJob, Turns

LEMMA OversStay ==
    ASSUME NEW i \in Jobs, OnlyJob(i), OverOf(i)' <=> OverOf(i)
    PROVE  Overs' = Overs
BY DEF OnlyJob, Overs, OverOf

LEMMA ReceivedsAt ==
    ASSUME NEW i \in Jobs, OnlyJob(i)
    PROVE  /\ \A v : ReceivedOf(i)' = v => Receiveds' = [Receiveds EXCEPT ![i] = v]
           /\ ReceivedOf(i)' = ReceivedOf(i) => Receiveds' = Receiveds
BY DEF OnlyJob, Receiveds

LEMMA Begins ==
    ASSUME IInv, IInv', NEW s \in Real, OnlyJob(JobOf[s]),
           \A t \in Sends : sent'[t] = sent[t],
           \A t \in Sends \ {s} : status'[t] = status[t],
           status[s] \notin Going, status'[s] \in Going \ SENT
    PROVE  Once!Begin(JobOf[s], s)
<1>1. /\ JobOf[s] \in Jobs
      /\ TurnOf(JobOf[s])' = s /\ ~OverOf(JobOf[s])'
  <2>1. JobOf[s] \in Jobs
    BY SendsAssumption
  <2>2. GoingFor(JobOf[s])' = {s}
    BY DEF GoingFor, IInv, OneGoing
  <2> QED BY <2>1, <2>2 DEF TurnOf, OneOf, OverOf
<1>2. GoingFor(JobOf[s]) = {}
  <2>1. ASSUME NEW t \in GoingFor(JobOf[s]) PROVE FALSE
    <3>1. t \in Real /\ JobOf[t] = JobOf[s] /\ status[t] \in Going /\ t # s
      BY DEF GoingFor
    <3>2. status'[t] \in Going
      BY <3>1, SendsAssumption
    <3> QED BY <3>1, <3>2 DEF IInv, OneGoing
  <2> QED BY <2>1
<1>3. TurnOf(JobOf[s]) = NoSend /\ ~OverOf(JobOf[s])
  BY <1>2 DEF TurnOf, OverOf
<1>4. ReceivedOf(JobOf[s])' = ReceivedOf(JobOf[s])
  BY DEF ReceivedOf
<1>5. Turns[JobOf[s]] = NoSend
  BY <1>1, <1>3 DEF Turns
<1>6. Turns' = [Turns EXCEPT ![JobOf[s]] = s]
  BY <1>1, TurnsAt
<1>7. Overs' = Overs
  BY <1>1, <1>3, OversStay
<1>8. Receiveds' = Receiveds
  BY <1>1, <1>4, ReceivedsAt
<1> QED BY <1>5, <1>6, <1>7, <1>8 DEF Once!Begin

LEMMA GivesUp ==
    ASSUME IInv, NEW s \in Real, OnlyJob(JobOf[s]),
           \A t \in Sends : sent'[t] = sent[t],
           \A t \in Sends \ {s} : status'[t] = status[t],
           status[s] \in Going \ SENT, status'[s] \notin Going, sent[s] = 0
    PROVE  Once!GiveUp(JobOf[s])
<1>1. /\ JobOf[s] \in Jobs /\ TurnOf(JobOf[s]) = s /\ s # NoSend /\ GoingFor(JobOf[s]) = {s}
      /\ ~OverOf(JobOf[s]) /\ ReceivedOf(JobOf[s]) = {}
  BY GoingAlone, ReceivedAlone, SendsAssumption
<1>2. GoingFor(JobOf[s])' = {}
  <2>1. ASSUME NEW t \in GoingFor(JobOf[s])' PROVE FALSE
    <3>1. t \in Real /\ JobOf[t] = JobOf[s] /\ status'[t] \in Going /\ t # s
      BY DEF GoingFor
    <3>2. t \in GoingFor(JobOf[s])
      BY <3>1, SendsAssumption DEF GoingFor
    <3> QED BY <1>1, <3>1, <3>2
  <2> QED BY <2>1
<1>3. TurnOf(JobOf[s])' = NoSend /\ ~OverOf(JobOf[s])'
  BY <1>2 DEF TurnOf, OverOf
<1>4. ReceivedOf(JobOf[s])' = ReceivedOf(JobOf[s])
  BY DEF ReceivedOf
<1>5. Turns[JobOf[s]] # NoSend /\ ~Overs[JobOf[s]] /\ Receiveds[JobOf[s]] = {}
  BY <1>1 DEF Turns, Overs, Receiveds
<1>6. Turns' = [Turns EXCEPT ![JobOf[s]] = NoSend]
  BY <1>1, <1>3, TurnsAt
<1>7. Overs' = Overs
  BY <1>1, <1>3, OversStay
<1>8. Receiveds' = Receiveds
  BY <1>1, <1>4, ReceivedsAt
<1> QED BY <1>5, <1>6, <1>7, <1>8 DEF Once!GiveUp

LEMMA IsOver ==
    ASSUME IInv, NEW s \in Real, OnlyJob(JobOf[s]),
           \A t \in Sends : sent'[t] = sent[t],
           \A t \in Sends \ {s} : status'[t] = status[t],
           status[s] \in Going \ SENT, status'[s] \in SENT
    PROVE  Once!End(JobOf[s])
<1>1. /\ JobOf[s] \in Jobs /\ TurnOf(JobOf[s]) = s /\ s # NoSend /\ GoingFor(JobOf[s]) = {s}
      /\ ~OverOf(JobOf[s])
  BY GoingAlone, SendsAssumption
<1>2. GoingFor(JobOf[s])' = GoingFor(JobOf[s])
  BY SendsAssumption DEF GoingFor, Going
<1>3. TurnOf(JobOf[s])' = TurnOf(JobOf[s])
  BY <1>2 DEF TurnOf
<1>4. ReceivedOf(JobOf[s])' = ReceivedOf(JobOf[s])
  BY DEF ReceivedOf
<1>5. OverOf(JobOf[s])'
  BY <1>1, <1>2 DEF OverOf
<1>6. Turns[JobOf[s]] # NoSend /\ ~Overs[JobOf[s]]
  BY <1>1 DEF Turns, Overs
<1>7. Turns' = Turns /\ Receiveds' = Receiveds
  BY <1>1, <1>3, <1>4, TurnsStay, ReceivedsAt
<1>8. Overs' = [Overs EXCEPT ![JobOf[s]] = TRUE]
  BY <1>1, <1>5 DEF OnlyJob, Overs, OverOf
<1> QED BY <1>6, <1>7, <1>8 DEF Once!End

LEMMA Delivers ==
    ASSUME IInv, NEW s \in Real, OnlyJob(JobOf[s]),
           UNCHANGED status, sent' = [sent EXCEPT ![s] = @ + 1],
           status[s] \in Going \ SENT, sent[s] = 0
    PROVE  Once!Deliver(JobOf[s])
<1>1. /\ JobOf[s] \in Jobs /\ TurnOf(JobOf[s]) = s /\ s # NoSend /\ GoingFor(JobOf[s]) = {s}
      /\ ~OverOf(JobOf[s]) /\ ReceivedOf(JobOf[s]) = {}
  BY GoingAlone, ReceivedAlone, SendsAssumption
<1>2. GoingFor(JobOf[s])' = GoingFor(JobOf[s])
  BY DEF GoingFor
<1>3. TurnOf(JobOf[s])' = TurnOf(JobOf[s]) /\ (OverOf(JobOf[s])' <=> OverOf(JobOf[s]))
  BY <1>2 DEF TurnOf, OverOf
<1>4. ReceivedOf(JobOf[s])' = {<<s, 1>>}
  <2>1. sent \in [Sends -> Nat] /\ s \in Sends
    BY SendsAssumption DEF IInv, TypeOK
  <2>2. sent'[s] = 1 /\ \A r \in Sends \ {s} : sent'[r] = sent[r]
    BY <2>1
  <2>3. ASSUME NEW r \in Sends \ {s}, JobOf[r] = JobOf[s]
        PROVE  {<<r, n>> : n \in 1 .. sent'[r]} = {}
    BY <1>1, <2>2, <2>3 DEF ReceivedOf
  <2>4. {<<s, n>> : n \in 1 .. sent'[s]} = {<<s, 1>>}
    BY <2>2
  <2> QED BY <2>1, <2>3, <2>4 DEF ReceivedOf
<1>5. Turns[JobOf[s]] = s /\ ~Overs[JobOf[s]] /\ Receiveds[JobOf[s]] = {}
  BY <1>1 DEF Turns, Overs, Receiveds
<1>6. Receiveds' = [Receiveds EXCEPT ![JobOf[s]] = {<<s, 1>>}]
  BY <1>1, <1>4, ReceivedsAt
<1>7. Turns' = Turns /\ Overs' = Overs
  BY <1>1, <1>3, TurnsStay, OversStay
<1> QED BY <1>1, <1>5, <1>6, <1>7 DEF Once!Deliver

(* What a step may do to a row: it is given the job, gives it up, is over, *)
(* or stays as it was for the job's sake.                                  *)
Moves(s, st) ==
    \/ s \notin Real
    \/ (st \in Going <=> status[s] \in Going) /\ (st \in SENT <=> status[s] \in SENT)
    \/ status[s] \notin Going /\ st \in Going \ SENT
    \/ status[s] \in Going \ SENT /\ st \notin Going /\ sent[s] = 0
    \/ status[s] \in Going \ SENT /\ st \in SENT

RowMoves(s) ==
    /\ UNCHANGED sent
    /\ \E st : status' = [status EXCEPT ![s] = st] /\ Moves(s, st)

GoesOut(s) ==
    /\ s \in Real /\ status[s] \in Going \ SENT /\ sent[s] = 0
    /\ UNCHANGED status /\ sent' = [sent EXCEPT ![s] = @ + 1]

Still == UNCHANGED <<status, sent>>

LEMMA RecordsSubmit ==
    ASSUME IInv, NEW s \in Sends, NEW from, RecordSubmit(s, from), UNCHANGED status,
           status[s] = "submitting", sent[s] = 0
    PROVE  Still \/ GoesOut(s)
<1>1. s \in Real /\ sent \in [Sends -> Nat] /\ status[s] \in Going \ SENT
  BY DEF IInv, OnlyRealGoOut, TypeOK, Going, SENT
<1>2. \/ UNCHANGED sent
      \/ \E n \in {0, 1} : Delivered(s, n)
  BY DEF RecordSubmit
<1> QED BY <1>1, <1>2 DEF Still, GoesOut, Delivered

LEMMA WorkflowMoves ==
    ASSUME IInv, NEW s \in Sends, Workflow(s)
    PROVE  Still \/ RowMoves(s) \/ GoesOut(s)
<1>0. /\ status \in [Sends -> Statuses \cup {"none"}] /\ sent \in [Sends -> Nat]
      /\ end \in [Sends -> FINISHED]
      /\ OneGoing /\ OnlyRealGoOut /\ RequestInv /\ WorkflowInv
  BY DEF IInv, TypeOK
<1>1. CASE Claim(s)
  <2>1. \/ UNCHANGED <<status, sent>>
        \/ status' = [status EXCEPT ![s] = "running"] /\ UNCHANGED sent
    BY <1>1 DEF Claim
  <2>2. status[s] \in {"queued", "running", "failed"}
    BY <1>0, <1>1 DEF Claim, WorkflowInv
  <2>3. Moves(s, "running")
    BY <2>2 DEF Moves, Going, SENT
  <2> QED BY <2>1, <2>3 DEF Still, RowMoves
<1>2. CASE Mark(s)
  <2>1. Moves(s, "submitting")
    BY <1>0, <1>2 DEF Mark, Goto, WorkflowInv, Moves, Going, SENT
  <2> QED BY <1>2, <2>1 DEF Mark, RowMoves
<1>3. CASE Note(s)
  <2>1. Moves(s, "code_needed")
    BY <1>0, <1>3 DEF Note, Goto, WorkflowInv, Moves, Going, SENT
  <2> QED BY <1>3, <2>1 DEF Note, RowMoves
<1>4. CASE Retype(s)
  <2>1. Moves(s, "submitting")
    BY <1>0, <1>4 DEF Retype, Goto, WorkflowInv, Moves, Going, SENT
  <2> QED BY <1>4, <2>1 DEF Retype, RowMoves
<1>5. CASE Finish(s)
  <2>1. /\ status[s] \notin SENT
        /\ end[s] \in SENT => status[s] = "submitting"
        /\ end[s] \notin SENT => sent[s] = 0
    BY <1>0, <1>5 DEF Finish, Goto, WorkflowInv
  <2>2. Moves(s, end[s])
    BY <1>0, <2>1 DEF Moves, Going, FINISHED, SENT, Statuses
  <2> QED BY <1>5, <2>2 DEF Finish, RowMoves
<1>6. CASE Press(s)
  <2>1. status[s] = "submitting" /\ sent[s] = 0 /\ UNCHANGED status
    BY <1>0, <1>6 DEF Press, WorkflowInv, RecordSubmit, EndAs, Goto, rows
  <2>2. RecordSubmit(s, "press") \/ UNCHANGED sent
    BY <1>6 DEF Press
  <2> QED BY <2>1, <2>2, RecordsSubmit DEF Still
<1>7. CASE TypeIn(s)
  <2>1. status[s] = "submitting" /\ sent[s] = 0 /\ UNCHANGED status
    BY <1>0, <1>7 DEF TypeIn, WorkflowInv, RecordSubmit, EndAs, Goto, rows
  <2>2. RecordSubmit(s, "type") \/ UNCHANGED sent
    BY <1>7 DEF TypeIn
  <2> QED BY <2>1, <2>2, RecordsSubmit DEF Still
<1>8. CASE \/ Load(s) \/ Open(s) \/ Fill(s) \/ Noted(s) \/ Settle(s) \/ Wake(s) \/ LetGo(s) \/ Drop(s)
           \/ CodeComes(s) \/ CodeTimesOut(s) \/ Enter(s) \/ Expire(s) \/ Fail(s)
  BY <1>8 DEF Load, Open, Fill, Noted, Settle, Wake, LetGo, Drop, CodeComes, CodeTimesOut, Enter, Expire,
              Fail, rows, Still
<1> QED BY <1>1, <1>2, <1>3, <1>4, <1>5, <1>6, <1>7, <1>8 DEF Workflow

LEMMA RequestMoves ==
    ASSUME IInv, NEW s \in Sends, Check(s) \/ Request(s) \/ RequestDies(s) \/ Stop(s) \/ GiveBack(s)
    PROVE  Still \/ RowMoves(s)
<1>0. status \in [Sends -> Statuses \cup {"none"}] /\ sent \in [Sends -> Nat]
  BY DEF IInv, TypeOK
<1>1. CASE Insert(s)
  <2>1. UNCHANGED sent /\ (UNCHANGED status \/ status' = [status EXCEPT ![s] = "queued"])
    BY <1>1 DEF Insert, rows
  <2>2. status[s] = "none"
    BY <1>1 DEF Insert, Turn, IInv, RequestInv
  <2>3. Moves(s, "queued")
    BY <2>2 DEF Moves, Going, SENT
  <2> QED BY <2>1, <2>3 DEF Still, RowMoves
<1>2. CASE Unstarted(s) \/ Stop(s)
  <2>1. /\ UNCHANGED sent
        /\ \/ UNCHANGED status
           \/ status[s] = "queued" /\ status' = [status EXCEPT ![s] = "failed"]
    BY <1>2 DEF Unstarted, Stop, Turn, IInv, RequestInv
  <2>2. status[s] = "queued" => sent[s] = 0
    BY <1>0 DEF IInv, OnlyRealGoOut
  <2>3. status[s] = "queued" => Moves(s, "failed")
    BY <2>2 DEF Moves, Going, SENT
  <2> QED BY <2>1, <2>3 DEF Still, RowMoves
<1>3. CASE \/ Check(s) \/ Reserve(s) \/ FindKept(s) \/ TakeOver(s) \/ Create(s) \/ CreateFails(s)
           \/ Refund(s) \/ Record(s) \/ RequestDies(s) \/ GiveBack(s)
  BY <1>3 DEF Check, Reserve, FindKept, TakeOver, Create, CreateFails, Refund, Record, RequestDies, GiveBack,
              rows, Still
<1> QED BY <1>1, <1>2, <1>3 DEF Request

LEMMA FaultMoves ==
    ASSUME IInv, NEW s \in Sends, AttemptDies(s) \/ FinishDies(s) \/ EmailCode(s) \/ TypeCode(s) \/ Pause
    PROVE  Still \/ GoesOut(s)
<1>1. CASE AttemptDies(s)
  <2>1. UNCHANGED status /\ (UNCHANGED sent \/ (at[s] \in {"press", "type"} /\ Delivered(s, 1)))
    BY <1>1 DEF AttemptDies, rows
  <2>2. ASSUME at[s] \in {"press", "type"}
        PROVE  s \in Real /\ status[s] \in Going \ SENT /\ sent[s] = 0
    BY <2>2 DEF IInv, WorkflowInv, OnlyRealGoOut, Going, SENT
  <2> QED BY <2>1, <2>2 DEF Still, GoesOut, Delivered
<1>2. CASE FinishDies(s) \/ EmailCode(s) \/ TypeCode(s) \/ Pause
  BY <1>2 DEF FinishDies, EmailCode, TypeCode, DeliverCode, Pause, rows, Still
<1> QED BY <1>1, <1>2

LEMMA StepPromised ==
    ASSUME IInv, IInv', [Next]_vars
    PROVE  [Once!Next]_(Once!vars)
<1>0. Real \subseteq Sends /\ JobOf \in [Sends -> Jobs]
  BY SendsAssumption
<1>1. ASSUME Still PROVE UNCHANGED <<Turns, Overs, Receiveds>>
  <2>1. \A i \in Jobs : TurnOf(i)' = TurnOf(i) /\ (OverOf(i)' <=> OverOf(i)) /\ ReceivedOf(i)' = ReceivedOf(i)
    BY <1>0, <1>1, JobStays DEF Still
  <2> QED BY <2>1 DEF Turns, Overs, OverOf, Receiveds
<1>2. ASSUME NEW s \in Sends, RowMoves(s)
      PROVE  Once!Next \/ UNCHANGED <<Turns, Overs, Receiveds>>
  <2>0. status \in [Sends -> Statuses \cup {"none"}] /\ JobOf[s] \in Jobs
    BY <1>0 DEF IInv, TypeOK
  <2>1. PICK st : status' = [status EXCEPT ![s] = st] /\ Moves(s, st) /\ UNCHANGED sent
    BY <1>2 DEF RowMoves
  <2>2. /\ status'[s] = st /\ \A t \in Sends \ {s} : status'[t] = status[t]
        /\ \A t \in Sends : sent'[t] = sent[t]
    BY <2>0, <2>1
  <2>3. OnlyJob(JobOf[s])
    BY <2>2, SendStep
  <2>4. CASE s \notin Real \/ ((st \in Going <=> status[s] \in Going) /\ (st \in SENT <=> status[s] \in SENT))
    BY <2>2, <2>3, <2>4, Stutters
  <2>5. CASE s \in Real /\ status[s] \notin Going /\ st \in Going \ SENT
    BY <2>0, <2>2, <2>3, <2>5, Begins DEF Once!Next
  <2>6. CASE s \in Real /\ status[s] \in Going \ SENT /\ st \notin Going /\ sent[s] = 0
    BY <2>0, <2>2, <2>3, <2>6, GivesUp DEF Once!Next
  <2>7. CASE s \in Real /\ status[s] \in Going \ SENT /\ st \in SENT
    BY <2>0, <2>2, <2>3, <2>7, IsOver DEF Once!Next
  <2> QED BY <2>1, <2>4, <2>5, <2>6, <2>7 DEF Moves
<1>3. ASSUME NEW s \in Sends, GoesOut(s) PROVE Once!Next
  <2>1. /\ JobOf[s] \in Jobs /\ s \in Real /\ status[s] \in Going \ SENT /\ sent[s] = 0
        /\ UNCHANGED status /\ sent' = [sent EXCEPT ![s] = @ + 1] /\ sent \in [Sends -> Nat]
    BY <1>0, <1>3 DEF GoesOut, IInv, TypeOK
  <2>2. OnlyJob(JobOf[s])
    BY <2>1, SendStep
  <2>3. Once!Deliver(JobOf[s])
    BY <2>1, <2>2, Delivers
  <2> QED BY <2>1, <2>3 DEF Once!Next
<1>4. Still \/ \E s \in Sends : RowMoves(s) \/ GoesOut(s)
  <2>1. CASE UNCHANGED vars
    BY <2>1 DEF vars, rows, Still
  <2>2. ASSUME NEW s \in Sends, \/ Check(s) \/ Request(s) \/ Workflow(s) \/ EmailCode(s) \/ TypeCode(s)
                                \/ RequestDies(s) \/ AttemptDies(s) \/ FinishDies(s) \/ Stop(s) \/ GiveBack(s)
        PROVE  Still \/ RowMoves(s) \/ GoesOut(s)
    BY <2>2, WorkflowMoves, RequestMoves, FaultMoves, Zenon
  <2>3. CASE Pause
    BY <2>3 DEF Pause, rows, Still
  <2> QED BY <2>1, <2>2, <2>3 DEF Next
<1> QED BY <1>1, <1>2, <1>3, <1>4 DEF Once!vars

LEMMA InitPromised == Init => Once!Init
<1> SUFFICES ASSUME Init PROVE Once!Init
  OBVIOUS
<1>1. \A i \in Jobs : GoingFor(i) = {}
  BY SendsAssumption DEF Init, GoingFor, Going, SENT
<1>2. \A i \in Jobs : TurnOf(i) = NoSend /\ ~OverOf(i)
  BY <1>1 DEF TurnOf, OverOf
<1>3. \A i \in Jobs : ReceivedOf(i) = {}
  BY DEF Init, ReceivedOf
<1> QED BY <1>2, <1>3 DEF Once!Init, Turns, Overs, OverOf, Receiveds

(* Every step of a request, a Workflow, a crash, a Pause or a resend is a  *)
(* step the promise allows: one send at a time has the job, the employer   *)
(* gets the application once and from that send, and nothing after it is   *)
(* over.                                                                   *)
THEOREM Promised == Spec => KeepsThePromise
<1>1. Init => IInv
  BY InvInit
<1>2. IInv /\ [Next]_vars => IInv'
  BY InvNext
<1>3. IInv /\ IInv' /\ [Next]_vars => [Once!Next]_(Once!vars)
  BY StepPromised
<1> QED BY <1>1, <1>2, <1>3, InitPromised, PTL DEF Spec, KeepsThePromise, Once!Spec

-----------------------------------------------------------------------------
(***************************************************************************)
(* The browsers, for every fault; and the books (the allowance and the row *)
(* of a send) when no send is one Pause may stop.  Pause breaks the books: *)
(* it stops a row that runSend has already read.                           *)
(***************************************************************************)

-----------------------------------------------------------------------------
(* Who has a browser.  The row's session, the page of the running step,    *)
(* the session a request just took over and the one finish is about to     *)
(* write back are what a send holds.                                       *)
Holds(s) ==
    {session[s], page[s],
     IF req[s] = "browser" THEN took[s] ELSE NoSession,
     IF at[s] = "finish" THEN keep[s] ELSE NoSession} \ {NoSession}

Apart == \A s, t \in Sends : s # t => Holds(s) \cap Holds(t) = {}

(* The session an attempt is about to open is one nobody holds or closed. *)
BeforeOpen == {"off", "run", "claim", "open"}

OpenedBy(s, n) == n < tries[s] \/ (n = tries[s] /\ at[s] \notin BeforeOpen)

Numbered ==
    \A s \in Sends, n \in 0 .. RunRetries :
        /\ <<s, n>> \in closed => OpenedBy(s, n)
        /\ \A t \in Sends : <<s, n>> \in Holds(t) => OpenedBy(s, n)

(* A page is attached only between Open and the end of the form. *)
PageOpen ==
    \A s \in Sends : page[s] # NoSession =>
        at[s] \in {"fill", "mark", "press", "note", "noted", "retype", "type"}

(* The row whose browser a request found ended with its form kept open:    *)
(* its own Workflow no longer drives it.                                   *)
FoundKept ==
    \A s \in Sends : req[s] = "found" =>
        /\ cand[s] \in Sends /\ took[s] # NoSession
        /\ status[cand[s]] \in {"needs_you", "ready"}

(* Between the two statements of adoptKeptBrowser and the INSERT. *)
TookFrom == \A s \in Sends : took[s] # NoSession => req[s] \in {"found", "browser"}

(* finish runs only for a send that did not end with its form kept open. *)
FinishOpen ==
    \A s \in Sends : at[s] = "finish" => status[s] \notin {"needs_you", "ready"}

-----------------------------------------------------------------------------
(* The allowance and the row. *)

(* What the row says where the Workflow, the request and Pause are. *)
RowInv ==
    \A s \in Sends :
        /\ at[s] = "claim" /\ status[s] = "failed" => s \in stopped
        /\ at[s] = "settle" => status[s] = end[s]
        /\ at[s] = "finish" => status[s] # "none" /\ Follows(status[s], end[s])
        /\ at[s] # "off" => status[s] # "none"
        /\ req[s] = "refund" => at[s] = "off" /\ status[s] \in {"none", "failed"}
        /\ stopping[s] = "refund" => s \in stopped

(* From the reservation until the row ends, the allowance is used, unless  *)
(* Pause gives back what it stopped.                                       *)
HeldInv ==
    \A s \in Real \ stopped :
        status[s] \in Going \/ req[s] \in {"reserved", "found", "browser", "inserted", "unstarted"}
            => ledger[s] = "held"

(* The places of a Workflow whose send has not ended. *)
Unsettled == {"run", "claim", "open", "fill", "mark", "press", "note", "noted", "finish",
              "await", "enter", "retype", "type", "expire", "fail"}

(* A Workflow runs a send that has not ended, unless Pause ended it or its *)
(* finish was cut short, and leaves its books settled.                     *)
SettledInv ==
    \A s \in Sends :
        /\ at[s] \in Unsettled /\ status[s] \in FINISHED => s \in stopped \cup cut
        /\ at[s] = "enter" => status[s] = "code_needed"
        /\ at[s] = "expire" \/ (at[s] = "finish" /\ step[s] = "expire") =>
             status[s] \in FINISHED \cup {"code_needed"}
        /\ at[s] \in {"sleep", "letgo", "drop", "end"} => status[s] \in FINISHED
        /\ s \in Real \ cut /\ status[s] \in FINISHED \ SENT /\ at[s] \notin {"off", "settle"} =>
             stopping[s] = "refund" \/ ledger[s] # "held"
        /\ s \notin cut /\ status[s] = "submitted" /\ at[s] # "settle" => JobOf[s] \in tracked

(* The step a Workflow is in, by its place. *)
StepInv ==
    \A s \in Sends :
        /\ at[s] \in {"claim", "open", "fill", "mark", "press", "note", "noted"} => step[s] = "run"
        /\ at[s] \in {"enter", "retype", "type"} => step[s] = "enter"
        /\ at[s] = "expire" => step[s] = "expire"

(* The row and the allowance together. *)
Books == RowInv /\ HeldInv

LEMMA BooksNext ==
    ASSUME IInv, Books, [Next]_vars
    PROVE  Books'
<1>1. /\ status \in [Sends -> Statuses \cup {"none"}]
      /\ req \in [Sends -> ReqStates]
      /\ at \in [Sends -> Places]
      /\ end \in [Sends -> FINISHED]
      /\ ledger \in [Sends -> {"none", "held", "released"}]
      /\ step \in [Sends -> {"run", "enter", "expire", "fail"}]
      /\ stopping \in [Sends -> {"no", "read", "refund"}]
      /\ Real \subseteq Sends
  BY SendsAssumption DEF IInv, TypeOK
<1>2. /\ RowInv /\ HeldInv /\ RequestInv /\ WorkflowInv
  BY DEF Books, IInv
<1> USE DEF rows, books, request, flow, codes, history
<1> USE DEF Books, RowInv, HeldInv, RequestInv, WorkflowInv, Statuses, FINISHED, Going, SENT, Follows
<1>10. ASSUME NEW s \in Sends, Check(s) PROVE Books'
  BY <1>1, <1>2, <1>10 DEF Check, Turn
<1>11. ASSUME NEW s \in Sends, Reserve(s) PROVE Books'
  BY <1>1, <1>2, <1>11 DEF Reserve, Turn
<1>12. ASSUME NEW s \in Sends, FindKept(s) PROVE Books'
  BY <1>1, <1>2, <1>12 DEF FindKept, Turn
<1>13. ASSUME NEW s \in Sends, TakeOver(s) PROVE Books'
  BY <1>1, <1>2, <1>13 DEF TakeOver, Turn
<1>14. ASSUME NEW s \in Sends, Insert(s) PROVE Books'
  BY <1>1, <1>2, <1>14 DEF Insert, Turn
<1>15. ASSUME NEW s \in Sends, Create(s) PROVE Books'
  BY <1>1, <1>2, <1>15 DEF Create, Turn, Goto
<1>16. ASSUME NEW s \in Sends, CreateFails(s) PROVE Books'
  BY <1>1, <1>2, <1>16 DEF CreateFails, Turn
<1>17. ASSUME NEW s \in Sends, Unstarted(s) PROVE Books'
  BY <1>1, <1>2, <1>17 DEF Unstarted, Turn
<1>18. ASSUME NEW s \in Sends, Refund(s) PROVE Books'
  BY <1>1, <1>2, <1>18 DEF Refund, Turn
<1>19. ASSUME NEW s \in Sends, Record(s) PROVE Books'
  BY <1>1, <1>2, <1>19 DEF Record, Turn
<1>20. ASSUME NEW s \in Sends, RequestDies(s) PROVE Books'
  BY <1>1, <1>2, <1>20 DEF RequestDies, ReqStates
<1>21. ASSUME NEW s \in Sends, Load(s) PROVE Books'
  BY <1>1, <1>2, <1>21 DEF Load, EndAs, Goto
<1>22. ASSUME NEW s \in Sends, Claim(s) PROVE Books'
  BY <1>1, <1>2, <1>22 DEF Claim, Retry
<1>23. ASSUME NEW s \in Sends, Open(s) PROVE Books'
  BY <1>1, <1>2, <1>23 DEF Open, EndAs, Goto
<1>24. ASSUME NEW s \in Sends, Fill(s) PROVE Books'
  BY <1>1, <1>2, <1>24 DEF Fill, EndAs, Goto
<1>25. ASSUME NEW s \in Sends, Mark(s) PROVE Books'
  BY <1>1, <1>2, <1>25 DEF Mark, Goto
<1>26. ASSUME NEW s \in Sends, Press(s) PROVE Books'
  BY <1>1, <1>2, <1>26 DEF Press, RecordSubmit, EndAs, Goto
<1>27. ASSUME NEW s \in Sends, Note(s) PROVE Books'
  BY <1>1, <1>2, <1>27 DEF Note, Goto
<1>28. ASSUME NEW s \in Sends, Noted(s) PROVE Books'
  BY <1>1, <1>2, <1>28 DEF Noted, Goto
<1>29. ASSUME NEW s \in Sends, Finish(s) PROVE Books'
  BY <1>1, <1>2, <1>29 DEF Finish, Goto
<1>30. ASSUME NEW s \in Sends, Settle(s) PROVE Books'
  BY <1>1, <1>2, <1>30 DEF Settle, Goto, AfterFinish, Releases
<1>31. ASSUME NEW s \in Sends, Wake(s) PROVE Books'
  BY <1>1, <1>2, <1>31 DEF Wake, Goto
<1>32. ASSUME NEW s \in Sends, LetGo(s) PROVE Books'
  BY <1>1, <1>2, <1>32 DEF LetGo, Goto
<1>33. ASSUME NEW s \in Sends, Drop(s) PROVE Books'
  BY <1>1, <1>2, <1>33 DEF Drop, Goto
<1>34. ASSUME NEW s \in Sends, CodeComes(s) PROVE Books'
  BY <1>1, <1>2, <1>34 DEF CodeComes, Goto
<1>35. ASSUME NEW s \in Sends, CodeTimesOut(s) PROVE Books'
  BY <1>1, <1>2, <1>35 DEF CodeTimesOut, Goto
<1>36. ASSUME NEW s \in Sends, Enter(s) PROVE Books'
  BY <1>1, <1>2, <1>36 DEF Enter, Goto
<1>37. ASSUME NEW s \in Sends, Retype(s) PROVE Books'
  BY <1>1, <1>2, <1>37 DEF Retype, Goto
<1>38. ASSUME NEW s \in Sends, TypeIn(s) PROVE Books'
  BY <1>1, <1>2, <1>38 DEF TypeIn, RecordSubmit, EndAs, Goto
<1>39. ASSUME NEW s \in Sends, Expire(s) PROVE Books'
  BY <1>1, <1>2, <1>39 DEF Expire, Goto
<1>40. ASSUME NEW s \in Sends, Fail(s) PROVE Books'
  BY <1>1, <1>2, <1>40 DEF Fail, EndAs, Goto
<1>41. ASSUME NEW s \in Sends, AttemptDies(s) PROVE Books'
  BY <1>1, <1>2, <1>41 DEF AttemptDies, Retry
<1>42. ASSUME NEW s \in Sends, FinishDies(s) PROVE Books'
  <2>1. PICK to \in {"run", "fail", "expire"} : at' = [at EXCEPT ![s] = to]
    BY <1>1, <1>42 DEF FinishDies, Retry
  <2> QED BY <1>1, <1>2, <1>42, <2>1 DEF FinishDies
<1>43. ASSUME NEW s \in Sends, EmailCode(s) \/ TypeCode(s) PROVE Books'
  BY <1>1, <1>2, <1>43 DEF EmailCode, TypeCode, DeliverCode
<1>44. ASSUME NEW s \in Sends, Stop(s) PROVE Books'
  BY <1>1, <1>2, <1>44 DEF Stop
<1>45. ASSUME NEW s \in Sends, GiveBack(s) PROVE Books'
  BY <1>1, <1>2, <1>45 DEF GiveBack
<1>49. ASSUME Pause PROVE Books'
  BY <1>1, <1>2, <1>49 DEF Pause
<1>46. ASSUME UNCHANGED vars PROVE Books'
  <2>1. /\ status' = status /\ req' = req /\ at' = at /\ end' = end /\ ledger' = ledger
        /\ stopping' = stopping /\ stopped' = stopped
    BY <1>46 DEF vars
  <2> QED BY <1>1, <1>2, <2>1
<1> HIDE DEF Books, RowInv, HeldInv, RequestInv, WorkflowInv, Statuses, FINISHED, Going, SENT, Follows
<1>47. ASSUME NEW s \in Sends, Request(s) PROVE Books'
  BY <1>11, <1>12, <1>13, <1>14, <1>15, <1>16, <1>17, <1>18, <1>19, <1>47 DEF Request
<1>48. ASSUME NEW s \in Sends, Workflow(s) PROVE Books'
  BY <1>21, <1>22, <1>23, <1>24, <1>25, <1>26, <1>27, <1>28, <1>29, <1>30, <1>31, <1>32, <1>33, <1>34,
     <1>35, <1>36, <1>37, <1>38, <1>39, <1>40,
     <1>48 DEF Workflow
<1> QED
  BY <1>10, <1>47, <1>48, <1>43, <1>20, <1>41, <1>42, <1>44, <1>45, <1>49, <1>46 DEF Next

LEMMA BooksInit == Init => Books
BY SendsAssumption DEF Init, Books, RowInv, HeldInv, Going, SENT

RowsFollow == \A t \in Sends : Follows(status[t], status'[t]) \/ TakenUp(t)

(* A send goes on in its row and ends once. *)
LEMMA BooksFollow ==
    ASSUME IInv, Books, Next
    PROVE  RowsFollow
<1>1. status \in [Sends -> Statuses \cup {"none"}] /\ end \in [Sends -> FINISHED]
  BY DEF IInv, TypeOK
<1>2. RowInv /\ RequestInv /\ WorkflowInv
  BY DEF Books, IInv
<1> USE DEF RowsFollow
<1>3. ASSUME NEW s \in Sends, Request(s) PROVE  RowsFollow
  BY <1>1, <1>2, <1>3 DEF Request, Reserve, FindKept, TakeOver, Insert, Create, CreateFails, Unstarted,
     Refund,
     Record, Turn, RequestInv, Follows, rows
<1>4. ASSUME NEW s \in Sends, Claim(s) \/ Mark(s) \/ Note(s) \/ Retype(s) PROVE  RowsFollow
  BY <1>1, <1>2, <1>4 DEF Claim, Mark, Note, Retype, Goto, RowInv, WorkflowInv, Follows, TakenUp
<1>5. ASSUME NEW s \in Sends, Finish(s) PROVE  RowsFollow
  BY <1>1, <1>2, <1>5 DEF Finish, Goto, RowInv, Follows
<1>6. ASSUME NEW s \in Sends,
             \/ Load(s) \/ Open(s) \/ Fill(s) \/ Press(s) \/ Noted(s) \/ Settle(s) \/ Wake(s) \/ LetGo(s) \/ Drop(s)
             \/ CodeComes(s) \/ CodeTimesOut(s) \/ Enter(s) \/ TypeIn(s) \/ Expire(s) \/ Fail(s)
      PROVE  UNCHANGED status
  BY <1>6 DEF Load, Open, Fill, Press, Noted, Settle, Wake, LetGo, Drop, CodeComes, CodeTimesOut, Enter,
     TypeIn,
     Expire, Fail, rows
<1>7. ASSUME NEW s \in Sends,
             \/ Check(s) \/ EmailCode(s) \/ TypeCode(s) \/ RequestDies(s) \/ AttemptDies(s) \/ FinishDies(s)
      PROVE  UNCHANGED status
  BY <1>7 DEF Check, EmailCode, TypeCode, DeliverCode, RequestDies, AttemptDies, FinishDies, rows
<1>8. ASSUME NEW s \in Sends, Stop(s) PROVE  RowsFollow
  BY <1>1, <1>8 DEF Stop, Follows
<1>9. ASSUME NEW s \in Sends, GiveBack(s) \/ Pause PROVE  UNCHANGED status
  BY <1>9 DEF GiveBack, Pause, rows
<1>10. ASSUME UNCHANGED status PROVE  RowsFollow
  BY <1>10 DEF Follows
<1>11. ASSUME NEW s \in Sends, Workflow(s) PROVE  RowsFollow
  BY <1>4, <1>5, <1>6, <1>10, <1>11 DEF Workflow
<1> QED BY <1>3, <1>7, <1>8, <1>9, <1>10, <1>11 DEF Next

-----------------------------------------------------------------------------
(* What the two together keep, step after step. *)
LEMMA BooksAlways == Spec => [](IInv /\ Books)
<1>1. Init => IInv /\ Books
  BY InvInit, BooksInit
<1>2. IInv /\ Books /\ [Next]_vars => (IInv /\ Books)'
  BY InvNext, BooksNext
<1> QED BY <1>1, <1>2, PTL DEF Spec

(* Where the employer has an application, or may have, the plan's send     *)
(* stays used, through every retry, crash and code, unless Pause ended the *)
(* row while the Workflow ran.                                             *)
THEOREM AllowanceHeld == Spec => []SentHoldsAllowance
<1>1. IInv /\ Books => SentHoldsAllowance
  BY DEF IInv, OnlyRealGoOut, Books, HeldInv, SentHoldsAllowance, Going, SENT
<1> QED BY <1>1, BooksAlways, PTL

(* A send never goes back behind Submit and a send that ended stays as it  *)
(* ended: no retry, code or crash of a step takes a row backwards; only a  *)
(* Workflow that read its row before Pause ended it does.                  *)
THEOREM MovesOn == Spec => StatusMovesOn
<1>1. IInv /\ Books /\ [Next]_vars
        => [\A s \in Sends : Follows(status[s], status'[s]) \/ TakenUp(s)]_status
  BY BooksFollow DEF RowsFollow, vars, rows
<1> QED BY <1>1, BooksAlways, PTL DEF Spec, StatusMovesOn
-----------------------------------------------------------------------------
(* The books of a send that is over.                                       *)

LEMMA StepNext ==
    ASSUME IInv, StepInv, [Next]_vars
    PROVE  StepInv'
<1>1. /\ at \in [Sends -> Places]
      /\ step \in [Sends -> {"run", "enter", "expire", "fail"}]
  BY DEF IInv, TypeOK
<1> USE DEF StepInv, flow
<1>2. ASSUME NEW s \in Sends, Load(s) \/ Claim(s) \/ Open(s) \/ Fill(s) \/ Mark(s)
      PROVE  StepInv'
  BY <1>1, <1>2 DEF Load, Claim, Open, Fill, Mark, Retry, EndAs, Goto
<1>3. ASSUME NEW s \in Sends, Press(s) \/ Note(s) \/ Noted(s) \/ TypeIn(s)
      PROVE  StepInv'
  BY <1>1, <1>3 DEF Press, Note, Noted, TypeIn, RecordSubmit, EndAs, Goto
<1>4. ASSUME NEW s \in Sends, Finish(s) \/ Settle(s) \/ Wake(s) \/ LetGo(s) \/ Drop(s)
      PROVE  StepInv'
  BY <1>1, <1>4 DEF Finish, Settle, Wake, LetGo, Drop, AfterFinish, Goto
<1>5. ASSUME NEW s \in Sends, CodeComes(s) \/ CodeTimesOut(s) \/ Enter(s) \/ Retype(s) \/ Expire(s) \/ Fail(s)
      PROVE  StepInv'
  BY <1>1, <1>5 DEF CodeComes, CodeTimesOut, Enter, Retype, Expire, Fail, EndAs, Goto
<1>6. ASSUME NEW s \in Sends, Request(s)
      PROVE  StepInv'
  <2>1. step' = step /\ (at' = at \/ at' = [at EXCEPT ![s] = "run"])
    BY <1>6 DEF Request, Reserve, FindKept, TakeOver, Insert, Create, CreateFails, Unstarted, Refund, Record, Goto
  <2> QED BY <1>1, <2>1
<1>7. ASSUME NEW s \in Sends, AttemptDies(s) \/ FinishDies(s)
      PROVE  StepInv'
  BY <1>1, <1>7 DEF AttemptDies, FinishDies, Retry
<1>8. ASSUME NEW s \in Sends,
             \/ Check(s) \/ EmailCode(s) \/ TypeCode(s) \/ RequestDies(s) \/ Stop(s) \/ GiveBack(s)
      PROVE  at' = at /\ step' = step
  BY <1>8 DEF Check, EmailCode, TypeCode, DeliverCode, RequestDies, Stop, GiveBack
<1>9. ASSUME Pause \/ UNCHANGED vars
      PROVE  at' = at /\ step' = step
  BY <1>9 DEF Pause, vars
<1>10. ASSUME NEW s \in Sends, Workflow(s) PROVE StepInv'
  BY <1>2, <1>3, <1>4, <1>5, <1>10 DEF Workflow
<1>11. ASSUME at' = at /\ step' = step PROVE StepInv'
  BY <1>11
<1> HIDE DEF StepInv, flow
<1> QED BY <1>6, <1>7, <1>8, <1>9, <1>10, <1>11 DEF Next

LEMMA SettledNext ==
    ASSUME IInv, Books, StepInv, SettledInv, [Next]_vars
    PROVE  SettledInv'
<1>1. /\ status \in [Sends -> Statuses \cup {"none"}]
      /\ req \in [Sends -> ReqStates]
      /\ at \in [Sends -> Places]
      /\ end \in [Sends -> FINISHED]
      /\ ledger \in [Sends -> {"none", "held", "released"}]
      /\ step \in [Sends -> {"run", "enter", "expire", "fail"}]
      /\ stopping \in [Sends -> {"no", "read", "refund"}]
      /\ Real \subseteq Sends
  BY SendsAssumption DEF IInv, TypeOK
<1>2. /\ RowInv /\ HeldInv /\ StepInv /\ SettledInv /\ RequestInv /\ WorkflowInv
  BY DEF Books, IInv
<1> USE DEF rows, books, request, flow, codes, history
<1> USE DEF RowInv, HeldInv, StepInv, SettledInv, RequestInv, WorkflowInv, Unsettled, Statuses, FINISHED, Going, SENT
<1>10. ASSUME NEW s \in Sends, Check(s) PROVE SettledInv'
  BY <1>1, <1>2, <1>10 DEF Check, Turn
<1>11. ASSUME NEW s \in Sends, Reserve(s) PROVE SettledInv'
  BY <1>1, <1>2, <1>11 DEF Reserve, Turn
<1>12. ASSUME NEW s \in Sends, FindKept(s) PROVE SettledInv'
  BY <1>1, <1>2, <1>12 DEF FindKept, Turn
<1>13. ASSUME NEW s \in Sends, TakeOver(s) PROVE SettledInv'
  BY <1>1, <1>2, <1>13 DEF TakeOver, Turn
<1>14. ASSUME NEW s \in Sends, Insert(s) PROVE SettledInv'
  BY <1>1, <1>2, <1>14 DEF Insert, Turn
<1>15. ASSUME NEW s \in Sends, Create(s) PROVE SettledInv'
  BY <1>1, <1>2, <1>15 DEF Create, Turn, Goto
<1>16. ASSUME NEW s \in Sends, CreateFails(s) PROVE SettledInv'
  BY <1>1, <1>2, <1>16 DEF CreateFails, Turn
<1>17. ASSUME NEW s \in Sends, Unstarted(s) PROVE SettledInv'
  BY <1>1, <1>2, <1>17 DEF Unstarted, Turn
<1>18. ASSUME NEW s \in Sends, Refund(s) PROVE SettledInv'
  BY <1>1, <1>2, <1>18 DEF Refund, Turn
<1>19. ASSUME NEW s \in Sends, Record(s) PROVE SettledInv'
  BY <1>1, <1>2, <1>19 DEF Record, Turn
<1>20. ASSUME NEW s \in Sends, RequestDies(s) PROVE SettledInv'
  BY <1>1, <1>2, <1>20 DEF RequestDies, ReqStates
<1>21. ASSUME NEW s \in Sends, Load(s) PROVE SettledInv'
  BY <1>1, <1>2, <1>21 DEF Load, EndAs, Goto
<1>22. ASSUME NEW s \in Sends, Claim(s) PROVE SettledInv'
  BY <1>1, <1>2, <1>22 DEF Claim, Retry
<1>23. ASSUME NEW s \in Sends, Open(s) PROVE SettledInv'
  BY <1>1, <1>2, <1>23 DEF Open, EndAs, Goto
<1>24. ASSUME NEW s \in Sends, Fill(s) PROVE SettledInv'
  BY <1>1, <1>2, <1>24 DEF Fill, EndAs, Goto
<1>25. ASSUME NEW s \in Sends, Mark(s) PROVE SettledInv'
  BY <1>1, <1>2, <1>25 DEF Mark, Goto
<1>26. ASSUME NEW s \in Sends, Press(s) PROVE SettledInv'
  BY <1>1, <1>2, <1>26 DEF Press, RecordSubmit, EndAs, Goto
<1>27. ASSUME NEW s \in Sends, Note(s) PROVE SettledInv'
  BY <1>1, <1>2, <1>27 DEF Note, Goto
<1>28. ASSUME NEW s \in Sends, Noted(s) PROVE SettledInv'
  BY <1>1, <1>2, <1>28 DEF Noted, Goto
<1>29. ASSUME NEW s \in Sends, Finish(s) PROVE SettledInv'
  BY <1>1, <1>2, <1>29 DEF Finish, Goto
<1>30. ASSUME NEW s \in Sends, Settle(s) PROVE SettledInv'
  BY <1>1, <1>2, <1>30 DEF Settle, Goto, AfterFinish, Releases
<1>31. ASSUME NEW s \in Sends, Wake(s) PROVE SettledInv'
  BY <1>1, <1>2, <1>31 DEF Wake, Goto
<1>32. ASSUME NEW s \in Sends, LetGo(s) PROVE SettledInv'
  BY <1>1, <1>2, <1>32 DEF LetGo, Goto
<1>33. ASSUME NEW s \in Sends, Drop(s) PROVE SettledInv'
  BY <1>1, <1>2, <1>33 DEF Drop, Goto
<1>34. ASSUME NEW s \in Sends, CodeComes(s) PROVE SettledInv'
  BY <1>1, <1>2, <1>34 DEF CodeComes, Goto
<1>35. ASSUME NEW s \in Sends, CodeTimesOut(s) PROVE SettledInv'
  BY <1>1, <1>2, <1>35 DEF CodeTimesOut, Goto
<1>36. ASSUME NEW s \in Sends, Enter(s) PROVE SettledInv'
  BY <1>1, <1>2, <1>36 DEF Enter, Goto
<1>37. ASSUME NEW s \in Sends, Retype(s) PROVE SettledInv'
  BY <1>1, <1>2, <1>37 DEF Retype, Goto
<1>38. ASSUME NEW s \in Sends, TypeIn(s) PROVE SettledInv'
  BY <1>1, <1>2, <1>38 DEF TypeIn, RecordSubmit, EndAs, Goto
<1>39. ASSUME NEW s \in Sends, Expire(s) PROVE SettledInv'
  BY <1>1, <1>2, <1>39 DEF Expire, Goto
<1>40. ASSUME NEW s \in Sends, Fail(s) PROVE SettledInv'
  BY <1>1, <1>2, <1>40 DEF Fail, EndAs, Goto
<1>41. ASSUME NEW s \in Sends, AttemptDies(s) PROVE SettledInv'
  BY <1>1, <1>2, <1>41 DEF AttemptDies, Retry
<1>42. ASSUME NEW s \in Sends, EmailCode(s) \/ TypeCode(s) PROVE SettledInv'
  BY <1>1, <1>2, <1>42 DEF EmailCode, TypeCode, DeliverCode
<1>43. ASSUME NEW s \in Sends, Stop(s) PROVE SettledInv'
  BY <1>1, <1>2, <1>43 DEF Stop
<1>44. ASSUME NEW s \in Sends, GiveBack(s) PROVE SettledInv'
  BY <1>1, <1>2, <1>44 DEF GiveBack
<1>48. ASSUME Pause PROVE SettledInv'
  BY <1>1, <1>2, <1>48 DEF Pause
<1>49. ASSUME NEW s \in Sends, FinishDies(s) PROVE SettledInv'
  <2>1. PICK to \in {"run", "fail", "expire"} :
          /\ at' = [at EXCEPT ![s] = to]
          /\ to = "expire" => step[s] = "expire"
    BY <1>1, <1>49 DEF FinishDies, Retry
  <2> QED BY <1>1, <1>2, <1>49, <2>1 DEF FinishDies
<1>45. ASSUME UNCHANGED vars PROVE SettledInv'
  <2>1. /\ status' = status /\ at' = at /\ step' = step /\ ledger' = ledger /\ tracked' = tracked
        /\ stopping' = stopping /\ stopped' = stopped /\ cut' = cut
    BY <1>45 DEF vars
  <2> QED BY <1>1, <1>2, <2>1
<1> HIDE DEF RowInv, HeldInv, StepInv, SettledInv, RequestInv, WorkflowInv, Statuses, FINISHED, Going, SENT
<1>46. ASSUME NEW s \in Sends, Request(s) PROVE SettledInv'
  BY <1>11, <1>12, <1>13, <1>14, <1>15, <1>16, <1>17, <1>18, <1>19, <1>46 DEF Request
<1>47. ASSUME NEW s \in Sends, Workflow(s) PROVE SettledInv'
  BY <1>21, <1>22, <1>23, <1>24, <1>25, <1>26, <1>27, <1>28, <1>29, <1>30, <1>31, <1>32, <1>33, <1>34,
     <1>35, <1>36, <1>37, <1>38, <1>39, <1>40,
     <1>47 DEF Workflow
<1> QED
  BY <1>10, <1>20, <1>41, <1>42, <1>43, <1>44, <1>48, <1>49, <1>45, <1>46, <1>47 DEF Next

LEMMA SettledInit == Init => StepInv /\ SettledInv
BY DEF Init, StepInv, SettledInv, Unsettled, FINISHED, SENT

LEMMA SettledAlways == Spec => [](IInv /\ Books /\ StepInv /\ SettledInv)
<1>1. IInv /\ Books /\ StepInv /\ SettledInv /\ [Next]_vars => (StepInv /\ SettledInv)'
  BY StepNext, SettledNext
<1> QED BY <1>1, SettledInit, BooksAlways, PTL DEF Spec

(* Once a Workflow is over its row says how the send ended, the plan's     *)
(* send is used exactly when something may have gone out, and a confirmed  *)
(* application is in Tracker: under every fault and with Pause, except     *)
(* where a finish was cut behind its first statement or Pause gave back    *)
(* the allowance of a send that went on.                                   *)
THEOREM Settled == Spec => []BooksSettled
<1>1. SettledInv /\ Books => BooksSettled
  BY SendsAssumption DEF Books, HeldInv, SettledInv, BooksSettled, FINISHED, Going, SENT
<1> QED BY <1>1, SettledAlways, PTL

-----------------------------------------------------------------------------
(* The kept form: what finish keeps is what its Workflow lets go of.       *)
LetGoInv ==
    \A s \in Sends :
        /\ at[s] \in {"finish", "settle"} /\ keep[s] # NoSession =>
             step[s] = "run" /\ end[s] \in {"needs_you", "ready"}
        /\ at[s] \in {"settle", "drop"} => session[s] \in {keep[s], NoSession}
        /\ at[s] \in {"sleep", "letgo"} => status[s] \in {"needs_you", "ready"}
        /\ at[s] = "end" /\ s \notin cut \cup stopped => session[s] = NoSession

LEMMA LetGoNext ==
    ASSUME IInv, Books, StepInv, SettledInv, LetGoInv, [Next]_vars
    PROVE  LetGoInv'
<1>1. /\ status \in [Sends -> Statuses \cup {"none"}]
      /\ session \in [Sends -> Sessions \cup {NoSession}]
      /\ req \in [Sends -> ReqStates]
      /\ cand \in [Sends -> Sends \cup {NoSend}]
      /\ at \in [Sends -> Places]
      /\ step \in [Sends -> {"run", "enter", "expire", "fail"}]
      /\ page \in [Sends -> Sessions \cup {NoSession}]
      /\ end \in [Sends -> FINISHED]
      /\ keep \in [Sends -> Sessions \cup {NoSession}]
  BY DEF IInv, TypeOK
<1>2. /\ RowInv /\ StepInv /\ SettledInv /\ LetGoInv /\ RequestInv
  BY DEF Books, IInv
<1> USE DEF rows, books, request, flow, codes, history
<1> USE DEF RowInv, StepInv, SettledInv, LetGoInv, RequestInv, Unsettled, FINISHED, SENT
<1>10. ASSUME NEW s \in Sends, Check(s) PROVE LetGoInv'
  BY <1>1, <1>2, <1>10 DEF Check, Turn
<1>11. ASSUME NEW s \in Sends, Reserve(s) PROVE LetGoInv'
  BY <1>1, <1>2, <1>11 DEF Reserve, Turn
<1>12. ASSUME NEW s \in Sends, FindKept(s) PROVE LetGoInv'
  BY <1>1, <1>2, <1>12 DEF FindKept, Turn
<1>13. ASSUME NEW s \in Sends, TakeOver(s) PROVE LetGoInv'
  BY <1>1, <1>2, <1>13 DEF TakeOver, Turn
<1>14. ASSUME NEW s \in Sends, Insert(s) PROVE LetGoInv'
  BY <1>1, <1>2, <1>14 DEF Insert, Turn
<1>15. ASSUME NEW s \in Sends, Create(s) PROVE LetGoInv'
  BY <1>1, <1>2, <1>15 DEF Create, Turn, Goto
<1>16. ASSUME NEW s \in Sends, CreateFails(s) PROVE LetGoInv'
  BY <1>1, <1>2, <1>16 DEF CreateFails, Turn
<1>17. ASSUME NEW s \in Sends, Unstarted(s) PROVE LetGoInv'
  BY <1>1, <1>2, <1>17 DEF Unstarted, Turn
<1>18. ASSUME NEW s \in Sends, Refund(s) PROVE LetGoInv'
  BY <1>1, <1>2, <1>18 DEF Refund, Turn
<1>19. ASSUME NEW s \in Sends, Record(s) PROVE LetGoInv'
  BY <1>1, <1>2, <1>19 DEF Record, Turn
<1>20. ASSUME NEW s \in Sends, Load(s) PROVE LetGoInv'
  BY <1>1, <1>2, <1>20 DEF Load, EndAs, Goto
<1>21. ASSUME NEW s \in Sends, Claim(s) PROVE LetGoInv'
  BY <1>1, <1>2, <1>21 DEF Claim, Retry
<1>22. ASSUME NEW s \in Sends, Open(s) PROVE LetGoInv'
  BY <1>1, <1>2, <1>22 DEF Open, EndAs, Goto
<1>23. ASSUME NEW s \in Sends, Fill(s) PROVE LetGoInv'
  BY <1>1, <1>2, <1>23 DEF Fill, EndAs, Goto
<1>24. ASSUME NEW s \in Sends, Mark(s) PROVE LetGoInv'
  BY <1>1, <1>2, <1>24 DEF Mark, Goto
<1>25. ASSUME NEW s \in Sends, Press(s) PROVE LetGoInv'
  BY <1>1, <1>2, <1>25 DEF Press, RecordSubmit, EndAs, Goto
<1>26. ASSUME NEW s \in Sends, Note(s) PROVE LetGoInv'
  BY <1>1, <1>2, <1>26 DEF Note, Goto
<1>27. ASSUME NEW s \in Sends, Noted(s) PROVE LetGoInv'
  BY <1>1, <1>2, <1>27 DEF Noted, Goto
<1>28. ASSUME NEW s \in Sends, Finish(s) PROVE LetGoInv'
  BY <1>1, <1>2, <1>28 DEF Finish, Goto
<1>29. ASSUME NEW s \in Sends, Settle(s) PROVE LetGoInv'
  BY <1>1, <1>2, <1>29 DEF Settle, Goto, AfterFinish, Releases
<1>30. ASSUME NEW s \in Sends, Wake(s) PROVE LetGoInv'
  BY <1>1, <1>2, <1>30 DEF Wake, Goto
<1>31. ASSUME NEW s \in Sends, LetGo(s) PROVE LetGoInv'
  BY <1>1, <1>2, <1>31 DEF LetGo, Goto
<1>32. ASSUME NEW s \in Sends, Drop(s) PROVE LetGoInv'
  BY <1>1, <1>2, <1>32 DEF Drop, Goto, StillHas
<1>33. ASSUME NEW s \in Sends, CodeComes(s) PROVE LetGoInv'
  BY <1>1, <1>2, <1>33 DEF CodeComes, Goto
<1>34. ASSUME NEW s \in Sends, CodeTimesOut(s) PROVE LetGoInv'
  BY <1>1, <1>2, <1>34 DEF CodeTimesOut, Goto
<1>35. ASSUME NEW s \in Sends, Enter(s) PROVE LetGoInv'
  BY <1>1, <1>2, <1>35 DEF Enter, Goto
<1>36. ASSUME NEW s \in Sends, Retype(s) PROVE LetGoInv'
  BY <1>1, <1>2, <1>36 DEF Retype, Goto
<1>37. ASSUME NEW s \in Sends, TypeIn(s) PROVE LetGoInv'
  BY <1>1, <1>2, <1>37 DEF TypeIn, RecordSubmit, EndAs, Goto
<1>38. ASSUME NEW s \in Sends, Expire(s) PROVE LetGoInv'
  BY <1>1, <1>2, <1>38 DEF Expire, Goto
<1>39. ASSUME NEW s \in Sends, Fail(s) PROVE LetGoInv'
  BY <1>1, <1>2, <1>39 DEF Fail, EndAs, Goto
<1>40. ASSUME NEW s \in Sends, RequestDies(s) PROVE LetGoInv'
  BY <1>1, <1>2, <1>40 DEF RequestDies, ReqStates
<1>41. ASSUME NEW s \in Sends, AttemptDies(s) PROVE LetGoInv'
  BY <1>1, <1>2, <1>41 DEF AttemptDies, Retry
<1>42. ASSUME NEW s \in Sends, EmailCode(s) \/ TypeCode(s) PROVE LetGoInv'
  BY <1>1, <1>2, <1>42 DEF EmailCode, TypeCode, DeliverCode
<1>43. ASSUME NEW s \in Sends, Stop(s) PROVE LetGoInv'
  BY <1>1, <1>2, <1>43 DEF Stop
<1>44. ASSUME NEW s \in Sends, GiveBack(s) PROVE LetGoInv'
  BY <1>1, <1>2, <1>44 DEF GiveBack
<1>48. ASSUME Pause PROVE LetGoInv'
  BY <1>1, <1>2, <1>48 DEF Pause
<1>49. ASSUME NEW s \in Sends, FinishDies(s) PROVE LetGoInv'
  <2>1. PICK to \in {"run", "fail", "expire"} : at' = [at EXCEPT ![s] = to]
    BY <1>1, <1>49 DEF FinishDies, Retry
  <2> QED BY <1>1, <1>2, <1>49, <2>1 DEF FinishDies
<1>45. ASSUME UNCHANGED vars PROVE LetGoInv'
  <2>1. /\ status' = status /\ session' = session /\ at' = at
        /\ step' = step /\ end' = end /\ keep' = keep /\ stopped' = stopped /\ cut' = cut
    BY <1>45 DEF vars
  <2> QED BY <1>1, <1>2, <2>1
<1> HIDE DEF RowInv, StepInv, SettledInv, LetGoInv, RequestInv, Unsettled, FINISHED, SENT
<1>46. ASSUME NEW s \in Sends, Request(s) PROVE LetGoInv'
  BY <1>11, <1>12, <1>13, <1>14, <1>15, <1>16, <1>17, <1>18, <1>19, <1>46 DEF Request
<1>47. ASSUME NEW s \in Sends, Workflow(s) PROVE LetGoInv'
  BY <1>20, <1>21, <1>22, <1>23, <1>24, <1>25, <1>26, <1>27, <1>28, <1>29, <1>30, <1>31, <1>32, <1>33,
     <1>34, <1>35, <1>36, <1>37, <1>38, <1>39, <1>47 DEF Workflow
<1> QED
  BY <1>10, <1>40, <1>41, <1>42, <1>43, <1>44, <1>48, <1>49, <1>45, <1>46, <1>47 DEF Next

(* A form kept open is let go of, under every fault and with Pause: a      *)
(* Workflow that is over leaves no browser in its row, unless its finish   *)
(* was cut behind its first statement or Pause ended the row under it.     *)
THEOREM LetGoOf == Spec => []KeptFormLetGo
<1>1. Init => LetGoInv
  BY DEF Init, LetGoInv
<1>2. IInv /\ Books /\ StepInv /\ SettledInv /\ LetGoInv /\ [Next]_vars => LetGoInv'
  BY LetGoNext
<1>3. LetGoInv => KeptFormLetGo
  BY DEF LetGoInv, KeptFormLetGo
<1> QED BY <1>1, <1>2, <1>3, SettledAlways, PTL DEF Spec

-----------------------------------------------------------------------------
(* Browsers: the places where a page is open, and whose browser is free.   *)
PagePlaces == PageOpen /\ TookFrom /\ FoundKept /\ FinishOpen

LEMMA PlacesNext ==
    ASSUME IInv, PagePlaces, [Next]_vars
    PROVE  PagePlaces'
<1>1. /\ status \in [Sends -> Statuses \cup {"none"}]
      /\ session \in [Sends -> Sessions \cup {NoSession}]
      /\ req \in [Sends -> ReqStates]
      /\ cand \in [Sends -> Sends \cup {NoSend}]
      /\ took \in [Sends -> Sessions \cup {NoSession}]
      /\ at \in [Sends -> Places]
      /\ step \in [Sends -> {"run", "enter", "expire", "fail"}]
      /\ page \in [Sends -> Sessions \cup {NoSession}]
      /\ end \in [Sends -> FINISHED]
      /\ keep \in [Sends -> Sessions \cup {NoSession}]
  BY DEF IInv, TypeOK
<1>2. /\ PageOpen /\ TookFrom /\ FoundKept /\ FinishOpen /\ RequestInv /\ WorkflowInv
  BY DEF PagePlaces, IInv
<1> USE DEF rows, books, request, flow, codes, history
<1> USE DEF PagePlaces, PageOpen, TookFrom, FoundKept, FinishOpen, RequestInv, WorkflowInv, FINISHED, SENT
<1>10. ASSUME NEW s \in Sends, Check(s) PROVE PagePlaces'
  BY <1>1, <1>2, <1>10 DEF Check, Turn
<1>11. ASSUME NEW s \in Sends, Reserve(s) PROVE PagePlaces'
  BY <1>1, <1>2, <1>11 DEF Reserve, Turn
<1>12. ASSUME NEW s \in Sends, FindKept(s) PROVE PagePlaces'
  BY <1>1, <1>2, <1>12 DEF FindKept, Turn, Kept
<1>13. ASSUME NEW s \in Sends, TakeOver(s) PROVE PagePlaces'
  BY <1>1, <1>2, <1>13 DEF TakeOver, Turn
<1>14. ASSUME NEW s \in Sends, Insert(s) PROVE PagePlaces'
  BY <1>1, <1>2, <1>14 DEF Insert, Turn
<1>15. ASSUME NEW s \in Sends, Create(s) PROVE PagePlaces'
  BY <1>1, <1>2, <1>15 DEF Create, Turn, Goto
<1>16. ASSUME NEW s \in Sends, CreateFails(s) PROVE PagePlaces'
  BY <1>1, <1>2, <1>16 DEF CreateFails, Turn
<1>17. ASSUME NEW s \in Sends, Unstarted(s) PROVE PagePlaces'
  BY <1>1, <1>2, <1>17 DEF Unstarted, Turn
<1>18. ASSUME NEW s \in Sends, Refund(s) PROVE PagePlaces'
  BY <1>1, <1>2, <1>18 DEF Refund, Turn
<1>19. ASSUME NEW s \in Sends, Record(s) PROVE PagePlaces'
  BY <1>1, <1>2, <1>19 DEF Record, Turn
<1>20. ASSUME NEW s \in Sends, Load(s) PROVE PagePlaces'
  BY <1>1, <1>2, <1>20 DEF Load, EndAs, Goto
<1>21. ASSUME NEW s \in Sends, Claim(s) PROVE PagePlaces'
  BY <1>1, <1>2, <1>21 DEF Claim, Retry
<1>22. ASSUME NEW s \in Sends, Open(s) PROVE PagePlaces'
  BY <1>1, <1>2, <1>22 DEF Open, EndAs, Goto
<1>23. ASSUME NEW s \in Sends, Fill(s) PROVE PagePlaces'
  BY <1>1, <1>2, <1>23 DEF Fill, EndAs, Goto
<1>24. ASSUME NEW s \in Sends, Mark(s) PROVE PagePlaces'
  BY <1>1, <1>2, <1>24 DEF Mark, Goto
<1>25. ASSUME NEW s \in Sends, Press(s) PROVE PagePlaces'
  BY <1>1, <1>2, <1>25 DEF Press, RecordSubmit, EndAs, Goto
<1>26. ASSUME NEW s \in Sends, Note(s) PROVE PagePlaces'
  BY <1>1, <1>2, <1>26 DEF Note, Goto
<1>27. ASSUME NEW s \in Sends, Noted(s) PROVE PagePlaces'
  BY <1>1, <1>2, <1>27 DEF Noted, Goto
<1>28. ASSUME NEW s \in Sends, Finish(s) PROVE PagePlaces'
  BY <1>1, <1>2, <1>28 DEF Finish, Goto
<1>29. ASSUME NEW s \in Sends, Settle(s) PROVE PagePlaces'
  BY <1>1, <1>2, <1>29 DEF Settle, Goto, AfterFinish, Releases
<1>30. ASSUME NEW s \in Sends, Wake(s) PROVE PagePlaces'
  BY <1>1, <1>2, <1>30 DEF Wake, Goto
<1>31. ASSUME NEW s \in Sends, LetGo(s) PROVE PagePlaces'
  BY <1>1, <1>2, <1>31 DEF LetGo, Goto
<1>32. ASSUME NEW s \in Sends, Drop(s) PROVE PagePlaces'
  BY <1>1, <1>2, <1>32 DEF Drop, Goto
<1>33. ASSUME NEW s \in Sends, CodeComes(s) PROVE PagePlaces'
  BY <1>1, <1>2, <1>33 DEF CodeComes, Goto
<1>34. ASSUME NEW s \in Sends, CodeTimesOut(s) PROVE PagePlaces'
  BY <1>1, <1>2, <1>34 DEF CodeTimesOut, Goto
<1>35. ASSUME NEW s \in Sends, Enter(s) PROVE PagePlaces'
  BY <1>1, <1>2, <1>35 DEF Enter, Goto
<1>36. ASSUME NEW s \in Sends, Retype(s) PROVE PagePlaces'
  BY <1>1, <1>2, <1>36 DEF Retype, Goto
<1>37. ASSUME NEW s \in Sends, TypeIn(s) PROVE PagePlaces'
  BY <1>1, <1>2, <1>37 DEF TypeIn, RecordSubmit, EndAs, Goto
<1>38. ASSUME NEW s \in Sends, Expire(s) PROVE PagePlaces'
  BY <1>1, <1>2, <1>38 DEF Expire, Goto
<1>39. ASSUME NEW s \in Sends, Fail(s) PROVE PagePlaces'
  BY <1>1, <1>2, <1>39 DEF Fail, EndAs, Goto
<1>40. ASSUME NEW s \in Sends, RequestDies(s) PROVE PagePlaces'
  BY <1>1, <1>2, <1>40 DEF RequestDies, ReqStates
<1>41. ASSUME NEW s \in Sends, AttemptDies(s) PROVE PagePlaces'
  BY <1>1, <1>2, <1>41 DEF AttemptDies, Retry
<1>42. ASSUME NEW s \in Sends, FinishDies(s) PROVE PagePlaces'
  <2>1. PICK to \in {"run", "fail", "expire"} : at' = [at EXCEPT ![s] = to]
    BY <1>1, <1>42 DEF FinishDies, Retry
  <2> QED BY <1>1, <1>2, <1>42, <2>1 DEF FinishDies
<1>43. ASSUME NEW s \in Sends, EmailCode(s) \/ TypeCode(s) PROVE PagePlaces'
  BY <1>1, <1>2, <1>43 DEF EmailCode, TypeCode, DeliverCode
<1>44. ASSUME NEW s \in Sends, Stop(s) PROVE PagePlaces'
  BY <1>1, <1>2, <1>44 DEF Stop
<1>45. ASSUME NEW s \in Sends, GiveBack(s) PROVE PagePlaces'
  BY <1>1, <1>2, <1>45 DEF GiveBack
<1>46. ASSUME Pause \/ UNCHANGED vars PROVE PagePlaces'
  <2>1. status' = status /\ req' = req /\ cand' = cand /\ took' = took /\ at' = at /\ page' = page
    BY <1>46 DEF Pause, vars
  <2> QED BY <1>1, <1>2, <2>1
<1> HIDE DEF PagePlaces, PageOpen, TookFrom, FoundKept, FinishOpen, RequestInv, WorkflowInv
<1>47. ASSUME NEW s \in Sends, Request(s) PROVE PagePlaces'
  BY <1>11, <1>12, <1>13, <1>14, <1>15, <1>16, <1>17, <1>18, <1>19, <1>47 DEF Request
<1>48. ASSUME NEW s \in Sends, Workflow(s) PROVE PagePlaces'
  BY <1>20, <1>21, <1>22, <1>23, <1>24, <1>25, <1>26, <1>27, <1>28, <1>29, <1>30, <1>31, <1>32, <1>33,
     <1>34, <1>35, <1>36, <1>37, <1>38, <1>39,
     <1>48 DEF Workflow
<1> QED
  BY <1>10, <1>40, <1>41, <1>42, <1>43, <1>44, <1>45, <1>46, <1>47, <1>48 DEF Next

(* A step of one send keeps what the others hold, and closes only its own. *)
OwnStep(s) ==
    /\ \A t \in Sends \ {s} : page'[t] = page[t] /\ Holds(t)' = Holds(t)
    /\ Holds(s)' \subseteq Holds(s)
    /\ closed' \subseteq closed \cup Holds(s)
    /\ page'[s] \notin closed'
    /\ \A r \in Sends, n \in 0 .. RunRetries : OpenedBy(r, n) => OpenedBy(r, n)'

Owned == Apart /\ NoOpenPageClosed /\ Numbered

LEMMA NoSessionIsNone == NoSession \notin Sessions
BY SendsAssumption DEF Sessions, RunRetries

LEMMA OwnKeeps ==
    ASSUME TypeOK, Owned, NEW s \in Sends, OwnStep(s)
    PROVE  Owned'
<1>1. Apart'
  BY DEF Owned, Apart, OwnStep
<1>2. NoOpenPageClosed'
  <2> SUFFICES ASSUME NEW t \in Sends, t # s PROVE page'[t] \notin closed'
    BY DEF NoOpenPageClosed, OwnStep
  <2>1. page'[t] = page[t] /\ closed' \subseteq closed \cup Holds(s) /\ page[t] \notin closed
    BY DEF OwnStep, Owned, NoOpenPageClosed
  <2>2. page[t] = NoSession \/ page[t] \in Holds(t)
    BY DEF Holds
  <2>3. Holds(s) \cap Holds(t) = {} /\ NoSession \notin Holds(s)
    BY DEF Owned, Apart, Holds
  <2> QED BY <2>1, <2>2, <2>3
<1>3. Numbered'
  <2> SUFFICES ASSUME NEW r \in Sends, NEW n \in 0 .. RunRetries
               PROVE  /\ <<r, n>> \in closed' => OpenedBy(r, n)'
                      /\ \A t \in Sends : <<r, n>> \in Holds(t)' => OpenedBy(r, n)'
    BY DEF Numbered
  <2>1. \A t \in Sends : Holds(t)' \subseteq Holds(t)
    BY DEF OwnStep
  <2>2. closed' \subseteq closed \cup Holds(s)
    BY DEF OwnStep
  <2>3. OpenedBy(r, n) => OpenedBy(r, n)'
    BY DEF OwnStep
  <2>4. /\ <<r, n>> \in closed => OpenedBy(r, n)
        /\ \A t \in Sends : <<r, n>> \in Holds(t) => OpenedBy(r, n)
    BY DEF Owned, Numbered
  <2> QED BY <2>1, <2>2, <2>3, <2>4
<1> QED BY <1>1, <1>2, <1>3 DEF Owned

(* Every step but Open and TakeOver is such a step. *)
LEMMA OwnSteps ==
    ASSUME IInv, PagePlaces, Owned, NEW s \in Sends,
           \/ Check(s) \/ (Request(s) /\ ~TakeOver(s))
           \/ (Workflow(s) /\ ~Open(s))
           \/ RequestDies(s) \/ AttemptDies(s) \/ FinishDies(s) \/ Stop(s) \/ GiveBack(s)
    PROVE  OwnStep(s)
<1>1. /\ session \in [Sends -> Sessions \cup {NoSession}]
      /\ req \in [Sends -> ReqStates]
      /\ took \in [Sends -> Sessions \cup {NoSession}]
      /\ at \in [Sends -> Places]
      /\ step \in [Sends -> {"run", "enter", "expire", "fail"}]
      /\ tries \in [Sends -> 0 .. RunRetries]
      /\ page \in [Sends -> Sessions \cup {NoSession}]
      /\ keep \in [Sends -> Sessions \cup {NoSession}]
      /\ closed \subseteq Sessions
  BY DEF IInv, TypeOK
<1>2. /\ PageOpen /\ TookFrom /\ RequestInv /\ NoOpenPageClosed /\ NoSession \notin closed
  BY <1>1, NoSessionIsNone DEF PagePlaces, Owned, IInv
<1> USE DEF rows, books, request, flow, codes, history
<1> USE DEF OwnStep, Holds, OpenedBy, BeforeOpen, PageOpen, TookFrom, RequestInv, NoOpenPageClosed
<1>10. ASSUME Check(s) PROVE OwnStep(s)
  BY <1>1, <1>2, <1>10 DEF Check, Turn
<1>11. ASSUME Reserve(s) PROVE OwnStep(s)
  BY <1>1, <1>2, <1>11 DEF Reserve, Turn
<1>12. ASSUME FindKept(s) PROVE OwnStep(s)
  BY <1>1, <1>2, <1>12 DEF FindKept, Turn
<1>13. ASSUME Insert(s) PROVE OwnStep(s)
  BY <1>1, <1>2, <1>13 DEF Insert, Turn
<1>14. ASSUME Create(s) PROVE OwnStep(s)
  BY <1>1, <1>2, <1>14 DEF Create, Turn, Goto
<1>15. ASSUME CreateFails(s) PROVE OwnStep(s)
  BY <1>1, <1>2, <1>15 DEF CreateFails, Turn
<1>16. ASSUME Unstarted(s) PROVE OwnStep(s)
  BY <1>1, <1>2, <1>16 DEF Unstarted, Turn
<1>17. ASSUME Refund(s) PROVE OwnStep(s)
  BY <1>1, <1>2, <1>17 DEF Refund, Turn
<1>18. ASSUME Record(s) PROVE OwnStep(s)
  BY <1>1, <1>2, <1>18 DEF Record, Turn
<1>19. ASSUME Load(s) PROVE OwnStep(s)
  BY <1>1, <1>2, <1>19 DEF Load, EndAs, Goto, Closing
<1>20. ASSUME Claim(s) PROVE OwnStep(s)
  BY <1>1, <1>2, <1>20 DEF Claim, Retry, RunRetries
<1>21. ASSUME Fill(s) PROVE OwnStep(s)
  BY <1>1, <1>2, <1>21 DEF Fill, EndAs, Goto, Closing
<1>22. ASSUME Mark(s) PROVE OwnStep(s)
  BY <1>1, <1>2, <1>22 DEF Mark, Goto
<1>23. ASSUME Press(s) PROVE OwnStep(s)
  BY <1>1, <1>2, <1>23 DEF Press, RecordSubmit, EndAs, Goto, Closing
<1>24. ASSUME Note(s) PROVE OwnStep(s)
  BY <1>1, <1>2, <1>24 DEF Note, Goto
<1>25. ASSUME Noted(s) PROVE OwnStep(s)
  BY <1>1, <1>2, <1>25 DEF Noted, Goto
<1>26. ASSUME Finish(s) PROVE OwnStep(s)
  BY <1>1, <1>2, <1>26 DEF Finish, Goto
<1>27. ASSUME Settle(s) PROVE OwnStep(s)
  BY <1>1, <1>2, <1>27 DEF Settle, Goto, AfterFinish, Releases
<1>28. ASSUME Wake(s) PROVE OwnStep(s)
  BY <1>1, <1>2, <1>28 DEF Wake, Goto
<1>29. ASSUME LetGo(s) PROVE OwnStep(s)
  BY <1>1, <1>2, <1>29 DEF LetGo, Goto
<1>30. ASSUME Drop(s) PROVE OwnStep(s)
  BY <1>1, <1>2, <1>30 DEF Drop, Goto, StillHas, Closing
<1>31. ASSUME CodeComes(s) PROVE OwnStep(s)
  BY <1>1, <1>2, <1>31 DEF CodeComes, Goto
<1>32. ASSUME CodeTimesOut(s) PROVE OwnStep(s)
  BY <1>1, <1>2, <1>32 DEF CodeTimesOut, Goto
<1>33. ASSUME Enter(s) PROVE OwnStep(s)
  BY <1>1, <1>2, <1>33 DEF Enter, Goto
<1>34. ASSUME Retype(s) PROVE OwnStep(s)
  BY <1>1, <1>2, <1>34 DEF Retype, Goto
<1>35. ASSUME TypeIn(s) PROVE OwnStep(s)
  BY <1>1, <1>2, <1>35 DEF TypeIn, RecordSubmit, EndAs, Goto, Closing
<1>36. ASSUME Expire(s) PROVE OwnStep(s)
  BY <1>1, <1>2, <1>36 DEF Expire, Goto, Closing
<1>37. ASSUME Fail(s) PROVE OwnStep(s)
  BY <1>1, <1>2, <1>37 DEF Fail, EndAs, Goto, Closing
<1>38. ASSUME RequestDies(s) PROVE OwnStep(s)
  BY <1>1, <1>2, <1>38 DEF RequestDies, ReqStates
<1>39. ASSUME AttemptDies(s) PROVE OwnStep(s)
  BY <1>1, <1>2, <1>39 DEF AttemptDies, Retry, Closing, RunRetries
<1>40. ASSUME FinishDies(s) PROVE OwnStep(s)
  <2>1. CASE step[s] = "run" /\ tries[s] < RunRetries
    BY <1>1, <1>2, <1>40, <2>1 DEF FinishDies, Retry, RunRetries
  <2>2. CASE ~(step[s] = "run" /\ tries[s] < RunRetries)
    <3>1. PICK to \in {"fail", "expire"} : at' = [at EXCEPT ![s] = to] /\ UNCHANGED tries
      BY <1>1, <1>40, <2>2 DEF FinishDies, Retry
    <3> QED BY <1>1, <1>2, <1>40, <3>1 DEF FinishDies
  <2> QED BY <2>1, <2>2
<1>41. ASSUME Stop(s) PROVE OwnStep(s)
  BY <1>1, <1>2, <1>41 DEF Stop
<1>42. ASSUME GiveBack(s) PROVE OwnStep(s)
  BY <1>1, <1>2, <1>42 DEF GiveBack
<1> HIDE DEF OwnStep, Holds, OpenedBy, BeforeOpen, PageOpen, TookFrom, RequestInv, NoOpenPageClosed
<1>43. ASSUME Request(s), ~TakeOver(s) PROVE OwnStep(s)
  BY <1>11, <1>12, <1>13, <1>14, <1>15, <1>16, <1>17, <1>18, <1>43 DEF Request
<1>44. ASSUME Workflow(s), ~Open(s) PROVE OwnStep(s)
  BY <1>19, <1>20, <1>21, <1>22, <1>23, <1>24, <1>25, <1>26, <1>27, <1>28, <1>29, <1>30, <1>31, <1>32,
     <1>33, <1>34, <1>35, <1>36, <1>37,
     <1>44 DEF Workflow
<1> QED
  BY <1>10, <1>38, <1>39, <1>40, <1>41, <1>42, <1>43, <1>44

(* A step that leaves every browser where it is. *)
LEMMA SameBrowsers ==
    ASSUME Owned, UNCHANGED <<session, page, took, keep, req, at, tries, closed>>
    PROVE  Owned'
<1>1. \A t \in Sends : Holds(t)' = Holds(t) /\ \A n : OpenedBy(t, n)' <=> OpenedBy(t, n)
  BY DEF Holds, OpenedBy
<1> QED BY <1>1 DEF Owned, Apart, NoOpenPageClosed, Numbered

(* A new browser is one no send holds: sessions are numbered by attempt.   *)
LEMMA OpenKeeps ==
    ASSUME IInv, PagePlaces, Owned, NEW s \in Sends, Open(s)
    PROVE  Owned'
<1>1. /\ session \in [Sends -> Sessions \cup {NoSession}]
      /\ at \in [Sends -> Places]
      /\ tries \in [Sends -> 0 .. RunRetries]
      /\ page \in [Sends -> Sessions \cup {NoSession}]
      /\ closed \subseteq Sessions
      /\ at[s] = "open" /\ page[s] = NoSession
  BY DEF IInv, TypeOK, PagePlaces, PageOpen, Open, EndAs, Goto
<1>2. CASE \/ EndAs(s, "open", "needs_you", NoSession)
           \/ /\ session[s] # NoSession /\ session[s] \notin closed
              /\ page' = [page EXCEPT ![s] = session[s]]
              /\ Goto(s, "open", "fill") /\ UNCHANGED <<end, keep, closed>>
  <2>1. CASE EndAs(s, "open", "needs_you", NoSession)
    <3>1. /\ closed' = closed /\ NoSession \notin closed
          /\ page' = page /\ session' = session /\ req' = req /\ took' = took /\ tries' = tries
          /\ keep' = [keep EXCEPT ![s] = NoSession] /\ at' = [at EXCEPT ![s] = "finish"]
          /\ keep \in [Sends -> Sessions \cup {NoSession}]
      BY <1>1, <2>1, NoSessionIsNone DEF IInv, TypeOK, Open, EndAs, Goto, Closing, rows, request
    <3>2. Holds(s)' \subseteq Holds(s) /\ \A t \in Sends \ {s} : Holds(t)' = Holds(t)
      BY <1>1, <3>1 DEF Holds
    <3>3. \A r \in Sends, n \in 0 .. RunRetries : OpenedBy(r, n) => OpenedBy(r, n)'
      BY <1>1, <3>1 DEF OpenedBy, BeforeOpen
    <3>4. OwnStep(s)
      BY <1>1, <3>1, <3>2, <3>3 DEF OwnStep
    <3> QED BY <3>4, OwnKeeps DEF IInv
  <2>2. CASE /\ session[s] # NoSession /\ session[s] \notin closed
             /\ page' = [page EXCEPT ![s] = session[s]]
             /\ Goto(s, "open", "fill") /\ UNCHANGED <<end, keep, closed>>
    <3>1. OwnStep(s)
      BY <1>1, <2>2, NoSessionIsNone
         DEF Open, Goto, OwnStep, Holds, OpenedBy, BeforeOpen, rows, request
    <3> QED BY <3>1, OwnKeeps DEF IInv
  <2> QED BY <1>2, <2>1, <2>2
<1>3. CASE /\ Goto(s, "open", "fill")
           /\ page' = [page EXCEPT ![s] = <<s, tries[s]>>]
           /\ UNCHANGED <<end, keep, closed>>
  <2> DEFINE b == <<s, tries[s]>>
  <2>1. ~OpenedBy(s, tries[s]) /\ tries[s] \in 0 .. RunRetries
    BY <1>1 DEF OpenedBy, BeforeOpen, RunRetries
  <2>2. b \notin closed /\ \A t \in Sends : b \notin Holds(t)
    BY <2>1 DEF Owned, Numbered
  <2>3. /\ \A t \in Sends \ {s} : Holds(t)' = Holds(t) /\ page'[t] = page[t]
        /\ Holds(s)' \subseteq Holds(s) \cup {b}
        /\ page'[s] = b /\ closed' = closed
    BY <1>1, <1>3 DEF Open, Goto, Holds, rows, request
  <2>4. \A r \in Sends, n \in 0 .. RunRetries : OpenedBy(r, n) => OpenedBy(r, n)'
    BY <1>1, <1>3 DEF Open, Goto, OpenedBy, BeforeOpen
  <2>5. OpenedBy(s, tries[s])'
    BY <1>1, <1>3 DEF Open, Goto, OpenedBy, BeforeOpen
  <2>6. Apart'
    BY <2>2, <2>3 DEF Owned, Apart
  <2>7. NoOpenPageClosed'
    BY <2>2, <2>3 DEF Owned, NoOpenPageClosed
  <2>8. Numbered'
    <3> SUFFICES ASSUME NEW r \in Sends, NEW n \in 0 .. RunRetries
                 PROVE  /\ <<r, n>> \in closed' => OpenedBy(r, n)'
                        /\ \A t \in Sends : <<r, n>> \in Holds(t)' => OpenedBy(r, n)'
      BY DEF Numbered
    <3>1. /\ <<r, n>> \in closed => OpenedBy(r, n)
          /\ \A t \in Sends : <<r, n>> \in Holds(t) => OpenedBy(r, n)
      BY DEF Owned, Numbered
    <3>2. <<r, n>> = b => r = s /\ n = tries[s]
      OBVIOUS
    <3>3. <<r, n>> = b => OpenedBy(r, n)'
      <4> SUFFICES ASSUME r = s, n = tries[s] PROVE OpenedBy(r, n)'
        BY <3>2
      <4>1. tries' = tries
        BY DEF Open
      <4> QED BY <2>5, <4>1 DEF OpenedBy
    <3> QED BY <2>3, <2>4, <3>1, <3>3
  <2> QED BY <2>6, <2>7, <2>8 DEF Owned
<1> QED BY <1>2, <1>3 DEF Open

(* The browser leaves the row it was found in, which nobody drives.        *)
LEMMA TakeOverKeeps ==
    ASSUME IInv, PagePlaces, Owned, NEW s \in Sends, TakeOver(s)
    PROVE  Owned'
<1>0. PICK r : r = cand[s]
  OBVIOUS
<1>1. /\ session \in [Sends -> Sessions \cup {NoSession}]
      /\ req \in [Sends -> ReqStates]
      /\ took \in [Sends -> Sessions \cup {NoSession}]
      /\ req[s] = "found" /\ r \in Sends /\ took[s] # NoSession
      /\ status[r] \in {"needs_you", "ready"} /\ status[s] = "none" /\ r # s
      /\ at[r] # "finish" /\ page[r] = NoSession /\ at[s] = "off" /\ page[s] = NoSession
      /\ req[r] # "browser"
  <2>1. /\ req[s] = "found" /\ r \in Sends /\ took[s] # NoSession /\ status[r] \in {"needs_you", "ready"}
    BY <1>0 DEF TakeOver, Turn, PagePlaces, FoundKept
  <2>2. status[s] = "none" /\ at[s] = "off"
    BY <2>1 DEF IInv, RequestInv
  <2>3. at[r] # "finish"
    BY <2>1 DEF PagePlaces, FinishOpen
  <2>4. at[r] \notin {"fill", "mark", "press", "note", "noted", "retype", "type"}
    BY <2>1 DEF IInv, WorkflowInv
  <2>5. page[r] = NoSession /\ page[s] = NoSession
    BY <2>1, <2>2, <2>4 DEF PagePlaces, PageOpen
  <2>6. req[r] # "browser"
    BY <2>1 DEF IInv, RequestInv
  <2> QED BY <2>1, <2>2, <2>3, <2>5, <2>6 DEF IInv, TypeOK
<1>2. /\ page' = page /\ closed' = closed /\ at' = at /\ tries' = tries /\ keep' = keep
      /\ req' = [req EXCEPT ![s] = "browser"]
  BY DEF TakeOver, Turn, flow
<1>3. \A t \in Sends : \A n : OpenedBy(t, n)' <=> OpenedBy(t, n)
  BY <1>2 DEF OpenedBy
<1>4. CASE ~StillHas(r, took[s])
  <2>1. \A t \in Sends : Holds(t)' = Holds(t)
    BY <1>0, <1>1, <1>2, <1>4 DEF TakeOver, Holds
  <2> QED BY <1>2, <1>3, <2>1 DEF Owned, Apart, NoOpenPageClosed, Numbered
<1>5. CASE StillHas(r, took[s])
  <2>1. session[r] = took[s] /\ session' = [session EXCEPT ![r] = NoSession] /\ took' = took
    BY <1>0, <1>5 DEF TakeOver, StillHas
  <2>2. Holds(r) = {took[s]} /\ Holds(r)' = {}
    <3>1. took[s] \in Holds(r)
      BY <1>1, <2>1 DEF Holds
    <3>2. \A b \in Holds(r) : b = took[s]
      BY <1>1, <2>1 DEF Holds
    <3>3. Holds(r)' = {}
      BY <1>1, <1>2, <2>1 DEF Holds
    <3> QED BY <3>1, <3>2, <3>3
  <2>3. Holds(s)' = Holds(s) \cup {took[s]}
    BY <1>1, <1>2, <2>1 DEF Holds
  <2>4. \A t \in Sends \ {r, s} : Holds(t)' = Holds(t)
    BY <1>1, <1>2, <2>1 DEF Holds
  <2>5. Apart'
    <3> SUFFICES ASSUME NEW t \in Sends, NEW u \in Sends, t # u PROVE Holds(t)' \cap Holds(u)' = {}
      BY DEF Apart
    <3>1. took[s] \notin Holds(s) /\ \A v \in Sends \ {r, s} : took[s] \notin Holds(v)
      BY <1>1, <2>2 DEF Owned, Apart
    <3>2. Holds(t) \cap Holds(u) = {}
      BY DEF Owned, Apart
    <3>3. CASE t = r \/ u = r
      BY <2>2, <3>3
    <3>4. CASE t # r /\ u # r /\ t = s
      BY <2>3, <2>4, <3>1, <3>2, <3>4
    <3>5. CASE t # r /\ u # r /\ u = s
      BY <2>3, <2>4, <3>1, <3>2, <3>5
    <3>6. CASE t # r /\ u # r /\ t # s /\ u # s
      BY <2>4, <3>2, <3>6
    <3> QED BY <3>3, <3>4, <3>5, <3>6
  <2>6. \A t \in Sends : \A b \in Holds(t)' : \E u \in Sends : b \in Holds(u)
    <3> SUFFICES ASSUME NEW t \in Sends, NEW b \in Holds(t)' PROVE \E u \in Sends : b \in Holds(u)
      OBVIOUS
    <3>1. CASE t = s
      BY <1>1, <2>2, <2>3, <3>1
    <3>2. CASE t = r
      BY <2>2, <3>2
    <3>3. CASE t # r /\ t # s
      BY <2>4, <3>3
    <3> QED BY <3>1, <3>2, <3>3
  <2>7. Numbered'
    BY <1>2, <1>3, <2>6 DEF Owned, Numbered
  <2> QED BY <1>2, <2>5, <2>7 DEF Owned, NoOpenPageClosed
<1> QED BY <1>4, <1>5

LEMMA OwnedNext ==
    ASSUME IInv, PagePlaces, Owned, [Next]_vars
    PROVE  Owned'
<1>1. TypeOK
  BY DEF IInv
<1>2. ASSUME NEW s \in Sends, EmailCode(s) \/ TypeCode(s) PROVE Owned'
  BY <1>2, SameBrowsers DEF EmailCode, TypeCode, DeliverCode, rows, request, flow
<1>3. ASSUME Pause \/ UNCHANGED vars PROVE Owned'
  BY <1>3, SameBrowsers DEF Pause, vars, rows, request, flow
<1>4. ASSUME NEW s \in Sends, Open(s) \/ TakeOver(s) PROVE Owned'
  BY <1>4, OpenKeeps, TakeOverKeeps
<1>5. ASSUME NEW s \in Sends,
             \/ Check(s) \/ (Request(s) /\ ~TakeOver(s))
             \/ (Workflow(s) /\ ~Open(s))
             \/ RequestDies(s) \/ AttemptDies(s) \/ FinishDies(s) \/ Stop(s) \/ GiveBack(s)
      PROVE  Owned'
  BY <1>1, <1>5, OwnSteps, OwnKeeps
<1> QED BY <1>2, <1>3, <1>4, <1>5, Zenon DEF Next

LEMMA BrowserInit == Init => PagePlaces /\ Owned
<1> SUFFICES ASSUME Init PROVE PagePlaces /\ Owned
  OBVIOUS
<1>1. \A t \in Sends : Holds(t) = {}
  BY DEF Init, Holds
<1>2. PagePlaces
  BY DEF Init, PagePlaces, PageOpen, TookFrom, FoundKept, FinishOpen
<1>3. Owned
  BY <1>1 DEF Init, Owned, Apart, NoOpenPageClosed, Numbered
<1> QED BY <1>2, <1>3

LEMMA BrowsersAlways == Spec => [](IInv /\ PagePlaces /\ Owned)
<1>1. Init => IInv /\ PagePlaces /\ Owned
  BY InvInit, BrowserInit
<1>2. IInv /\ PagePlaces /\ Owned /\ [Next]_vars => (IInv /\ PagePlaces /\ Owned)'
  BY InvNext, PlacesNext, OwnedNext
<1> QED BY <1>1, <1>2, PTL DEF Spec

(* "Only one send can have it": no two sends have, or are about to have,   *)
(* one browser, whatever dies between two awaits.                          *)
THEOREM OneHolder == Spec => []BrowserHasOneSend
<1>1. Owned => BrowserHasOneSend
  <2>1. \A t \in Sends : Has(t) \subseteq Holds(t)
    BY DEF Has, Holds
  <2> QED BY <2>1 DEF Owned, Apart, BrowserHasOneSend
<1> QED BY <1>1, BrowsersAlways, PTL

(* No Workflow closes the browser another send carries on in.              *)
THEOREM PagesStayOpen == Spec => []NoOpenPageClosed
<1>1. Owned => NoOpenPageClosed
  BY DEF Owned
<1> QED BY <1>1, BrowsersAlways, PTL
=============================================================================
