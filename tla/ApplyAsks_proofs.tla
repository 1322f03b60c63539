-------------------------- MODULE ApplyAsks_proofs --------------------------
(***************************************************************************)
(* Proofs about ApplyAsks, for any number of jobs and cycles, any limits   *)
(* and any number of crashes, failed statements and changes of the         *)
(* settings: no job loses both its alert and its ask, and a day has no     *)
(* more asks than its limit but for the named races.                       *)
(***************************************************************************)
EXTENDS ApplyAsks, FiniteSetTheorems, TLAPS

-----------------------------------------------------------------------------
(* The inductive invariants.                                               *)

Locals == [jobs : SUBSET Jobs, todo : SUBSET Jobs, job : SUBSET Jobs,
           auto : BOOLEAN, asking : BOOLEAN, time : Nat]

Places == {"off", "create", "people", "act", "record", "skip", "queue", "restore", "clear"}

Typed ==
    /\ cand \in [Jobs -> {"none", "pending", "sending", "retry", "sent", "skipped"}]
    /\ ask \in [Jobs -> {"none", "checking", "asked", "applied", "dismissed", "skipped", "sent"}]
    /\ check \in [Jobs -> {"none", "running", "push", "quiet", "restore", "done"}]
    /\ at \in [Cycles -> Places] /\ my \in [Cycles -> Locals]
    /\ now \in Nat /\ notify \in [Jobs -> Nat] /\ backlog \subseteq Jobs
    /\ \A c \in Cycles : /\ my[c].job \subseteq my[c].jobs /\ my[c].todo \subseteq my[c].jobs
                         /\ \A i, j \in my[c].job : i = j

Served(j) ==
    \/ cand[j] \in {"pending", "sending", "retry", "sent"}
    \/ ask[j] \in {"asked", "applied", "dismissed", "sent"} \/ j \in sends
    \/ Held(j) \/ j \in lost

(* A job nobody serves is still in the backlog, and no cycle that made its *)
(* alert is going to take it from there.                                   *)
ToCome(j) == j \in backlog /\ \A c \in Cycles : j \in my[c].jobs => at[c] = "create"

(* A job has had an alert once a cycle made it; an automatic send is there *)
(* before its ask; what is pushed was asked.                               *)
Working ==
    /\ \A c \in Cycles : at[c] \notin {"off", "create"} => \A j \in my[c].jobs : cand[j] # "none"
    /\ \A c \in Cycles : at[c] \in {"record", "skip"} /\ my[c].auto => my[c].job \subseteq sends
    /\ \A j \in Jobs : check[j] # "none" => cand[j] # "none"
    /\ \A j \in Jobs : check[j] \in {"push", "quiet"} => ask[j] \in {"asked", "applied", "dismissed", "sent"}

SInv == Typed /\ Working /\ \A j \in Jobs : Served(j) \/ ToCome(j)

Asked(d) == AsksOn(d) \ (moved \cup raced)

(* A cycle about to record an ask still has the room it found, unless      *)
(* another recorded meanwhile.                                             *)
RoomLeft ==
    \A c \in Cycles : at[c] = "record" /\ ~my[c].auto /\ ~(my[c].job \subseteq raced) =>
        Cardinality(Asked(AskDay(my[c].time))) < AsksPerDay

DInv == Typed /\ RoomLeft /\ \A d \in Nat : Cardinality(Asked(d)) <= AsksPerDay

-----------------------------------------------------------------------------
(* Typing.                                                                 *)

Fits(l) ==
    /\ l \in Locals
    /\ l.job \subseteq l.jobs /\ l.todo \subseteq l.jobs
    /\ \A i, j \in l.job : i = j

LEMMA Halves == \A t \in Nat : (t \div 2) \in Nat /\ ((t + 1) \div 2) \in Nat
OBVIOUS

(* What Put leaves of the cycles. *)
LEMMA PutCycle ==
    ASSUME at \in [Cycles -> Places], my \in [Cycles -> Locals],
           NEW c \in Cycles, NEW p \in Places, NEW l \in Locals, Put(c, p, l)
    PROVE  /\ at' \in [Cycles -> Places] /\ my' \in [Cycles -> Locals]
           /\ at'[c] = p /\ my'[c] = l
           /\ \A d \in Cycles \ {c} : at'[d] = at[d] /\ my'[d] = my[d]
<1>1. at' \in [Cycles -> Places] /\ at'[c] = p /\ \A d \in Cycles \ {c} : at'[d] = at[d]
  BY DEF Put
<1>2. my' \in [Cycles -> Locals] /\ my'[c] = l /\ \A d \in Cycles \ {c} : my'[d] = my[d]
  <2> HIDE DEF Locals
  <2> QED BY DEF Put
<1> QED BY <1>1, <1>2

CycleTyped ==
    /\ at \in [Cycles -> Places] /\ my \in [Cycles -> Locals]
    /\ \A c \in Cycles : Fits(my[c])

LEMMA PutTyped ==
    ASSUME CycleTyped, NEW c \in Cycles, NEW p \in Places, NEW l, Fits(l), Put(c, p, l)
    PROVE  CycleTyped'
<1>1. /\ at' \in [Cycles -> Places] /\ my' \in [Cycles -> Locals]
      /\ my'[c] = l /\ \A d \in Cycles \ {c} : my'[d] = my[d]
  <2>1. l \in Locals
    BY DEF Fits
  <2> QED BY <2>1, PutCycle DEF CycleTyped
<1>2. ASSUME NEW d \in Cycles PROVE Fits(my'[d])
  <2>1. CASE d = c
    BY <1>1, <2>1
  <2>2. CASE d # c
    BY <1>1, <2>2 DEF CycleTyped
  <2> QED BY <2>1, <2>2
<1> QED BY <1>1, <1>2 DEF CycleTyped, Fits

LEMMA TypedParts ==
    Typed <=> /\ CycleTyped
              /\ cand \in [Jobs -> {"none", "pending", "sending", "retry", "sent", "skipped"}]
              /\ ask \in [Jobs -> {"none", "checking", "asked", "applied", "dismissed", "skipped", "sent"}]
              /\ check \in [Jobs -> {"none", "running", "push", "quiet", "restore", "done"}]
              /\ now \in Nat /\ notify \in [Jobs -> Nat] /\ backlog \subseteq Jobs
<1> HIDE DEF Locals
<1> QED BY Zenon DEF Typed, CycleTyped, Fits

LEMMA LocalsFit ==
    ASSUME NEW l, Fits(l)
    PROVE  /\ \A j \in l.todo :
                 /\ Fits([l EXCEPT !.todo = @ \ {j}, !.job = {j}])
                 /\ [l EXCEPT !.todo = @ \ {j}, !.job = {j}].jobs = l.jobs
                 /\ [l EXCEPT !.todo = @ \ {j}, !.job = {j}].job = {j}
                 /\ [l EXCEPT !.todo = @ \ {j}, !.job = {j}].auto = l.auto
                 /\ [l EXCEPT !.todo = @ \ {j}, !.job = {j}].time = l.time
           /\ /\ Fits([l EXCEPT !.job = {}])
              /\ [l EXCEPT !.job = {}].jobs = l.jobs
           /\ /\ Fits([l EXCEPT !.todo = {}])
              /\ [l EXCEPT !.todo = {}].jobs = l.jobs
<1>1. ASSUME NEW j \in l.todo
      PROVE  /\ Fits([l EXCEPT !.todo = @ \ {j}, !.job = {j}])
             /\ [l EXCEPT !.todo = @ \ {j}, !.job = {j}].jobs = l.jobs
             /\ [l EXCEPT !.todo = @ \ {j}, !.job = {j}].job = {j}
             /\ [l EXCEPT !.todo = @ \ {j}, !.job = {j}].auto = l.auto
             /\ [l EXCEPT !.todo = @ \ {j}, !.job = {j}].time = l.time
  BY <1>1 DEF Fits, Locals
<1>2. /\ Fits([l EXCEPT !.job = {}]) /\ [l EXCEPT !.job = {}].jobs = l.jobs
      /\ Fits([l EXCEPT !.todo = {}]) /\ [l EXCEPT !.todo = {}].jobs = l.jobs
  BY DEF Fits, Locals
<1> QED BY <1>1, <1>2

LEMMA PeopleFit ==
    ASSUME NEW l, Fits(l), NEW T \in SUBSET l.jobs, NEW a \in BOOLEAN, NEW t \in Nat
    PROVE  Fits([l EXCEPT !.todo = T, !.auto = a, !.time = t])
BY DEF Fits, Locals

LEMMA NothingFits ==
    /\ Fits(Nothing) /\ Nothing.jobs = {}
    /\ \A B \in SUBSET Jobs, a \in BOOLEAN :
         /\ Fits([Nothing EXCEPT !.jobs = B, !.asking = a])
         /\ [Nothing EXCEPT !.jobs = B, !.asking = a].jobs = B
BY DEF Nothing, Fits, Locals

(* A cycle's step: it goes on with its jobs, or is off without any. *)
Goes(c, p, l) ==
    /\ p \in Places /\ Fits(l) /\ Put(c, p, l)
    /\ \/ l.jobs = my[c].jobs /\ p \notin {"off", "create"}
       \/ l = Nothing /\ p = "off"

LEMMA StepGoes ==
    ASSUME Typed, NEW c \in Cycles, Step(c) \/ Dies(c) \/ JobFails(c)
    PROVE  at[c] # "off" /\ \E p, l : Goes(c, p, l)
<1> DEFINE m == my[c]
<1>0. Fits(m) /\ now \in Nat
  BY TypedParts DEF CycleTyped
<1> HIDE DEF m
<1>1. CASE Create(c)
  <2>1. at[c] = "create" /\ Put(c, IF m.asking THEN "people" ELSE "clear", m)
    BY <1>1 DEF Create, m
  <2>2. PICK p \in {"people", "clear"} : p = IF m.asking THEN "people" ELSE "clear"
    OBVIOUS
  <2>3. Goes(c, p, m)
    BY <1>0, <2>1, <2>2, Zenon DEF Goes, Places, m
  <2> QED BY <2>1, <2>3
<1>2. CASE People(c)
  <2>1. PICK T \in SUBSET m.jobs, a \in BOOLEAN :
          at[c] = "people" /\ Put(c, "act", [m EXCEPT !.todo = T, !.auto = a, !.time = now])
    <3>1. /\ at[c] = "people"
          /\ Put(c, "act", [m EXCEPT
                        !.todo = IF mode = "off" \/ paused THEN {} ELSE {j \in m.jobs : Unhandled(j)},
                        !.auto = (mode = "auto"), !.time = now])
      BY <1>2, Zenon DEF People, m
    <3>2. (IF mode = "off" \/ paused THEN {} ELSE {j \in m.jobs : Unhandled(j)}) \in SUBSET m.jobs
      OBVIOUS
    <3>3. (mode = "auto") \in BOOLEAN
      OBVIOUS
    <3> QED BY <3>1, <3>2, <3>3, Zenon
  <2>2. Goes(c, "act", [m EXCEPT !.todo = T, !.auto = a, !.time = now])
    <3>1. /\ Fits([m EXCEPT !.todo = T, !.auto = a, !.time = now])
          /\ [m EXCEPT !.todo = T, !.auto = a, !.time = now].jobs = m.jobs
      <4>1. T \in SUBSET m.jobs /\ a \in BOOLEAN /\ now \in Nat /\ Fits(m)
        BY <1>0, <2>1
      <4>2. Fits([m EXCEPT !.todo = T, !.auto = a, !.time = now])
        BY <4>1, PeopleFit
      <4>3. [m EXCEPT !.todo = T, !.auto = a, !.time = now].jobs = m.jobs
        BY <4>1 DEF Fits, Locals
      <4> QED BY <4>2, <4>3
    <3> QED BY <2>1, <3>1, Zenon DEF Goes, Places, m
  <2> QED BY <2>1, <2>2
<1>3. CASE QueueSend(c) \/ FindRoom(c)
  <2>1. PICK j \in m.todo :
          at[c] = "act" /\ Put(c, "record", [m EXCEPT !.todo = @ \ {j}, !.job = {j}])
    BY <1>3, Zenon DEF QueueSend, FindRoom, m
  <2>2. Goes(c, "record", [m EXCEPT !.todo = @ \ {j}, !.job = {j}])
    BY <1>0, <2>1, LocalsFit, Zenon DEF Goes, Places, m
  <2> QED BY <2>1, <2>2
<1>4. CASE \/ Record(c) \/ Skip(c) \/ QueueCheck(c) \/ QueueRefused(c) \/ Restore(c) \/ JobFails(c)
  <2>1. /\ at[c] # "off"
        /\ \/ Put(c, "act", AtNext(c))
           \/ \E p \in {"skip", "queue", "restore"} : Put(c, p, m)
    BY <1>4 DEF Record, Skip, QueueCheck, QueueRefused, Restore, JobFails, m
  <2>2. Goes(c, "act", AtNext(c)) \/ \E p \in {"skip", "queue", "restore"} : Goes(c, p, m)
    <3>1. Fits(AtNext(c)) /\ AtNext(c).jobs = m.jobs
      BY <1>0, LocalsFit, Zenon DEF AtNext, m
    <3> QED BY <1>0, <2>1, <3>1 DEF Goes, Places, m
  <2> QED BY <2>1, <2>2
<1>5. CASE Done(c)
  <2>1. at[c] = "act" /\ Put(c, "clear", [m EXCEPT !.todo = {}])
    BY <1>5, Zenon DEF Done, m
  <2>2. Goes(c, "clear", [m EXCEPT !.todo = {}])
    BY <1>0, <2>1, LocalsFit, Zenon DEF Goes, Places, m
  <2> QED BY <2>1, <2>2
<1>6. CASE Clear(c) \/ Dies(c)
  <2>1. at[c] # "off" /\ Put(c, "off", Nothing)
    BY <1>6 DEF Clear, Dies
  <2>2. Goes(c, "off", Nothing)
    BY <2>1, NothingFits DEF Goes, Places
  <2> QED BY <2>1, <2>2
<1> QED BY <1>1, <1>2, <1>3, <1>4, <1>5, <1>6 DEF Step

(* What it leaves. *)
LEMMA GoesOn ==
    ASSUME CycleTyped, NEW c \in Cycles, NEW p, NEW l, Goes(c, p, l)
    PROVE  /\ CycleTyped'
           /\ at'[c] = p /\ my'[c] = l
           /\ \/ my'[c].jobs = my[c].jobs /\ at'[c] \notin {"off", "create"}
              \/ my'[c] = Nothing /\ at'[c] = "off" /\ my'[c].jobs = {}
           /\ \A d \in Cycles \ {c} : at'[d] = at[d] /\ my'[d] = my[d]
<1>1. /\ p \in Places /\ Fits(l) /\ l \in Locals /\ Put(c, p, l)
      /\ at \in [Cycles -> Places] /\ my \in [Cycles -> Locals]
  BY Zenon DEF Goes, CycleTyped, Fits
<1>2. CycleTyped'
  BY <1>1, PutTyped, Zenon
<1>3. /\ at'[c] = p /\ my'[c] = l
      /\ \A d \in Cycles \ {c} : at'[d] = at[d] /\ my'[d] = my[d]
  BY <1>1, PutCycle, Zenon
<1>4. \/ my'[c].jobs = my[c].jobs /\ at'[c] \notin {"off", "create"}
      \/ my'[c] = Nothing /\ at'[c] = "off" /\ my'[c].jobs = {}
  BY <1>3, NothingFits, Zenon DEF Goes
<1> QED BY <1>2, <1>3, <1>4, Zenon

LEMMA LoadGoes ==
    ASSUME Typed, NEW c \in Cycles, NEW b \in BOOLEAN, Load(c, b)
    PROVE  /\ CycleTyped'
           /\ at[c] = "off" /\ at'[c] = "create" /\ my'[c].jobs \subseteq backlog
           /\ \A d \in Cycles \ {c} : at'[d] = at[d] /\ my'[d] = my[d]
<1> DEFINE l == [Nothing EXCEPT !.jobs = backlog, !.asking = b]
<1>1. Fits(l) /\ l.jobs = backlog
  BY TypedParts, NothingFits
<1>2. at[c] = "off" /\ Put(c, "create", l)
  BY DEF Load
<1>3. CycleTyped /\ "create" \in Places
  BY TypedParts DEF Places
<1> HIDE DEF l
<1>4. CycleTyped'
  BY <1>1, <1>2, <1>3, PutTyped, Zenon
<1>5. at'[c] = "create" /\ my'[c] = l /\ \A d \in Cycles \ {c} : at'[d] = at[d] /\ my'[d] = my[d]
  BY <1>1, <1>2, <1>3, PutCycle, Zenon DEF CycleTyped, Fits
<1> QED BY <1>1, <1>2, <1>4, <1>5

-----------------------------------------------------------------------------
(* What no step takes back: an alert that was made, an ask that was        *)
(* answered, a send.                                                       *)

Alerting == {"pending", "sending", "retry", "sent"}

Answered == {"asked", "applied", "dismissed", "sent"}

Alerts == {"none", "pending", "sending", "retry", "sent", "skipped"}

Asks == {"none", "checking", "asked", "applied", "dismissed", "skipped", "sent"}

Checks == {"none", "running", "push", "quiet", "restore", "done"}

LEMMA AlertsKeep ==
    ASSUME Typed, [Next]_vars
    PROVE  cand' \in [Jobs -> Alerts] /\ \A j \in Jobs : cand[j] # "none" => cand'[j] # "none"
<1>0. cand \in [Jobs -> Alerts]
  BY TypedParts DEF Alerts
<1>1. ASSUME NEW c \in Cycles, Create(c)
      PROVE  cand' \in [Jobs -> Alerts] /\ \A j \in Jobs : cand[j] # "none" => cand'[j] # "none"
  BY <1>0, <1>1 DEF Create, Alerts
<1>2. ASSUME NEW j \in Jobs, SkipAlert(j) \/ RestoreAlert(j)
      PROVE  cand' \in [Jobs -> Alerts] /\ \A i \in Jobs : cand[i] # "none" => cand'[i] # "none"
  BY <1>0, <1>2 DEF SkipAlert, RestoreAlert, Alerts
<1>3. ASSUME NEW j \in Jobs, Deliver(j) \/ DeliveryFails(j)
      PROVE  cand' \in [Jobs -> Alerts] /\ \A i \in Jobs : cand[i] # "none" => cand'[i] # "none"
  BY <1>0, <1>3 DEF Deliver, DeliveryFails, Alerts
<1>4. \/ UNCHANGED cand
      \/ \E c \in Cycles : Create(c)
      \/ \E j \in Jobs : SkipAlert(j) \/ RestoreAlert(j) \/ Deliver(j) \/ DeliveryFails(j)
  <2>1. ASSUME NEW c \in Cycles, Skip(c) \/ Restore(c)
        PROVE  \E j \in Jobs : SkipAlert(j) \/ RestoreAlert(j)
    <3>1. my[c].job \subseteq Jobs
      BY TypedParts DEF CycleTyped, Fits, Locals
    <3> QED BY <2>1, <3>1 DEF Skip, Restore
  <2> QED BY <2>1 DEF Next, vars, Step, Conclude, Tick, ChangeSettings, Load, People, QueueSend, FindRoom,
              Record, QueueCheck, QueueRefused, Done, Clear, Dies, JobFails, CheckPasses, CheckFails, Push,
              KeepQuiet, HandBack, CheckStops, Dismiss, Apply, AppliesHerself
<1>5. CASE UNCHANGED cand
  BY <1>0, <1>5
<1> QED BY <1>1, <1>2, <1>3, <1>4, <1>5

LEMMA AsksKeep ==
    ASSUME Typed, [Next]_vars
    PROVE  /\ ask' \in [Jobs -> Asks] /\ notify' \in [Jobs -> Nat]
           /\ \A j \in Jobs : ask[j] \in Answered => ask'[j] \in Answered
<1> DEFINE Fine == /\ ask' \in [Jobs -> Asks] /\ notify' \in [Jobs -> Nat]
                   /\ \A j \in Jobs : ask[j] \in Answered => ask'[j] \in Answered
<1>0. ask \in [Jobs -> Asks] /\ notify \in [Jobs -> Nat] /\ now \in Nat
  BY TypedParts DEF Asks
<1>1. ASSUME NEW c \in Cycles, Record(c)
      PROVE  Fine
  <2>1. my[c].time \in Nat /\ my[c].job \subseteq Jobs
    BY TypedParts DEF CycleTyped, Fits, Locals
  <2>2. \/ UNCHANGED <<ask, notify>>
        \/ \E j \in Jobs : /\ ask[j] = "none"
                           /\ \E a \in {"sent", "checking"} : ask' = [ask EXCEPT ![j] = a]
                           /\ notify' = [notify EXCEPT ![j] = AskDay(my[c].time)]
    BY <1>1, <2>1 DEF Record, asks
  <2> QED BY <1>0, <2>1, <2>2, Halves DEF Asks, Answered, AskDay
<1>2. ASSUME NEW j \in Jobs, \/ Skipped(j) /\ UNCHANGED notify
                             \/ CheckPasses(j) \/ Dismiss(j) \/ Apply(j)
      PROVE  Fine
  BY <1>0, <1>2, Halves DEF Skipped, CheckPasses, Dismiss, Apply, Asks, Answered, AskDay
<1>3. \/ UNCHANGED <<ask, notify>>
      \/ \E c \in Cycles : Record(c)
      \/ \E j \in Jobs : \/ Skipped(j) /\ UNCHANGED notify
                         \/ CheckPasses(j) \/ Dismiss(j) \/ Apply(j)
  <2>1. ASSUME NEW c \in Cycles, QueueRefused(c)
        PROVE  \E j \in Jobs : Skipped(j) /\ UNCHANGED notify
    <3>1. my[c].job \subseteq Jobs
      BY TypedParts DEF CycleTyped, Fits, Locals
    <3> QED BY <2>1, <3>1 DEF QueueRefused
  <2> QED BY <2>1 DEF Next, vars, asks, Step, Conclude, Tick, ChangeSettings, Load, Create, People, QueueSend,
              FindRoom, Skip, QueueCheck, Restore, Done, Clear, Dies, JobFails, CheckFails, Push,
              KeepQuiet, HandBack, CheckStops, Deliver, DeliveryFails, AppliesHerself
<1>4. CASE UNCHANGED <<ask, notify>>
  BY <1>0, <1>4
<1> QED BY <1>1, <1>2, <1>3, <1>4

LEMMA ChecksKeep ==
    ASSUME Typed, [Next]_vars
    PROVE  /\ check' \in [Jobs -> Checks]
           /\ sends \subseteq sends' /\ lost \subseteq lost'
           /\ backlog' \subseteq backlog /\ now' \in Nat
<1>0. check \in [Jobs -> Checks] /\ now \in Nat
  BY TypedParts DEF Checks
<1>1. check' \in [Jobs -> Checks]
  <2>1. \/ UNCHANGED check
        \/ \E c \in Cycles : QueueCheck(c)
        \/ \E j \in Jobs, p \in Checks, q \in Checks : At(j, p, q)
    BY DEF Next, vars, Step, Conclude, Tick, ChangeSettings, Load, Create, People, QueueSend, FindRoom,
           Record, Skip, QueueRefused, Restore, Done, Clear, Dies, JobFails, CheckPasses, CheckFails, Push,
           KeepQuiet, HandBack, CheckStops, Dismiss, Apply, Deliver, DeliveryFails, AppliesHerself, Checks
  <2> QED BY <1>0, <2>1 DEF QueueCheck, At, Checks
<1>2. sends \subseteq sends' /\ lost \subseteq lost' /\ backlog' \subseteq backlog
  BY DEF Next, vars, ghosts, Step, Conclude, Tick, ChangeSettings, Load, Create, People, QueueSend, FindRoom,
           Record, Skip, QueueCheck, QueueRefused, Restore, Done, Clear, Dies, JobFails, CheckPasses,
           CheckFails, Push, KeepQuiet, HandBack, CheckStops, Dismiss, Apply, Deliver, DeliveryFails, AppliesHerself
<1>3. now' \in Nat
  <2>1. now' \in {now, now + 1}
    BY Zenon DEF Next, vars, Step, Conclude, Tick, ChangeSettings, Load, Create, People, QueueSend, FindRoom,
           Record, Skip, QueueCheck, QueueRefused, Restore, Done, Clear, Dies, JobFails, CheckPasses,
           CheckFails, Push, KeepQuiet, HandBack, CheckStops, Dismiss, Apply, Deliver, DeliveryFails, AppliesHerself
  <2> QED BY <1>0, <2>1
<1> QED BY <1>1, <1>2, <1>3

(* Who moves. *)
LEMMA WhoMoves ==
    ASSUME [Next]_vars
    PROVE  \/ UNCHANGED cycle
           \/ \E c \in Cycles : Step(c) \/ Dies(c) \/ JobFails(c)
           \/ \E c \in Cycles, b \in BOOLEAN : Load(c, b)
BY DEF Next, vars, Conclude, Tick, ChangeSettings, CheckPasses, CheckFails, Push, KeepQuiet, HandBack,
       CheckStops, Dismiss, Apply, Deliver, DeliveryFails, AppliesHerself

LEMMA TypedNext ==
    ASSUME Typed, [Next]_vars
    PROVE  Typed'
<1>1. CycleTyped'
  <2>0. CycleTyped
    BY TypedParts
  <2>1. CASE \E c \in Cycles : Step(c) \/ Dies(c) \/ JobFails(c)
    BY <2>0, <2>1, StepGoes, GoesOn, Zenon
  <2>2. CASE \E c \in Cycles, b \in BOOLEAN : Load(c, b)
    BY <2>2, LoadGoes
  <2>3. CASE UNCHANGED cycle
    BY <2>0, <2>3 DEF CycleTyped, Fits, cycle
  <2> QED BY <2>1, <2>2, <2>3, WhoMoves
<1>2. backlog' \subseteq Jobs
  BY ChecksKeep, TypedParts
<1>3. /\ CycleTyped'
      /\ cand' \in [Jobs -> Alerts] /\ ask' \in [Jobs -> Asks] /\ check' \in [Jobs -> Checks]
      /\ now' \in Nat /\ notify' \in [Jobs -> Nat] /\ backlog' \subseteq Jobs
  BY <1>1, <1>2, AlertsKeep, AsksKeep, ChecksKeep, Zenon
<1> HIDE DEF Locals
<1> QED BY <1>3, Zenon DEF Typed, CycleTyped, Fits, Alerts, Asks, Checks

-----------------------------------------------------------------------------
(* Working is kept.                                                        *)

(* The alerts of a cycle's jobs were made. *)
LEMMA MadeNext ==
    ASSUME Typed, Working, [Next]_vars,
           NEW c \in Cycles, at'[c] \notin {"off", "create"}, NEW j \in my'[c].jobs
    PROVE  cand'[j] # "none"
<1>0. CycleTyped /\ CycleTyped'
  BY TypedParts, TypedNext DEF Typed, CycleTyped, Fits
<1>1. my[c].jobs \subseteq Jobs /\ my'[c].jobs \subseteq Jobs
  BY <1>0 DEF CycleTyped, Fits, Locals
<1>2. CASE at[c] \notin {"off", "create"} /\ j \in my[c].jobs
  BY <1>1, <1>2, AlertsKeep DEF Working
<1>3. CASE Create(c) /\ j \in my[c].jobs
  <2>1. cand'[j] = IF cand[j] \in {"none", "skipped"} THEN "pending" ELSE cand[j]
    BY <1>1, <1>3 DEF Create
  <2> QED BY <2>1
<1>4. \/ at[c] \notin {"off", "create"} /\ j \in my[c].jobs
      \/ Create(c) /\ j \in my[c].jobs
  <2>1. CASE UNCHANGED <<at[c], my[c]>>
    BY <2>1
  <2>2. CASE \E d \in Cycles, b \in BOOLEAN : Load(d, b)
    BY <2>1, <2>2, LoadGoes
  <2>3. ASSUME NEW d \in Cycles, Step(d) \/ Dies(d) \/ JobFails(d)
        PROVE  UNCHANGED <<at[c], my[c]>> \/ d = c
    <3>1. PICK p, l : Goes(d, p, l)
      BY <2>3, StepGoes
    <3> QED BY <1>0, <3>1, GoesOn
  <2>4. CASE Step(c) \/ Dies(c) \/ JobFails(c)
    <3>1. at[c] # "off" /\ my'[c].jobs = my[c].jobs
      <4>1. PICK p, l : at[c] # "off" /\ Goes(c, p, l)
        BY <2>4, StepGoes
      <4> QED BY <1>0, <4>1, GoesOn
    <3>2. Create(c) \/ at[c] # "create"
      <4>1. CASE Dies(c)
        <5>1. Put(c, "off", Nothing)
          BY <4>1 DEF Dies
        <5>2. at'[c] = "off"
          BY <1>0, <5>1 DEF Put, CycleTyped
        <5> QED BY <5>2
      <4>2. CASE Step(c) \/ JobFails(c)
        BY <4>2 DEF Step, JobFails, People, QueueSend, FindRoom, Record, Skip, QueueCheck, QueueRefused,
                    Restore, Done, Clear
      <4> QED BY <2>4, <4>1, <4>2
    <3> QED BY <3>1, <3>2
  <2> QED BY <2>1, <2>2, <2>3, <2>4, WhoMoves DEF cycle
<1> QED BY <1>2, <1>3, <1>4

(* An automatic send is there before it is recorded. *)
LEMMA SentNext ==
    ASSUME Typed, Working, [Next]_vars,
           NEW c \in Cycles, at'[c] \in {"record", "skip"}, my'[c].auto
    PROVE  my'[c].job \subseteq sends'
<1>0. CycleTyped /\ sends \subseteq sends'
  BY TypedParts, ChecksKeep
<1>1. CASE UNCHANGED <<at[c], my[c]>>
  BY <1>0, <1>1 DEF Working
<1>2. CASE \E d \in Cycles, b \in BOOLEAN : Load(d, b)
  BY <1>1, <1>2, LoadGoes
<1>3. ASSUME NEW d \in Cycles, Step(d) \/ Dies(d) \/ JobFails(d)
      PROVE  UNCHANGED <<at[c], my[c]>> \/ d = c
  <2>1. PICK p, l : Goes(d, p, l)
    BY <1>3, StepGoes
  <2> QED BY <1>0, <2>1, GoesOn
<1>4. CASE Step(c) \/ Dies(c) \/ JobFails(c)
  <2>0. Fits(my[c]) /\ at \in [Cycles -> Places] /\ my \in [Cycles -> Locals]
    BY <1>0 DEF CycleTyped
  <2>1. CASE QueueSend(c)
    <3>1. PICK j \in my[c].todo : /\ sends' = sends \cup {j}
                                  /\ Put(c, "record", [my[c] EXCEPT !.todo = @ \ {j}, !.job = {j}])
      BY <2>1 DEF QueueSend
    <3>2. Put(c, "record", [my[c] EXCEPT !.todo = @ \ {j}, !.job = {j}])
      BY <3>1
    <3>3. my'[c] = [my[c] EXCEPT !.todo = @ \ {j}, !.job = {j}]
      BY <2>0, <3>2, Zenon DEF Put
    <3>4. my'[c].job = {j}
      BY <2>0, <3>3, LocalsFit
    <3> QED BY <3>1, <3>4
  <2>2. CASE FindRoom(c)
    <3>1. PICK j \in my[c].todo : Put(c, "record", [my[c] EXCEPT !.todo = @ \ {j}, !.job = {j}])
      BY <2>2 DEF FindRoom
    <3>2. Put(c, "record", [my[c] EXCEPT !.todo = @ \ {j}, !.job = {j}])
      BY <3>1
    <3>3. my'[c] = [my[c] EXCEPT !.todo = @ \ {j}, !.job = {j}]
      BY <2>0, <3>2, Zenon DEF Put
    <3>4. my'[c].auto = my[c].auto
      BY <2>0, <3>3, LocalsFit
    <3> QED BY <2>2, <3>4 DEF FindRoom
  <2>3. CASE Record(c)
    <3>1. \/ Put(c, "skip", my[c]) \/ Put(c, "act", AtNext(c))
      BY <2>3 DEF Record
    <3>2. at'[c] = "act" \/ my'[c] = my[c]
      BY <2>0, <3>1, Zenon DEF Put
    <3>3. at[c] = "record"
      BY <2>3 DEF Record
    <3> QED BY <1>0, <3>2, <3>3 DEF Working
  <2>4. CASE ~QueueSend(c) /\ ~FindRoom(c) /\ ~Record(c)
    <3>1. \E p \in {"people", "clear", "act", "queue", "restore", "off"} : \E l : Put(c, p, l)
      BY <1>4, <2>4, Zenon DEF Step, Create, People, Skip, QueueCheck, QueueRefused, Restore, Done, Clear, Dies, JobFails
    <3>2. at'[c] \in {"people", "clear", "act", "queue", "restore", "off"}
      BY <2>0, <3>1 DEF Put
    <3> QED BY <3>2
  <2> QED BY <2>1, <2>2, <2>3, <2>4
<1> QED BY <1>1, <1>2, <1>3, <1>4, WhoMoves DEF cycle

(* Who checks, and what is pushed. *)
LEMMA CheckedNext ==
    ASSUME Typed, Working, [Next]_vars, NEW j \in Jobs
    PROVE  /\ check'[j] # "none" => cand'[j] # "none"
           /\ check'[j] \in {"push", "quiet"} => ask'[j] \in Answered
<1>0. /\ check[j] # "none" => cand[j] # "none"
      /\ check[j] \in {"push", "quiet"} => ask[j] \in Answered
      /\ cand[j] # "none" => cand'[j] # "none"
      /\ ask[j] \in Answered => ask'[j] \in Answered
      /\ check \in [Jobs -> Checks] /\ ask \in [Jobs -> Asks] /\ CycleTyped
  BY AlertsKeep, AsksKeep, TypedParts DEF Working, Answered, Checks, Asks
<1>1. CASE check'[j] = check[j]
  BY <1>0, <1>1
<1>2. ASSUME NEW c \in Cycles, QueueCheck(c)
      PROVE  check'[j] = check[j] \/ (check'[j] = "running" /\ cand[j] # "none")
  <2>1. my[c].job \subseteq my[c].jobs
    BY <1>0 DEF CycleTyped, Fits
  <2> QED BY <1>2, <2>1 DEF QueueCheck, Working
<1>3. ASSUME NEW i \in Jobs, \E p, q \in Checks \ {"none"} : q \notin {"push", "quiet"} /\ At(i, p, q)
      PROVE  check'[j] = check[j] \/ (check[j] # "none" /\ check'[j] \notin {"push", "quiet"})
  BY <1>0, <1>3 DEF At
<1>4. ASSUME NEW i \in Jobs, CheckPasses(i) \/ Push(i)
      PROVE  \/ check'[j] = check[j]
             \/ check[j] # "none" /\ ask'[j] \in Answered
  BY <1>0, <1>4 DEF CheckPasses, Push, At, Answered
<1>5. \/ UNCHANGED check
      \/ \E c \in Cycles : QueueCheck(c)
      \/ \E i \in Jobs : \E p, q \in Checks \ {"none"} : q \notin {"push", "quiet"} /\ At(i, p, q)
      \/ \E i \in Jobs : CheckPasses(i) \/ Push(i)
  BY DEF Next, vars, Step, Conclude, Tick, ChangeSettings, Load, Create, People, QueueSend, FindRoom,
         Record, Skip, QueueRefused, Restore, Done, Clear, Dies, JobFails, CheckFails,
         KeepQuiet, HandBack, CheckStops, Dismiss, Apply, Deliver, DeliveryFails, AppliesHerself, Checks
<1> QED BY <1>0, <1>1, <1>2, <1>3, <1>4, <1>5

LEMMA WorkingNext ==
    ASSUME Typed, Working, [Next]_vars
    PROVE  Working'
BY MadeNext, SentNext, CheckedNext DEF Working, Answered

-----------------------------------------------------------------------------
(* A job that is served stays so, or is to come again.                     *)

LEMMA ServedWays ==
    ASSUME NEW j \in Jobs,
           \/ cand'[j] \in Alerting \/ ask'[j] \in Answered \/ j \in sends' \/ j \in lost'
           \/ check'[j] \notin {"none", "done"}
           \/ \E c \in Cycles : j \in my'[c].job /\ at'[c] \in {"queue", "restore"}
    PROVE  Served(j)'
BY DEF Served, Held, Alerting, Answered

LEMMA AlertStays ==
    ASSUME Typed, Working, [Next]_vars, NEW j \in Jobs, cand[j] \in Alerting
    PROVE  Served(j)'
<1>0. /\ CycleTyped /\ cand \in [Jobs -> Alerts] /\ sends \subseteq sends'
      /\ ask[j] \in Answered => ask'[j] \in Answered
  BY TypedParts, AsksKeep, ChecksKeep DEF Alerts
<1>1. CASE cand'[j] \in Alerting
  BY <1>1, ServedWays
<1>2. CASE \E c \in Cycles : Skip(c) /\ j \in my[c].job
  <2>1. PICK c \in Cycles : Skip(c) /\ j \in my[c].job
    BY <1>2
  <2>2. CASE my[c].auto
    <3>1. j \in sends
      BY <2>1, <2>2 DEF Skip, Working
    <3> QED BY <1>0, <3>1, ServedWays
  <2>3. CASE ~my[c].auto
    <3>1. Put(c, "queue", my[c])
      BY <2>1, <2>3 DEF Skip
    <3>2. at'[c] = "queue" /\ my'[c] = my[c]
      BY <1>0, <3>1, Zenon DEF Put, CycleTyped
    <3> QED BY <2>1, <3>2, ServedWays
  <2> QED BY <2>2, <2>3
<1>3. CASE KeepQuiet(j)
  <2>1. ask[j] \in Answered
    BY <1>3 DEF KeepQuiet, At, Working, Answered
  <2> QED BY <1>0, <2>1, ServedWays
<1>4. ASSUME NEW c \in Cycles, Skip(c)
      PROVE  cand'[j] \in Alerting \/ j \in my[c].job
  BY <1>0, <1>4 DEF Skip, SkipAlert, Alerting
<1>5. ASSUME NEW i \in Jobs, KeepQuiet(i)
      PROVE  cand'[j] \in Alerting \/ i = j
  BY <1>0, <1>5 DEF KeepQuiet, SkipAlert, Alerting
<1>6. ASSUME NEW i \in Jobs, Deliver(i) \/ DeliveryFails(i) \/ RestoreAlert(i)
      PROVE  cand'[j] \in Alerting
  BY <1>0, <1>6 DEF Deliver, DeliveryFails, RestoreAlert, Alerting
<1>7. ASSUME NEW c \in Cycles, Create(c)
      PROVE  cand'[j] \in Alerting
  BY <1>0, <1>7 DEF Create, Alerting
<1>8. \/ UNCHANGED cand
      \/ \E c \in Cycles : Skip(c) \/ Create(c)
      \/ \E i \in Jobs : KeepQuiet(i) \/ Deliver(i) \/ DeliveryFails(i) \/ RestoreAlert(i)
  <2>1. ASSUME NEW c \in Cycles, Restore(c)
        PROVE  \E i \in Jobs : RestoreAlert(i)
    <3>1. my[c].job \subseteq Jobs
      BY <1>0 DEF CycleTyped, Fits, Locals
    <3> QED BY <2>1, <3>1 DEF Restore
  <2> QED BY <2>1 DEF Next, vars, Step, Conclude, Tick, ChangeSettings, Load, People, QueueSend, FindRoom,
              Record, QueueCheck, QueueRefused, Done, Clear, Dies, JobFails, CheckPasses, CheckFails, Push,
              HandBack, CheckStops, Dismiss, Apply, AppliesHerself
<1> QED BY <1>1, <1>2, <1>3, <1>4, <1>5, <1>6, <1>7, <1>8

LEMMA CheckStays ==
    ASSUME Typed, Working, [Next]_vars, NEW j \in Jobs, check[j] \notin {"none", "done"}
    PROVE  Served(j)'
<1>0. /\ check \in [Jobs -> Checks] /\ cand \in [Jobs -> Alerts]
      /\ ask[j] \in Answered => ask'[j] \in Answered
      /\ cand[j] # "none"
      /\ check[j] \in {"push", "quiet"} => ask[j] \in Answered
  BY TypedParts, AsksKeep DEF Checks, Alerts, Working, Answered
<1>1. CASE check'[j] \notin {"none", "done"}
  BY <1>1, ServedWays
<1>2. CASE check[j] = "quiet"
  BY <1>0, <1>2, ServedWays
<1>3. ASSUME NEW i \in Jobs, HandBack(i)
      PROVE  check'[j] = check[j] \/ cand'[j] \in Alerting
  BY <1>0, <1>3 DEF HandBack, At, RestoreAlert, Alerts, Alerting
<1>4. ASSUME NEW i \in Jobs, CheckStops(i), check[j] # "quiet"
      PROVE  check'[j] = check[j] \/ j \in lost'
  BY <1>0, <1>4 DEF CheckStops, At
<1>5. ASSUME NEW i \in Jobs, CheckPasses(i) \/ CheckFails(i) \/ Push(i) \/ KeepQuiet(i), check[j] # "quiet"
      PROVE  check'[j] \notin {"none", "done"}
  BY <1>0, <1>5 DEF CheckPasses, CheckFails, Push, KeepQuiet, At
<1>6. ASSUME NEW c \in Cycles, QueueCheck(c)
      PROVE  check'[j] \notin {"none", "done"}
  BY <1>6 DEF QueueCheck
<1>7. \/ UNCHANGED check
      \/ \E c \in Cycles : QueueCheck(c)
      \/ \E i \in Jobs : HandBack(i) \/ CheckStops(i) \/ CheckPasses(i) \/ CheckFails(i) \/ Push(i) \/ KeepQuiet(i)
  BY DEF Next, vars, Step, Conclude, Tick, ChangeSettings, Load, Create, People, QueueSend, FindRoom,
         Record, Skip, QueueRefused, Restore, Done, Clear, Dies, JobFails, Dismiss, Apply, Deliver,
         DeliveryFails, AppliesHerself
<1> QED BY <1>1, <1>2, <1>3, <1>4, <1>5, <1>6, <1>7, ServedWays

LEMMA WorkStays ==
    ASSUME Typed, Working, [Next]_vars, NEW j \in Jobs,
           NEW c \in Cycles, j \in my[c].job, at[c] \in {"queue", "restore"}
    PROVE  Served(j)' \/ ToCome(j)'
<1>0. /\ CycleTyped /\ cand \in [Jobs -> Alerts] /\ cand[j] # "none" /\ my[c].job \subseteq my[c].jobs
      /\ \A i \in my[c].job : i = j
  BY TypedParts DEF Alerts, Working, CycleTyped, Fits
<1>1. CASE UNCHANGED <<at[c], my[c]>>
  BY <1>1, ServedWays
<1>2. CASE \E d \in Cycles, b \in BOOLEAN : Load(d, b)
  BY <1>1, <1>2, LoadGoes
<1>3. ASSUME NEW d \in Cycles, Step(d) \/ Dies(d) \/ JobFails(d)
      PROVE  UNCHANGED <<at[c], my[c]>> \/ d = c
  <2>1. PICK p, l : Goes(d, p, l)
    BY <1>3, StepGoes
  <2> QED BY <1>0, <2>1, GoesOn
<1>4. CASE QueueCheck(c)
  BY <1>4, ServedWays DEF QueueCheck
<1>5. CASE QueueRefused(c)
  <2>1. at'[c] = "restore" /\ my'[c] = my[c]
    BY <1>0, <1>5, Zenon DEF QueueRefused, Put, CycleTyped
  <2> QED BY <2>1, ServedWays
<1>6. CASE Restore(c)
  <2>1. RestoreAlert(j)
    BY <1>0, <1>6 DEF Restore
  <2>2. cand'[j] \in Alerting
    BY <1>0, <2>1 DEF RestoreAlert, Alerts, Alerting
  <2> QED BY <2>2, ServedWays
<1>7. CASE JobFails(c)
  BY <1>7, ServedWays DEF JobFails
<1>8. CASE Dies(c) /\ Overtaken(c, j)
  BY <1>8, ServedWays DEF Dies
<1>9. CASE Dies(c) /\ ~Overtaken(c, j)
  <2>1. Goes(c, "off", Nothing)
    <3>1. Put(c, "off", Nothing)
      BY <1>9 DEF Dies
    <3> QED BY <3>1, NothingFits DEF Goes, Places
  <2>2. /\ my'[c].jobs = {}
        /\ \A d \in Cycles \ {c} : at'[d] = at[d] /\ my'[d] = my[d]
    BY <1>0, <2>1, GoesOn, NothingFits
  <2>3. j \in backlog' /\ \A d \in Cycles \ {c} : j \in my[d].jobs => at[d] = "create"
    BY <1>9 DEF Dies, Overtaken
  <2> QED BY <2>2, <2>3 DEF ToCome
<1>10. CASE Step(c)
  BY <1>4, <1>5, <1>6, <1>10 DEF Step, Create, People, QueueSend, FindRoom, Record, Skip, Done, Clear
<1> QED BY <1>1, <1>2, <1>3, <1>7, <1>8, <1>9, <1>10, WhoMoves DEF cycle

LEMMA ComesNext ==
    ASSUME Typed, Working, [Next]_vars, NEW j \in Jobs, ToCome(j)
    PROVE  Served(j)' \/ ToCome(j)'
<1>0. CycleTyped /\ cand \in [Jobs -> Alerts]
  BY TypedParts DEF Alerts
<1>1. j \in backlog'
  <2>1. ASSUME NEW c \in Cycles, Clear(c)
        PROVE  j \in backlog'
    BY <2>1 DEF Clear, ToCome
  <2>2. UNCHANGED backlog \/ \E c \in Cycles : Clear(c)
    BY DEF Next, vars, Step, Conclude, Tick, ChangeSettings, Load, Create, People, QueueSend, FindRoom,
           Record, Skip, QueueCheck, QueueRefused, Restore, Done, Dies, JobFails, CheckPasses,
           CheckFails, Push, KeepQuiet, HandBack, CheckStops, Dismiss, Apply, Deliver, DeliveryFails, AppliesHerself
  <2> QED BY <2>1, <2>2 DEF ToCome
<1>2. CASE UNCHANGED cycle
  BY <1>1, <1>2 DEF ToCome, cycle
<1>3. CASE \E c \in Cycles, b \in BOOLEAN : Load(c, b)
  BY <1>1, <1>3, LoadGoes DEF ToCome
<1>4. ASSUME NEW c \in Cycles, Step(c) \/ Dies(c) \/ JobFails(c)
      PROVE  Served(j)' \/ ToCome(j)'
  <2>1. PICK p, l : Goes(c, p, l)
    BY <1>4, StepGoes
  <2>2. /\ at[c] # "off"
        /\ \A d \in Cycles \ {c} : at'[d] = at[d] /\ my'[d] = my[d]
        /\ my'[c].jobs = my[c].jobs \/ my'[c].jobs = {}
    BY <1>0, <1>4, <2>1, StepGoes, GoesOn
  <2>3. CASE j \notin my'[c].jobs
    BY <1>1, <2>2, <2>3 DEF ToCome
  <2>4. CASE j \in my'[c].jobs
    <3>1. j \in my[c].jobs /\ at[c] = "create" /\ my'[c].jobs # {}
      BY <2>2, <2>4 DEF ToCome
    <3>2. ~Dies(c)
      <4>1. ASSUME Dies(c) PROVE my'[c] = Nothing
        BY <1>0, <4>1, Zenon DEF Dies, Put, CycleTyped
      <4> QED BY <3>1, <4>1, NothingFits
    <3>3. Create(c)
      BY <1>4, <3>1, <3>2 DEF Step, JobFails, People, QueueSend, FindRoom, Record, Skip, QueueCheck,
                              QueueRefused, Restore, Done, Clear
    <3>4. cand'[j] \in Alerting
      BY <1>0, <3>1, <3>3 DEF Create, Alerts, Alerting
    <3> QED BY <3>4, ServedWays
  <2> QED BY <2>3, <2>4
<1> QED BY <1>2, <1>3, <1>4, WhoMoves

-----------------------------------------------------------------------------
(* No job loses both its alert and its ask.                                *)

LEMMA ServedNext ==
    ASSUME Typed, Working, [Next]_vars, NEW j \in Jobs, Served(j)
    PROVE  Served(j)' \/ ToCome(j)'
<1>1. CASE cand[j] \in Alerting
  BY <1>1, AlertStays
<1>2. CASE ask[j] \in Answered \/ j \in sends \/ j \in lost
  BY <1>2, AsksKeep, ChecksKeep, ServedWays
<1>3. CASE Held(j)
  BY <1>3, CheckStays, WorkStays DEF Held
<1> QED BY <1>1, <1>2, <1>3 DEF Served, Alerting, Answered

LEMMA InitTyped == Init => Typed
<1> SUFFICES ASSUME Init PROVE Typed
  OBVIOUS
<1>1. CycleTyped
  <2>1. \A c \in Cycles : at[c] = "off" /\ my[c] = Nothing
    BY DEF Init
  <2>2. Nothing \in Locals
    BY NothingFits DEF Fits
  <2>3. at \in [Cycles -> Places]
    BY DEF Init, Places
  <2>4. my \in [Cycles -> Locals]
    <3> HIDE DEF Locals, Nothing
    <3> QED BY <2>2 DEF Init
  <2> QED BY <2>1, <2>3, <2>4, NothingFits DEF CycleTyped
<1> QED BY <1>1, TypedParts DEF Init

LEMMA InitServes == Init => SInv
<1> SUFFICES ASSUME Init PROVE SInv
  OBVIOUS
<1>1. \A c \in Cycles : at[c] = "off" /\ my[c] = Nothing /\ my[c].jobs = {}
  BY NothingFits DEF Init
<1>2. Working
  BY <1>1 DEF Init, Working
<1>3. \A j \in Jobs : ToCome(j)
  BY <1>1 DEF Init, ToCome
<1> QED BY <1>2, <1>3, InitTyped DEF SInv

LEMMA ServesNext == SInv /\ [Next]_vars => SInv'
<1> SUFFICES ASSUME SInv, [Next]_vars PROVE SInv'
  OBVIOUS
<1>1. Typed /\ Working
  BY DEF SInv
<1>2. Typed' /\ Working'
  BY <1>1, TypedNext, WorkingNext
<1>3. ASSUME NEW j \in Jobs PROVE Served(j)' \/ ToCome(j)'
  BY <1>1, ServedNext, ComesNext DEF SInv
<1> QED BY <1>2, <1>3 DEF SInv

(* A job that left the backlog has an alert on its way, or an ask or a     *)
(* send in its place, or somebody at work on it: whatever cycles and       *)
(* checks overlap and die, but for the failures nobody repairs.            *)
THEOREM JobsAreServed == Spec => []NobodyForgotten
<1>1. SInv => NobodyForgotten
  BY DEF SInv, NobodyForgotten, Served, ToCome
<1> QED BY <1>1, InitServes, ServesNext, PTL DEF Spec

-----------------------------------------------------------------------------
(* The asks of a day.                                                      *)

LEMMA FewerAsked ==
    ASSUME NEW d, Asked(d)' \subseteq Asked(d)
    PROVE  Cardinality(Asked(d)') <= Cardinality(Asked(d))
<1>1. IsFiniteSet(Asked(d))
  BY AsksAssumption, FS_Subset DEF Asked, AsksOn
<1> QED BY <1>1, FS_Subset

LEMMA AskedFinite == \A d : IsFiniteSet(AsksOn(d)) /\ Cardinality(Asked(d)) \in Nat
<1> TAKE d
<1>1. IsFiniteSet(AsksOn(d)) /\ IsFiniteSet(Asked(d))
  BY AsksAssumption, FS_Subset DEF Asked, AsksOn
<1> QED BY <1>1, FS_CardinalityType

LEMMA AskedSmaller ==
    ASSUME DInv, NEW d \in Nat, Asked(d)' \subseteq Asked(d)
    PROVE  Cardinality(Asked(d)') <= AsksPerDay
<1>1. IsFiniteSet(Asked(d)')
  BY AsksAssumption, FS_Subset DEF Asked, AsksOn
<1>2. Cardinality(Asked(d)') \in Nat
  BY <1>1, FS_CardinalityType
<1>3. Cardinality(Asked(d)') <= Cardinality(Asked(d))
  BY FewerAsked
<1>4. Cardinality(Asked(d)) \in Nat /\ Cardinality(Asked(d)) <= AsksPerDay /\ AsksPerDay \in Nat
  BY AskedFinite, AsksAssumption DEF DInv
<1> QED BY <1>2, <1>3, <1>4

(* A step that records no ask and finds no room. *)
LEMMA NoneRecorded ==
    ASSUME DInv, moved \subseteq moved', raced \subseteq raced',
           \A j \in Jobs : ask'[j] \in Counted =>
               ask[j] \in Counted /\ (notify'[j] = notify[j] \/ j \in moved'),
           \A c \in Cycles : at'[c] = "record" /\ ~my'[c].auto => at[c] = "record" /\ my'[c] = my[c]
    PROVE  RoomLeft' /\ \A d \in Nat : Cardinality(Asked(d)') <= AsksPerDay
<1>1. \A d : Asked(d)' \subseteq Asked(d)
  BY DEF Asked, AsksOn
<1>2. \A d : Cardinality(Asked(d)') <= Cardinality(Asked(d)) /\ Cardinality(Asked(d)) \in Nat
             /\ Cardinality(Asked(d)') \in Nat
  <2>1. \A d : Cardinality(Asked(d)') \in Nat
    <3> TAKE d
    <3>1. IsFiniteSet(Asked(d)')
      BY <1>1, AsksAssumption, FS_Subset DEF Asked, AsksOn
    <3> QED BY <3>1, FS_CardinalityType
  <2> QED BY <1>1, <2>1, FewerAsked, AskedFinite
<1>3. AsksPerDay \in Nat
  BY AsksAssumption
<1>4. ASSUME NEW d \in Nat PROVE Cardinality(Asked(d)') <= AsksPerDay
  BY <1>2, <1>3 DEF DInv
<1>5. ASSUME NEW c \in Cycles, at'[c] = "record", ~my'[c].auto, ~(my'[c].job \subseteq raced')
      PROVE  (Cardinality(Asked(AskDay(my[c].time))) < AsksPerDay)'
  <2>1. at[c] = "record" /\ my'[c] = my[c] /\ ~(my[c].job \subseteq raced)
    BY <1>5
  <2>2. Cardinality(Asked(AskDay(my[c].time))) < AsksPerDay
    BY <1>5, <2>1 DEF DInv, RoomLeft
  <2>3. PICK d : d = AskDay(my[c].time) /\ d = AskDay(my'[c].time)
    BY <2>1
  <2>4. Cardinality(Asked(d)') < AsksPerDay
    BY <1>2, <1>3, <2>2, <2>3
  <2> QED BY <2>3, <2>4 DEF Asked, AsksOn
<1> QED BY <1>4, <1>5 DEF RoomLeft

(* Who comes to record an ask found room for it. *)
LEMMA RecordsFrom ==
    ASSUME Typed, [Next]_vars, NEW c \in Cycles, at'[c] = "record", ~my'[c].auto, ~FindRoom(c)
    PROVE  at[c] = "record" /\ my'[c] = my[c]
<1>0. CycleTyped
  BY TypedParts
<1>1. CASE UNCHANGED <<at[c], my[c]>>
  BY <1>1
<1>2. CASE \E d \in Cycles, b \in BOOLEAN : Load(d, b)
  BY <1>1, <1>2, LoadGoes
<1>3. ASSUME NEW d \in Cycles, Step(d) \/ Dies(d) \/ JobFails(d)
      PROVE  UNCHANGED <<at[c], my[c]>> \/ d = c
  <2>1. PICK p, l : Goes(d, p, l)
    BY <1>3, StepGoes
  <2> QED BY <1>0, <2>1, GoesOn
<1>4. ASSUME Step(c) \/ Dies(c) \/ JobFails(c) PROVE FALSE
  <2>0. Fits(my[c]) /\ at \in [Cycles -> Places] /\ my \in [Cycles -> Locals]
    BY <1>0 DEF CycleTyped
  <2>1. CASE QueueSend(c)
    <3>1. PICK j \in my[c].todo : Put(c, "record", [my[c] EXCEPT !.todo = @ \ {j}, !.job = {j}])
      BY <2>1 DEF QueueSend
    <3>2. Put(c, "record", [my[c] EXCEPT !.todo = @ \ {j}, !.job = {j}])
      BY <3>1
    <3>3. my'[c] = [my[c] EXCEPT !.todo = @ \ {j}, !.job = {j}]
      BY <2>0, <3>2, Zenon DEF Put
    <3>4. my'[c].auto = my[c].auto
      BY <2>0, <3>3, LocalsFit
    <3> QED BY <2>1, <3>4 DEF QueueSend
  <2>2. CASE ~QueueSend(c)
    <3>1. \E p \in Places \ {"record"} : \E l : Put(c, p, l)
      BY <1>4, <2>2, Zenon DEF Step, Create, People, Record, Skip, QueueCheck, QueueRefused, Restore, Done,
                               Clear, Dies, JobFails, Places
    <3>2. at'[c] # "record"
      BY <2>0, <3>1 DEF Put
    <3> QED BY <3>2
  <2> QED BY <2>1, <2>2
<1> QED BY <1>1, <1>2, <1>3, <1>4, WhoMoves DEF cycle

LEMMA RecordedKept ==
    ASSUME Typed, [Next]_vars, \A c \in Cycles : ~Record(c)
    PROVE  /\ moved \subseteq moved' /\ raced \subseteq raced'
           /\ \A j \in Jobs : ask'[j] \in Counted =>
                ask[j] \in Counted /\ (notify'[j] = notify[j] \/ j \in moved')
<1> DEFINE Kept == \A j \in Jobs : ask'[j] \in Counted =>
                     ask[j] \in Counted /\ (notify'[j] = notify[j] \/ j \in moved')
<1>0. ask \in [Jobs -> Asks] /\ notify \in [Jobs -> Nat]
  BY TypedParts DEF Asks
<1>1. ASSUME NEW j \in Jobs, Skipped(j), UNCHANGED notify
      PROVE  Kept
  BY <1>0, <1>1 DEF Skipped, Counted
<1>2. ASSUME NEW j \in Jobs, CheckPasses(j) \/ Dismiss(j) \/ Apply(j)
      PROVE  Kept
  BY <1>0, <1>2 DEF CheckPasses, Dismiss, Apply, Counted
<1>3. \/ UNCHANGED <<ask, notify>>
      \/ \E j \in Jobs : Skipped(j) /\ UNCHANGED notify
      \/ \E j \in Jobs : CheckPasses(j) \/ Dismiss(j) \/ Apply(j)
  <2>1. ASSUME NEW c \in Cycles, QueueRefused(c)
        PROVE  \E j \in Jobs : Skipped(j) /\ UNCHANGED notify
    <3>1. my[c].job \subseteq Jobs
      BY TypedParts DEF CycleTyped, Fits, Locals
    <3> QED BY <2>1, <3>1 DEF QueueRefused
  <2> QED BY <2>1 DEF Next, vars, asks, Step, Conclude, Tick, ChangeSettings, Load, Create, People, QueueSend,
              FindRoom, Skip, QueueCheck, Restore, Done, Clear, Dies, JobFails, CheckFails, Push,
              KeepQuiet, HandBack, CheckStops, Deliver, DeliveryFails, AppliesHerself
<1>4. ASSUME UNCHANGED <<ask, notify>> PROVE Kept
  BY <1>4
<1>5. moved \subseteq moved' /\ raced \subseteq raced'
  BY DEF Next, vars, ghosts, Step, Conclude, Tick, ChangeSettings, Load, Create, People, QueueSend, FindRoom,
         Skip, QueueCheck, QueueRefused, Restore, Done, Clear, Dies, JobFails, CheckPasses, CheckFails,
         Push, KeepQuiet, HandBack, CheckStops, Dismiss, Apply, Deliver, DeliveryFails, AppliesHerself
<1> QED BY <1>1, <1>2, <1>3, <1>4, <1>5

LEMMA RecordKeepsRoom ==
    ASSUME DInv, [Next]_vars, NEW c \in Cycles, Record(c)
    PROVE  RoomLeft' /\ \A d \in Nat : Cardinality(Asked(d)') <= AsksPerDay
<1>0. /\ Typed /\ CycleTyped /\ ask \in [Jobs -> Asks] /\ notify \in [Jobs -> Nat]
      /\ AsksPerDay \in Nat
  BY TypedParts, AsksAssumption DEF Asks, DInv
<1>1. /\ at[c] = "record" /\ moved' = moved
      /\ Put(c, "skip", my[c]) \/ Put(c, "act", AtNext(c))
  BY <1>0 DEF Record
<1>2. /\ at'[c] # "record"
      /\ \A d \in Cycles \ {c} : at'[d] = at[d] /\ my'[d] = my[d]
  BY <1>0, <1>1, Zenon DEF Put, CycleTyped
<1>3. CASE UNCHANGED <<asks, raced>>
  BY <1>1, <1>2, <1>3, NoneRecorded DEF asks
<1>4. ASSUME NEW j \in my[c].job, ask[j] = "none",
             ask' = [ask EXCEPT ![j] = IF my[c].auto THEN "sent" ELSE "checking"],
             notify' = [notify EXCEPT ![j] = AskDay(my[c].time)],
             raced' = raced \cup UNION {my[d].job : d \in {x \in Cycles \ {c} : at[x] = "record"}}
      PROVE  RoomLeft' /\ \A d \in Nat : Cardinality(Asked(d)') <= AsksPerDay
  <2>1. j \in Jobs /\ my[c].job = {j} /\ my[c].time \in Nat
    BY <1>0 DEF CycleTyped, Fits, Locals
  <2>2. \A d \in Cycles : at'[d] = "record" => my'[d].job \subseteq raced'
    BY <1>2, <1>4
  <2>3. RoomLeft'
    BY <2>2 DEF RoomLeft
  <2>4. CASE my[c].auto \/ j \in raced
    <3>1. \A d : Asked(d)' \subseteq Asked(d)
      BY <1>0, <1>1, <1>4, <2>1, <2>4 DEF Asked, AsksOn, Counted
    <3> QED BY <1>0, <2>3, <3>1, AskedSmaller DEF DInv
  <2>5. CASE ~my[c].auto /\ j \notin raced
    <3>1. PICK e \in Nat : e = AskDay(my[c].time)
      BY <2>1, Halves DEF AskDay
    <3>2. Cardinality(Asked(e)) < AsksPerDay
      BY <1>1, <2>1, <2>5, <3>1 DEF DInv, RoomLeft
    <3>3. \A d \in Nat \ {e} : Asked(d)' \subseteq Asked(d)
      BY <1>0, <1>1, <1>4, <2>1, <3>1 DEF Asked, AsksOn, Counted
    <3>4. Asked(e)' \subseteq Asked(e) \cup {j}
      BY <1>0, <1>1, <1>4, <2>1 DEF Asked, AsksOn, Counted
    <3>5. Cardinality(Asked(e)') <= AsksPerDay
      <4>1. IsFiniteSet(Asked(e))
        BY AsksAssumption, FS_Subset DEF Asked, AsksOn
      <4>2. /\ IsFiniteSet(Asked(e) \cup {j}) /\ Cardinality(Asked(e)) \in Nat
            /\ Cardinality(Asked(e) \cup {j}) <= Cardinality(Asked(e)) + 1
        <5>1. Cardinality(Asked(e)) \in Nat
          BY AskedFinite
        <5>2. PICK S : S = Asked(e)
          OBVIOUS
        <5>3. /\ IsFiniteSet(S \cup {j})
              /\ Cardinality(S \cup {j}) = IF j \in S THEN Cardinality(S) ELSE Cardinality(S) + 1
          BY <4>1, <5>2, FS_AddElement
        <5> QED BY <5>1, <5>2, <5>3
      <4>3. IsFiniteSet(Asked(e)') /\ Cardinality(Asked(e)') <= Cardinality(Asked(e) \cup {j})
        BY <3>4, <4>2, FS_Subset
      <4> QED BY <1>0, <3>2, <4>2, <4>3, FS_CardinalityType
    <3>6. \A d \in Nat \ {e} : Cardinality(Asked(d)') <= AsksPerDay
      BY <1>0, <3>3, AskedSmaller DEF DInv
    <3> QED BY <2>3, <3>5, <3>6
  <2>6. Next \/ UNCHANGED vars
    OBVIOUS
  <2> QED BY <2>4, <2>5, <2>6, Zenon
<1> QED BY <1>3, <1>4 DEF Record

LEMMA RoomIsFound ==
    ASSUME DInv, [Next]_vars, NEW c \in Cycles, FindRoom(c)
    PROVE  RoomLeft' /\ \A d \in Nat : Cardinality(Asked(d)') <= AsksPerDay
<1>0. Typed /\ CycleTyped /\ Fits(my[c]) /\ AsksPerDay \in Nat
  BY TypedParts, AsksAssumption DEF DInv, CycleTyped
<1>1. PICK j \in my[c].todo : Put(c, "record", [my[c] EXCEPT !.todo = @ \ {j}, !.job = {j}])
  BY DEF FindRoom
<1>2. Put(c, "record", [my[c] EXCEPT !.todo = @ \ {j}, !.job = {j}])
  BY <1>1
<1>3. /\ my'[c] = [my[c] EXCEPT !.todo = @ \ {j}, !.job = {j}]
      /\ \A d \in Cycles \ {c} : at'[d] = at[d] /\ my'[d] = my[d]
  BY <1>0, <1>2, Zenon DEF Put, CycleTyped
<1>4. my'[c].time = my[c].time
  BY <1>0, <1>3, LocalsFit
<1>5. UNCHANGED <<ask, notify, moved, raced>> /\ Cardinality(AsksOn(AskDay(my[c].time))) < AsksPerDay
  BY DEF FindRoom, Room, asks, ghosts
<1>6. \A d : Asked(d)' = Asked(d)
  BY <1>5 DEF Asked, AsksOn
<1>7. \A d \in Nat : Cardinality(Asked(d)') <= AsksPerDay
  BY <1>6 DEF DInv
<1>8. Cardinality(Asked(AskDay(my[c].time))) < AsksPerDay
  <2>1. PICK e : e = AskDay(my[c].time)
    OBVIOUS
  <2>2. Cardinality(Asked(e)) <= Cardinality(AsksOn(e))
    BY AskedFinite, FS_Subset DEF Asked
  <2>3. Cardinality(Asked(e)) \in Nat /\ Cardinality(AsksOn(e)) \in Nat
    BY AskedFinite, FS_CardinalityType
  <2> QED BY <1>0, <1>5, <2>1, <2>2, <2>3
<1>9. ASSUME NEW d \in Cycles, at'[d] = "record", ~my'[d].auto, ~(my'[d].job \subseteq raced')
      PROVE  (Cardinality(Asked(AskDay(my[d].time))) < AsksPerDay)'
  <2>1. Cardinality(Asked(AskDay(my[d].time))) < AsksPerDay /\ my'[d].time = my[d].time
    <3>1. CASE d = c
      BY <1>4, <1>8, <3>1
    <3>2. CASE d # c
      BY <1>3, <1>5, <1>9, <3>2 DEF DInv, RoomLeft
    <3> QED BY <3>1, <3>2
  <2>2. PICK e : e = AskDay(my[d].time) /\ e = AskDay(my'[d].time)
    BY <2>1
  <2>3. Cardinality(Asked(e)') < AsksPerDay
    BY <1>6, <2>1, <2>2
  <2> QED BY <2>2, <2>3 DEF Asked, AsksOn
<1> QED BY <1>7, <1>9 DEF RoomLeft

LEMMA InitAsks == Init => DInv
<1> SUFFICES ASSUME Init PROVE DInv
  OBVIOUS
<1>1. \A d : Asked(d) = {}
  BY DEF Init, Asked, AsksOn, Counted
<1>2. Cardinality({}) = 0 /\ AsksPerDay \in Nat
  BY AsksAssumption, FS_EmptySet
<1>3. RoomLeft
  BY DEF Init, RoomLeft
<1> QED BY <1>1, <1>2, <1>3, InitTyped DEF DInv

LEMMA AsksNext == DInv /\ [Next]_vars => DInv'
<1> SUFFICES ASSUME DInv, [Next]_vars PROVE DInv'
  OBVIOUS
<1>0. Typed /\ Typed'
  BY TypedNext DEF DInv
<1>1. ASSUME \A c \in Cycles : ~Record(c) /\ ~FindRoom(c)
      PROVE  RoomLeft' /\ \A d \in Nat : Cardinality(Asked(d)') <= AsksPerDay
  BY <1>0, <1>1, RecordsFrom, RecordedKept, NoneRecorded, Zenon
<1>2. RoomLeft' /\ \A d \in Nat : Cardinality(Asked(d)') <= AsksPerDay
  BY <1>1, RecordKeepsRoom, RoomIsFound
<1> QED BY <1>0, <1>2 DEF DInv

(* A day has at most AsksPerDay asks, but for those whose day changed      *)
(* while their form was checked, and those two cycles found the same room  *)
(* for.                                                                    *)
THEOREM AsksFitTheDay == Spec => []AsksADay
<1>1. DInv => AsksADay
  <2>1. ASSUME NEW d \in Days PROVE d \in Nat
    BY <2>1 DEF Days
  <2> QED BY <2>1 DEF DInv, AsksADay, Asked
<1> QED BY <1>1, InitAsks, AsksNext, PTL DEF Spec
-----------------------------------------------------------------------------
(* The dates, and the rest of the state.                                   *)

Timed ==
    /\ now \in 0 .. MaxTime /\ \A c \in Cycles : my[c].time \in 0 .. now
    /\ made \in [Jobs -> 0 .. Day(now)] /\ notify \in [Jobs -> 0 .. AskDay(now)]

Marked ==
    /\ mode \in {"ask", "auto", "off"} /\ paused \in BOOLEAN
    /\ applied \subseteq Jobs /\ sends \subseteq Jobs /\ pushed \subseteq Jobs /\ alerted \subseteq Jobs
    /\ moved \subseteq Jobs /\ raced \subseteq Jobs /\ lost \subseteq Jobs
    /\ trouble \in 0 .. MaxTrouble

TInv == Typed /\ Timed /\ Marked

LEMMA DatesGrow ==
    ASSUME NEW t \in Nat, NEW s \in 0 .. t
    PROVE  Day(s) \in 0 .. Day(t) /\ AskDay(s) \in 0 .. AskDay(t) /\ Day(t) \in 0 .. AskDay(t)
BY DEF Day, AskDay

LEMMA DatesAreDays ==
    ASSUME NEW t \in 0 .. MaxTime
    PROVE  AskDay(t) \in Nat /\ 0 .. Day(t) \subseteq Days /\ 0 .. AskDay(t) \subseteq Days
<1>1. Day(t) \in Nat /\ AskDay(t) \in Nat /\ Day(t) <= (MaxTime + 1) \div 2 /\ AskDay(t) <= (MaxTime + 1) \div 2
  BY AsksAssumption DEF Day, AskDay
<1>2. (MaxTime + 1) \div 2 \in Nat
  BY AsksAssumption
<1> QED BY <1>1, <1>2 DEF Days

(* A cycle's time is one at which it ran. *)
LEMMA TimesNext ==
    ASSUME TInv, [Next]_vars, NEW d \in Cycles
    PROVE  my'[d].time \in 0 .. now
<1>0. /\ my \in [Cycles -> Locals] /\ now \in 0 .. MaxTime
      /\ \A c \in Cycles : my[c] \in Locals /\ my[c].time \in 0 .. now
  BY TypedParts DEF TInv, CycleTyped, Timed
<1> DEFINE Ok(l) == l.time \in 0 .. now
<1>1. /\ Ok(Nothing)
      /\ \A B \in SUBSET Jobs, a \in BOOLEAN : Ok([Nothing EXCEPT !.jobs = B, !.asking = a])
  BY <1>0 DEF Nothing
<1>2. ASSUME NEW c \in Cycles, Load(c, TRUE) \/ Load(c, FALSE)
      PROVE  \E p, l : Put(c, p, l) /\ Ok(l)
  <2>1. backlog \in SUBSET Jobs
    BY TypedParts DEF TInv
  <2>2. PICK a \in BOOLEAN : Put(c, "create", [Nothing EXCEPT !.jobs = backlog, !.asking = a])
    BY <1>2 DEF Load
  <2> HIDE DEF Ok
  <2> QED BY <1>1, <2>1, <2>2
<1>3. ASSUME NEW c \in Cycles, Step(c) \/ Dies(c) \/ JobFails(c)
      PROVE  \E p, l : Put(c, p, l) /\ Ok(l)
  <2> DEFINE m == my[c]
  <2>0. m \in Locals /\ Ok(m)
    BY <1>0
  <2>1. /\ Ok(AtNext(c)) /\ Ok([m EXCEPT !.todo = {}])
        /\ \A j : Ok([m EXCEPT !.todo = @ \ {j}, !.job = {j}])
    BY <2>0 DEF AtNext, Locals
  <2>2. \A T, a : Ok([m EXCEPT !.todo = T, !.auto = a, !.time = now])
    BY <1>0, <2>0 DEF Locals
  <2> HIDE DEF m, Ok
  <2>3. CASE People(c)
    BY <2>2, <2>3, Zenon DEF People, m
  <2>4. CASE QueueSend(c) \/ FindRoom(c) \/ Done(c)
    BY <2>1, <2>4, Zenon DEF QueueSend, FindRoom, Done, m
  <2>5. CASE Create(c) \/ Skip(c) \/ QueueCheck(c) \/ QueueRefused(c) \/ Restore(c) \/ JobFails(c)
    BY <2>0, <2>1, <2>5, Zenon DEF Create, Skip, QueueCheck, QueueRefused, Restore, JobFails, m
  <2>6. CASE Record(c)
    <3>1. Put(c, "skip", m) \/ Put(c, "act", AtNext(c))
      BY <2>6 DEF Record, m
    <3> QED BY <2>0, <2>1, <3>1
  <2>7. CASE Clear(c) \/ Dies(c)
    BY <1>1, <2>7, Zenon DEF Clear, Dies
  <2> QED BY <1>3, <2>3, <2>4, <2>5, <2>6, <2>7 DEF Step
<1>4. ASSUME NEW c \in Cycles, NEW p, NEW l, Put(c, p, l), Ok(l)
      PROVE  Ok(my'[d])
  <2>1. my'[d] = IF d = c THEN l ELSE my[d]
    BY <1>0, <1>4 DEF Put
  <2> QED BY <1>0, <1>4, <2>1
<1>5. CASE UNCHANGED cycle
  BY <1>0, <1>5 DEF cycle
<1>6. ASSUME NEW c \in Cycles, NEW b \in BOOLEAN, Load(c, b)
      PROVE  Load(c, TRUE) \/ Load(c, FALSE)
  BY <1>6
<1> HIDE DEF Ok
<1>7. CASE \E c \in Cycles, b \in BOOLEAN : Load(c, b)
  <2>1. PICK c \in Cycles, b \in BOOLEAN : Load(c, b)
    BY <1>7
  <2>2. PICK p, l : Put(c, p, l) /\ Ok(l)
    BY <1>2, <1>6, <2>1, Zenon
  <2>3. Ok(my'[d])
    BY <1>4, <2>2
  <2> QED BY <2>3 DEF Ok
<1>8. CASE \E c \in Cycles : Step(c) \/ Dies(c) \/ JobFails(c)
  <2>1. PICK c \in Cycles : Step(c) \/ Dies(c) \/ JobFails(c)
    BY <1>8
  <2>2. PICK p, l : Put(c, p, l) /\ Ok(l)
    BY <1>3, <2>1, Zenon
  <2>3. Ok(my'[d])
    BY <1>4, <2>2
  <2> QED BY <2>3 DEF Ok
<1>9. CASE Ok(my'[d])
  BY <1>9 DEF Ok
<1> QED BY <1>5, <1>7, <1>8, <1>9, WhoMoves

(* No ask is dated beyond the morning after its moment. *)
LEMMA DatesNext ==
    ASSUME TInv, [Next]_vars
    PROVE  /\ now' \in now .. MaxTime
           /\ made' \in [Jobs -> 0 .. Day(now)] /\ notify' \in [Jobs -> 0 .. AskDay(now)]
<1>0. /\ now \in 0 .. MaxTime
      /\ made \in [Jobs -> 0 .. Day(now)] /\ notify \in [Jobs -> 0 .. AskDay(now)]
      /\ \A c \in Cycles : my[c].time \in 0 .. now /\ my[c].job \subseteq Jobs
  BY TypedParts DEF TInv, CycleTyped, Fits, Locals, Timed
<1>1. now' \in now .. MaxTime
  <2>1. UNCHANGED now \/ Tick
    BY Zenon DEF Next, vars, Step, Conclude, ChangeSettings, Load, Create, People, QueueSend, FindRoom,
         Record, Skip, QueueCheck, QueueRefused, Restore, Done, Clear, Dies, JobFails, CheckPasses,
         CheckFails, Push, KeepQuiet, HandBack, CheckStops, Dismiss, Apply, Deliver, DeliveryFails, AppliesHerself
  <2> QED BY <1>0, <2>1, AsksAssumption DEF Tick
<1>2. ASSUME NEW c \in Cycles, Record(c)
      PROVE  made' \in [Jobs -> 0 .. Day(now)] /\ notify' \in [Jobs -> 0 .. AskDay(now)]
  <2>1. \/ UNCHANGED <<made, notify>>
        \/ \E j \in Jobs : /\ made' = [made EXCEPT ![j] = Day(my[c].time)]
                           /\ notify' = [notify EXCEPT ![j] = AskDay(my[c].time)]
    BY <1>0, <1>2 DEF Record, asks
  <2>2. Day(my[c].time) \in 0 .. Day(now) /\ AskDay(my[c].time) \in 0 .. AskDay(now)
    BY <1>0, DatesGrow
  <2> QED BY <1>0, <2>1, <2>2
<1>3. ASSUME NEW j \in Jobs, CheckPasses(j)
      PROVE  made' \in [Jobs -> 0 .. Day(now)] /\ notify' \in [Jobs -> 0 .. AskDay(now)]
  <2>1. AskDay(now) \in 0 .. AskDay(now)
    BY <1>0, DatesGrow
  <2> QED BY <1>0, <1>3, <2>1 DEF CheckPasses
<1>4. \/ UNCHANGED <<made, notify>>
      \/ \E c \in Cycles : Record(c)
      \/ \E j \in Jobs : CheckPasses(j)
  <2>1. ASSUME NEW c \in Cycles, Step(c) \/ Dies(c) \/ JobFails(c)
        PROVE  UNCHANGED <<made, notify>> \/ Record(c)
    BY <2>1 DEF Step, asks, Create, People, QueueSend, FindRoom, Skip, QueueCheck, QueueRefused, Restore,
           Done, Clear, Dies, JobFails
  <2>2. ASSUME NEW c \in Cycles, Load(c, TRUE) \/ Load(c, FALSE)
        PROVE  UNCHANGED <<made, notify>>
    BY <2>2 DEF Load, asks
  <2>3. ASSUME NEW j \in Jobs,
               \/ Deliver(j) \/ DeliveryFails(j) \/ Conclude(j) \/ CheckStops(j)
               \/ Dismiss(j) \/ Apply(j) \/ AppliesHerself(j)
        PROVE  UNCHANGED <<made, notify>> \/ CheckPasses(j)
    BY <2>3 DEF asks, Conclude, CheckFails, Push, KeepQuiet, HandBack, CheckStops, Dismiss, Apply, Deliver,
           DeliveryFails, AppliesHerself
  <2>4. CASE Tick \/ ChangeSettings \/ UNCHANGED vars
    BY <2>4 DEF Tick, ChangeSettings, vars, asks
  <2>5. CASE Next
    BY <2>1, <2>2, <2>3, <2>4, <2>5, Zenon DEF Next
  <2>6. Next \/ UNCHANGED vars
    OBVIOUS
  <2> QED BY <2>4, <2>5, <2>6, Zenon
<1>5. CASE UNCHANGED <<made, notify>>
  BY <1>0, <1>1, <1>5
<1>6. CASE \E c \in Cycles : Record(c)
  BY <1>1, <1>2, <1>6
<1>7. CASE \E j \in Jobs : CheckPasses(j)
  BY <1>1, <1>3, <1>7
<1> QED BY <1>4, <1>5, <1>6, <1>7

LEMMA MarkedNext == ASSUME TInv, [Next]_vars PROVE Marked'
<1>0. Marked /\ \A c \in Cycles : my[c].job \subseteq Jobs /\ my[c].todo \subseteq Jobs
  BY TypedParts DEF TInv, CycleTyped, Fits, Locals
<1>1. ASSUME NEW c \in Cycles, Step(c) \/ Dies(c) \/ JobFails(c) PROVE Marked'
  <2>1. CASE QueueSend(c)
    BY <1>0, <2>1 DEF QueueSend, Marked, person, out, ghosts
  <2>2. CASE Record(c)
    BY <1>0, <2>2 DEF Record, Marked, person, out
  <2>3. CASE Dies(c) \/ JobFails(c)
    BY <1>0, <2>3, AsksAssumption DEF Dies, JobFails, Fault, Trouble, Marked, person, out
  <2>4. CASE UNCHANGED <<person, sends, out, ghosts, trouble>>
    BY <1>0, <2>4 DEF Marked, person, out, ghosts
  <2> QED BY <1>1, <2>1, <2>2, <2>3, <2>4 DEF Step, Create, People, FindRoom, Skip, QueueCheck,
          QueueRefused, Restore, Done, Clear
<1>2. ASSUME NEW c \in Cycles, Load(c, TRUE) \/ Load(c, FALSE) PROVE Marked'
  BY <1>0, <1>2 DEF Load, Marked, person, out, ghosts
<1>3. ASSUME NEW j \in Jobs,
             \/ Deliver(j) \/ DeliveryFails(j) \/ Conclude(j) \/ CheckStops(j)
             \/ Dismiss(j) \/ Apply(j) \/ AppliesHerself(j)
      PROVE  Marked'
  <2>1. CASE Deliver(j) \/ Dismiss(j) \/ Apply(j)
    BY <1>0, <2>1 DEF Deliver, Dismiss, Apply, Marked, person, out, ghosts
  <2>2. CASE DeliveryFails(j) \/ CheckStops(j) \/ AppliesHerself(j)
    BY <1>0, <2>2, AsksAssumption DEF DeliveryFails, CheckStops, AppliesHerself, Fault, Trouble, Marked,
       person, out, ghosts
  <2>3. CASE Conclude(j)
    BY <1>0, <2>3 DEF Conclude, CheckPasses, CheckFails, Push, KeepQuiet, HandBack, Marked, person, out, ghosts
  <2> QED BY <1>3, <2>1, <2>2, <2>3
<1>4. CASE Tick \/ ChangeSettings
  BY <1>0, <1>4, AsksAssumption DEF Tick, ChangeSettings, Trouble, Marked, person, out, ghosts
<1>5. CASE UNCHANGED vars
  BY <1>0, <1>5 DEF vars, Marked, person, out, ghosts
<1> QED BY <1>1, <1>2, <1>3, <1>4, <1>5 DEF Next

LEMMA TimedNext == ASSUME TInv, [Next]_vars PROVE Timed'
<1>1. /\ now \in Nat /\ now' \in now .. MaxTime
      /\ made' \in [Jobs -> 0 .. Day(now)] /\ notify' \in [Jobs -> 0 .. AskDay(now)]
      /\ \A c \in Cycles : my'[c].time \in 0 .. now
  BY TimesNext, DatesNext DEF TInv, Timed
<1>2. now' \in Nat /\ now \in 0 .. now'
  BY <1>1
<1>3. Day(now) \in 0 .. Day(now') /\ AskDay(now) \in 0 .. AskDay(now')
  BY <1>2, DatesGrow
<1>4. Day(now') \in Int /\ AskDay(now') \in Int
  BY <1>2 DEF Day, AskDay
<1>5. 0 .. Day(now) \subseteq 0 .. Day(now') /\ 0 .. AskDay(now) \subseteq 0 .. AskDay(now')
  BY <1>3, <1>4
<1>6. /\ made' \in [Jobs -> 0 .. Day(now')] /\ notify' \in [Jobs -> 0 .. AskDay(now')]
  BY <1>1, <1>5
<1>7. now' \in 0 .. MaxTime /\ \A c \in Cycles : my'[c].time \in 0 .. now'
  BY <1>1
<1> QED BY <1>6, <1>7 DEF Timed, Day, AskDay

LEMMA TInit == Init => TInv
<1> SUFFICES ASSUME Init PROVE TInv
  OBVIOUS
<1>1. Timed
  <2>1. \A c \in Cycles : my[c].time = 0
    BY DEF Init, Nothing
  <2>2. now = 0 /\ 0 \in 0 .. Day(now) /\ 0 \in 0 .. AskDay(now)
    BY DatesGrow DEF Init
  <2> QED BY <2>1, <2>2, AsksAssumption DEF Init, Timed
<1>2. Marked
  <2>1. paused \in BOOLEAN
    BY Zenon DEF Init
  <2>2. mode \in {"ask", "auto", "off"} /\ trouble \in 0 .. MaxTrouble
    BY AsksAssumption DEF Init
  <2> QED BY <2>1, <2>2 DEF Init, Marked
<1> QED BY <1>1, <1>2, InitTyped DEF TInv

LEMMA TAlways == Spec => []TInv
<1>1. TInv /\ [Next]_vars => TInv'
  <2> SUFFICES ASSUME TInv, [Next]_vars PROVE TInv'
    OBVIOUS
  <2>1. Typed'
    BY TypedNext DEF TInv
  <2> QED BY <2>1, TimedNext, MarkedNext DEF TInv
<1> QED BY <1>1, TInit, PTL DEF Spec

(* What askTime promises: an ask was made on a day that has come and goes  *)
(* out on it or, found at night, the next morning, however long ago the    *)
(* cycle took its moment for now and however long the check of its form    *)
(* took.                                                                   *)
THEOREM AskedInTime == Spec => [](\A j \in Jobs : made[j] <= Day(now) /\ notify[j] <= AskDay(now))
<1>1. TInv => \A j \in Jobs : made[j] <= Day(now) /\ notify[j] <= AskDay(now)
  <2> SUFFICES ASSUME TInv, NEW j \in Jobs PROVE made[j] <= Day(now) /\ notify[j] <= AskDay(now)
    OBVIOUS
  <2>1. made[j] \in 0 .. Day(now) /\ notify[j] \in 0 .. AskDay(now)
    BY DEF TInv, Timed
  <2> QED BY <2>1
<1> QED BY <1>1, TAlways, PTL

(* The state stays well typed, however cycles and checks overlap, fail and *)
(* die.                                                                    *)
THEOREM TypeCorrect == Spec => []TypeOK
<1>1. TInv => TypeOK
  <2> SUFFICES ASSUME TInv PROVE TypeOK
    OBVIOUS
  <2>1. my \in [Cycles -> [jobs : SUBSET Jobs, todo : SUBSET Jobs, job : SUBSET Jobs,
                           auto : BOOLEAN, asking : BOOLEAN, time : 0 .. MaxTime]]
    <3>1. my \in [Cycles -> Locals] /\ \A c \in Cycles : my[c].time \in 0 .. MaxTime
      <4>1. my \in [Cycles -> Locals]
        BY Zenon DEF TInv, Typed
      <4>2. now \in 0 .. MaxTime /\ \A c \in Cycles : my[c].time \in 0 .. now
        BY Zenon DEF TInv, Timed
      <4> QED BY <4>1, <4>2, AsksAssumption
    <3> QED BY <3>1 DEF Locals
  <2>2. made \in [Jobs -> Days] /\ notify \in [Jobs -> Days]
    <3>1. now \in 0 .. MaxTime /\ made \in [Jobs -> 0 .. Day(now)] /\ notify \in [Jobs -> 0 .. AskDay(now)]
      BY DEF TInv, Timed
    <3>2. 0 .. Day(now) \subseteq Days /\ 0 .. AskDay(now) \subseteq Days
      BY <3>1, DatesAreDays
    <3> QED BY <3>1, <3>2
  <2> QED BY <2>1, <2>2 DEF TInv, Typed, Timed, Marked, Places, TypeOK
<1> QED BY <1>1, TAlways, PTL
=============================================================================
