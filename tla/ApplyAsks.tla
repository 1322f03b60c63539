----------------------------- MODULE ApplyAsks -----------------------------
(***************************************************************************)
(* Asking one person about strong matches as they post.  The alert cycle    *)
(* takes new jobs from a backlog, makes each an alert (a candidate), and   *)
(* where it can, asks or sends in place of that alert.  An ask goes out     *)
(* after a check has filled the job's form.  Cycles overlap (the cron, the *)
(* notify queue's consumer, an admin's poll that never asks), deliveries    *)
(* of alerts go on beside them, and so do the checks and the person.       *)
(*                                                                         *)
(* One step is one statement that writes, with the reads before it.  Every *)
(* job here is a strong match, and her alerts are on.                      *)
(***************************************************************************)
EXTENDS Integers, FiniteSets

CONSTANTS
    Jobs, Cycles,
    AsksPerDay, ChecksPerDay,
    Modes,        \* auto_apply_settings.mode as the person starts
    Faults,       \* "crash": an invocation dies; "error": a statement fails
    MaxTrouble,   \* bound: faults, changes of the settings and applications by hand
    MaxTime       \* bound: half days

ASSUME AsksAssumption ==
    /\ IsFiniteSet(Jobs)
    /\ AsksPerDay \in Nat \ {0} /\ ChecksPerDay \in Nat \ {0}
    /\ Modes \subseteq {"ask", "auto", "off"}
    /\ Faults \subseteq {"crash", "error"}
    /\ MaxTrouble \in Nat /\ MaxTime \in Nat

VARIABLES
    now,       \* half days: even is the day, odd its evening after ten
    mode, paused,
    applied,   \* jobs past Saved in her tracker, by her own hand
    backlog,   \* notification_match_backlog
    cand,      \* notification_candidates.status of each job
    ask,       \* apply_asks.status of each job, "none" before it
    made,      \* the day of its created_at
    notify,    \* the day of its notify_at
    sends,     \* jobs with a real send
    check,     \* how far each job's check is
    at, my,    \* where each cycle is, and its locals
    pushed,    \* jobs whose ask was scheduled as a push
    alerted,   \* jobs whose alert was sent
    moved,     \* asks whose day changed while their form was checked
    raced,     \* asks of two cycles that found the same room
    lost,      \* jobs a failure nobody repairs may have cost
    trouble    \* how many faults and changes there were

person == <<mode, paused, applied>>
asks   == <<ask, made, notify>>
cycle  == <<at, my>>
out    == <<pushed, alerted>>
ghosts == <<moved, raced, lost>>
vars   == <<now, person, backlog, cand, asks, sends, check, cycle, out, ghosts, trouble>>

(* What a cycle read: its jobs, those it has not come to, the one it is at, *)
(* whether it sends without asking, whether it asks at all, and the moment  *)
(* it takes for now throughout.                                             *)
Nothing == [jobs |-> {}, todo |-> {}, job |-> {}, auto |-> FALSE, asking |-> FALSE, time |-> 0]

Days == 0 .. (MaxTime + 1) \div 2

TypeOK ==
    /\ now \in 0 .. MaxTime
    /\ mode \in {"ask", "auto", "off"} /\ paused \in BOOLEAN
    /\ applied \subseteq Jobs /\ backlog \subseteq Jobs /\ sends \subseteq Jobs
    /\ cand \in [Jobs -> {"none", "pending", "sending", "retry", "sent", "skipped"}]
    /\ ask \in [Jobs -> {"none", "checking", "asked", "applied", "dismissed", "skipped", "sent"}]
    /\ made \in [Jobs -> Days] /\ notify \in [Jobs -> Days]
    /\ check \in [Jobs -> {"none", "running", "push", "quiet", "restore", "done"}]
    /\ at \in [Cycles -> {"off", "create", "people", "act", "record", "skip", "queue", "restore", "clear"}]
    /\ my \in [Cycles -> [jobs : SUBSET Jobs, todo : SUBSET Jobs, job : SUBSET Jobs,
                          auto : BOOLEAN, asking : BOOLEAN, time : 0 .. MaxTime]]
    /\ pushed \subseteq Jobs /\ alerted \subseteq Jobs
    /\ moved \subseteq Jobs /\ raced \subseteq Jobs /\ lost \subseteq Jobs
    /\ trouble \in 0 .. MaxTrouble

Init ==
    /\ now = 0
    /\ mode \in Modes /\ paused = FALSE /\ applied = {}
    /\ backlog = Jobs
    /\ cand = [j \in Jobs |-> "none"]
    /\ ask = [j \in Jobs |-> "none"]
    /\ made = [j \in Jobs |-> 0] /\ notify = [j \in Jobs |-> 0]
    /\ sends = {}
    /\ check = [j \in Jobs |-> "none"]
    /\ at = [c \in Cycles |-> "off"]
    /\ my = [c \in Cycles |-> Nothing]
    /\ pushed = {} /\ alerted = {}
    /\ moved = {} /\ raced = {} /\ lost = {}
    /\ trouble = 0

Day(time) == time \div 2

(* askTime: an ask found at night goes out in the morning. *)
AskDay(time) == (time + 1) \div 2

Trouble == trouble < MaxTrouble /\ trouble' = trouble + 1

Fault(kind) == kind \in Faults /\ Trouble

-----------------------------------------------------------------------------
(* The alert of a job: skipped, restored, delivered.                       *)

SkipAlert(j) == cand' = [cand EXCEPT ![j] = IF @ = "pending" THEN "skipped" ELSE @]

(* No candidate here is skipped for another reason than an ask. *)
RestoreAlert_None(j) == UNCHANGED cand

RestoreAlert(j) == cand' = [cand EXCEPT ![j] = IF @ = "skipped" THEN "pending" ELSE @]

Deliver(j) ==
    /\ \/ cand[j] \in {"pending", "retry"} /\ cand' = [cand EXCEPT ![j] = "sending"] /\ UNCHANGED alerted
       \/ cand[j] = "sending" /\ cand' = [cand EXCEPT ![j] = "sent"] /\ alerted' = alerted \cup {j}
    /\ UNCHANGED <<now, person, backlog, asks, sends, check, cycle, pushed, ghosts, trouble>>

DeliveryFails(j) ==
    /\ Fault("error")
    /\ cand[j] = "sending" /\ cand' = [cand EXCEPT ![j] = "retry"]
    /\ UNCHANGED <<now, person, backlog, asks, sends, check, cycle, out, moved, raced, lost>>

-----------------------------------------------------------------------------
(* The alert cycle: processNotificationMatchBacklog with                   *)
(* askForStrongMatches, or without it.                                     *)

Put(c, place, locals) ==
    /\ at' = [at EXCEPT ![c] = place]
    /\ my' = [my EXCEPT ![c] = locals]

Load(c, asking) ==
    /\ at[c] = "off" /\ backlog # {}
    /\ Put(c, "create", [Nothing EXCEPT !.jobs = backlog, !.asking = asking])
    /\ UNCHANGED <<now, person, backlog, cand, asks, sends, check, out, ghosts, trouble>>

(* A candidate that was skipped is revived. *)
Create(c) ==
    /\ at[c] = "create"
    /\ cand' = [j \in Jobs |->
                  IF j \in my[c].jobs /\ cand[j] \in {"none", "skipped"} THEN "pending" ELSE cand[j]]
    /\ Put(c, IF my[c].asking THEN "people" ELSE "clear", my[c])
    /\ UNCHANGED <<now, person, backlog, asks, sends, check, out, ghosts, trouble>>

Unhandled(j) == ask[j] = "none" /\ j \notin sends /\ j \notin applied

(* Who asks for it, and which jobs were not asked about, sent or applied to. *)
People(c) ==
    /\ at[c] = "people"
    /\ Put(c, "act", [my[c] EXCEPT
                        !.todo = IF mode = "off" \/ paused THEN {} ELSE {j \in my[c].jobs : Unhandled(j)},
                        !.auto = mode = "auto", !.time = now])
    /\ UNCHANGED <<now, person, backlog, cand, asks, sends, check, out, ghosts, trouble>>

AtNext(c) == [my[c] EXCEPT !.job = {}]

QueueSend(c) ==
    /\ at[c] = "act" /\ my[c].auto
    /\ \E j \in my[c].todo \ (sends \cup applied) :
         /\ sends' = sends \cup {j}
         /\ Put(c, "record", [my[c] EXCEPT !.todo = @ \ {j}, !.job = {j}])
    /\ UNCHANGED <<now, person, backlog, cand, asks, check, out, ghosts, trouble>>

Counted_Asked == {"asked", "applied", "dismissed"}

Counted == {"checking", "asked", "applied", "dismissed"}

AsksOn(d) == {j \in Jobs : ask[j] \in Counted /\ notify[j] = d}

ChecksOn(d) == {j \in Jobs : ask[j] \notin {"none", "sent"} /\ made[j] = d}

(* roomToAsk. *)
Room(time) ==
    /\ Cardinality(AsksOn(AskDay(time))) < AsksPerDay
    /\ Cardinality(ChecksOn(Day(time))) < ChecksPerDay

FindRoom(c) ==
    /\ at[c] = "act" /\ ~my[c].auto
    /\ Room(my[c].time)
    /\ \E j \in my[c].todo : Put(c, "record", [my[c] EXCEPT !.todo = @ \ {j}, !.job = {j}])
    /\ UNCHANGED <<now, person, backlog, cand, asks, sends, check, out, ghosts, trouble>>

(* recordAsk: once, or not at all. *)
Record(c) ==
    /\ at[c] = "record"
    /\ \E j \in my[c].job :
         /\ IF ask[j] # "none"
            THEN /\ Put(c, IF my[c].auto THEN "skip" ELSE "act", IF my[c].auto THEN my[c] ELSE AtNext(c))
                 /\ UNCHANGED <<asks, raced>>
            ELSE /\ ask' = [ask EXCEPT ![j] = IF my[c].auto THEN "sent" ELSE "checking"]
                 /\ made' = [made EXCEPT ![j] = Day(my[c].time)]
                 /\ notify' = [notify EXCEPT ![j] = AskDay(my[c].time)]
                 /\ raced' = raced \cup UNION {my[d].job : d \in {x \in Cycles \ {c} : at[x] = "record"}}
                 /\ Put(c, "skip", my[c])
    /\ UNCHANGED <<now, person, backlog, cand, sends, check, out, moved, lost, trouble>>

Skip(c) ==
    /\ at[c] = "skip"
    /\ \E j \in my[c].job : SkipAlert(j)
    /\ IF my[c].auto THEN Put(c, "act", AtNext(c)) ELSE Put(c, "queue", my[c])
    /\ UNCHANGED <<now, person, backlog, asks, sends, check, out, ghosts, trouble>>

QueueCheck(c) ==
    /\ at[c] = "queue"
    /\ check' = [j \in Jobs |-> IF j \in my[c].job THEN "running" ELSE check[j]]
    /\ Put(c, "act", AtNext(c))
    /\ UNCHANGED <<now, person, backlog, cand, asks, sends, out, ghosts, trouble>>

Skipped(j) == ask' = [ask EXCEPT ![j] = IF @ = "checking" THEN "skipped" ELSE @]

(* A check that cannot start: the ask is skipped and the alert restored.   *)
QueueRefused(c) ==
    /\ at[c] = "queue"
    /\ \E j \in my[c].job : Skipped(j)
    /\ Put(c, "restore", my[c])
    /\ UNCHANGED <<now, person, backlog, cand, made, notify, sends, check, out, ghosts, trouble>>

Restore(c) ==
    /\ at[c] = "restore"
    /\ \E j \in my[c].job : RestoreAlert(j)
    /\ Put(c, "act", AtNext(c))
    /\ UNCHANGED <<now, person, backlog, asks, sends, check, out, ghosts, trouble>>

(* The jobs not acted on are left to their alerts: no device, no allowance, *)
(* no resume, the posting closed, no room.                                 *)
Done(c) ==
    /\ at[c] = "act"
    /\ Put(c, "clear", [my[c] EXCEPT !.todo = {}])
    /\ UNCHANGED <<now, person, backlog, cand, asks, sends, check, out, ghosts, trouble>>

Clear(c) ==
    /\ at[c] = "clear"
    /\ backlog' = backlog \ my[c].jobs
    /\ Put(c, "off", Nothing)
    /\ UNCHANGED <<now, person, cand, asks, sends, check, out, ghosts, trouble>>

(* Another cycle cleared this one's job, or is about to. *)
Overtaken(c, j) ==
    j \notin backlog \/ \E d \in Cycles \ {c} : j \in my[d].jobs /\ at[d] # "create"

(* An invocation that dies.  The next cycle takes up its jobs, those it    *)
(* skipped included, unless it was overtaken.                              *)
Dies(c) ==
    /\ at[c] # "off" /\ Fault("crash")
    /\ lost' = lost \cup {j \in my[c].job : at[c] \in {"queue", "restore"} /\ Overtaken(c, j)}
    /\ Put(c, "off", Nothing)
    /\ UNCHANGED <<now, person, backlog, cand, asks, sends, check, out, moved, raced>>

(* A statement of one job fails: it is logged, and the next job's turn.    *)
JobFails(c) ==
    /\ at[c] \in {"record", "skip", "queue", "restore"} /\ Fault("error")
    /\ lost' = lost \cup (IF at[c] \in {"queue", "restore"} THEN my[c].job ELSE {})
    /\ Put(c, "act", AtNext(c))
    /\ UNCHANGED <<now, person, backlog, cand, asks, sends, check, out, moved, raced>>

-----------------------------------------------------------------------------
(* The check's end: concludeAskCheck.                                      *)

At(j, from, to) == check[j] = from /\ check' = [check EXCEPT ![j] = to]

Wanted(j) == j \notin applied /\ mode # "off" /\ ~paused

CheckPasses(j) ==
    /\ ask[j] = "checking" /\ Wanted(j)
    /\ At(j, "running", "push")
    /\ ask' = [ask EXCEPT ![j] = "asked"]
    /\ notify' = [notify EXCEPT ![j] = AskDay(now)]
    /\ moved' = IF notify[j] = AskDay(now) THEN moved ELSE moved \cup {j}
    /\ UNCHANGED <<now, person, backlog, cand, made, sends, cycle, out, raced, lost, trouble>>

Push(j) ==
    /\ At(j, "push", "quiet")
    /\ pushed' = pushed \cup {j}
    /\ UNCHANGED <<now, person, backlog, cand, asks, sends, cycle, alerted, ghosts, trouble>>

KeepQuiet(j) ==
    /\ At(j, "quiet", "done")
    /\ SkipAlert(j)
    /\ UNCHANGED <<now, person, backlog, asks, sends, cycle, out, ghosts, trouble>>

(* Also when it passed and is not wanted any more. *)
CheckFails(j) ==
    /\ ask[j] = "checking"
    /\ At(j, "running", "restore")
    /\ Skipped(j)
    /\ UNCHANGED <<now, person, backlog, cand, made, notify, sends, cycle, out, ghosts, trouble>>

HandBack(j) ==
    /\ At(j, "restore", "done")
    /\ RestoreAlert(j)
    /\ UNCHANGED <<now, person, backlog, asks, sends, cycle, out, ghosts, trouble>>

(* Its end is recorded before it concludes, and a failure to conclude is   *)
(* only logged: nothing takes it up again.                                 *)
CheckStops(j) ==
    /\ \E place \in {"running", "push", "quiet", "restore"} : At(j, place, "done")
    /\ Fault("crash") \/ Fault("error")
    /\ lost' = IF check[j] = "quiet" THEN lost ELSE lost \cup {j}
    /\ UNCHANGED <<now, person, backlog, cand, asks, sends, cycle, out, moved, raced>>

-----------------------------------------------------------------------------
(* The person, and time.                                                   *)

ChangeSettings ==
    /\ Trouble
    /\ \E m \in {"ask", "auto", "off"}, b \in BOOLEAN : <<m, b>> # <<mode, paused>> /\ mode' = m /\ paused' = b
    /\ UNCHANGED <<now, applied, backlog, cand, asks, sends, check, cycle, out, ghosts>>

Dismiss(j) ==
    /\ j \in pushed /\ ask[j] = "asked"
    /\ ask' = [ask EXCEPT ![j] = "dismissed"]
    /\ UNCHANGED <<now, person, backlog, cand, made, notify, sends, check, cycle, out, ghosts, trouble>>

(* Apply on the push, a dismissed one included: the send, then the ask.    *)
Apply(j) ==
    /\ j \in pushed /\ ask[j] \in {"asked", "dismissed"}
    /\ j \notin sends /\ j \notin applied
    /\ sends' = sends \cup {j}
    /\ ask' = [ask EXCEPT ![j] = "applied"]
    /\ UNCHANGED <<now, person, backlog, cand, made, notify, check, cycle, out, ghosts, trouble>>

AppliesHerself(j) ==
    /\ j \notin applied /\ Trouble
    /\ applied' = applied \cup {j}
    /\ UNCHANGED <<now, mode, paused, backlog, cand, asks, sends, check, cycle, out, ghosts>>

Tick ==
    /\ now < MaxTime
    /\ now' = now + 1
    /\ UNCHANGED <<person, backlog, cand, asks, sends, check, cycle, out, ghosts, trouble>>

Step(c) ==
    \/ Create(c) \/ People(c) \/ QueueSend(c) \/ FindRoom(c) \/ Record(c) \/ Skip(c)
    \/ QueueCheck(c) \/ QueueRefused(c) \/ Restore(c) \/ Done(c) \/ Clear(c)

Conclude(j) == CheckPasses(j) \/ CheckFails(j) \/ Push(j) \/ KeepQuiet(j) \/ HandBack(j)

Next ==
    \/ Tick \/ ChangeSettings
    \/ \E c \in Cycles : Load(c, TRUE) \/ Load(c, FALSE) \/ Step(c) \/ Dies(c) \/ JobFails(c)
    \/ \E j \in Jobs :
         \/ Deliver(j) \/ DeliveryFails(j) \/ Conclude(j) \/ CheckStops(j)
         \/ Dismiss(j) \/ Apply(j) \/ AppliesHerself(j)

Spec == Init /\ [][Next]_vars

-----------------------------------------------------------------------------
(* Safety.                                                                 *)

(* At work on a job whose alert is held back. *)
Held(j) ==
    \/ check[j] \notin {"none", "done"}
    \/ \E c \in Cycles : j \in my[c].job /\ at[c] \in {"queue", "restore"}

(* "A check that didn't ask hands the job back to its new-job alert": a    *)
(* job that left the backlog has an alert on its way, or an ask or a send  *)
(* in its place, or somebody at work on it.  A cycle that dies is repaired *)
(* by the next, which revives what it skipped.                             *)
NobodyForgotten ==
    \A j \in Jobs :
        \/ j \in backlog \/ cand[j] \in {"pending", "sending", "retry", "sent"}
        \/ ask[j] \in {"asked", "applied", "dismissed", "sent"} \/ j \in sends
        \/ Held(j) \/ j \in lost

(* "At most ASKS_PER_DAY a day": no day has more asks, but for those whose *)
(* day changed while their form was checked, and those two cycles found    *)
(* the same room for.                                                      *)
AsksADay == \A d \in Days : Cardinality(AsksOn(d) \ (moved \cup raced)) <= AsksPerDay
=============================================================================
