---------------------------- MODULE NewJobAlerts ----------------------------
(***************************************************************************)
(* One person's new-job alerts: a candidate per job, a delivery per job    *)
(* and device, and the runs of deliverPendingNotifications that work them  *)
(* off.  Runs overlap: the notification cron, the notify queue's consumer, *)
(* the source poll and, for people on once a day, the every-minute tick    *)
(* all start one.  Meanwhile matching creates or revives candidates, the   *)
(* person turns alerts off and on, and devices come and go.                *)
(*                                                                         *)
(* One step of an action is one D1 statement or batch, or one push; runs   *)
(* interleave between them.  Every query is scoped by user: one person is  *)
(* enough, and the others only make a run take longer.                     *)
(***************************************************************************)
EXTENDS Naturals, FiniteSets

CONSTANTS
    Jobs, Devices,
    Runs,       \* runs that may be under way at once
    Modes,      \* how the person starts: TRUE is "once a day", FALSE "as they post"
    Events,     \* what else goes on: "matches", "profile", "settings", "devices"
    Faults,     \* what may go wrong: "crash", "slow", "answer"
    MaxFaults,  \* bound: faults in a behaviour
    MaxTokens,  \* bound: times a device registers
    MaxDays     \* bound: days of the person's digests

ASSUME AlertsAssumption ==
    /\ Modes \subseteq BOOLEAN
    /\ Events \subseteq {"matches", "profile", "settings", "devices"}
    /\ Faults \subseteq {"crash", "slow", "answer"}
    /\ MaxFaults \in Nat /\ MaxTokens \in Nat \ {0} /\ MaxDays \in Nat \ {0}

MaxAttempts == 3

Least(m, n) == IF m <= n THEN m ELSE n

(* A push_subscriptions row: the device and which of its registrations.    *)
Subs == Devices \X (1 .. MaxTokens)

Waiting == {"pending", "retry"}
CandStates == {"none", "sending", "sent", "failed", "skipped"} \cup Waiting
RowStates == {"none", "sending", "sent", "failed"} \cup Waiting
Active == Waiting \cup {"sending"}

VARIABLES
    cand,      \* notification_candidates.status of each job, "none" before it
    ctries,    \* attempt_count, counted up to MaxAttempts
    row,       \* notification_deliveries.status of each job and registration
    rtries,    \* its attempt_count
    old,       \* claims older than ten minutes: jobs, and rows
    reg,       \* each device's registration, 0 when it has none
    tokens,    \* how often each device registered so far
    matched,   \* jobs that still match the person and are open
    enabled,   \* the job-alert switch, push_enabled included
    daily,     \* its mode: "once a day", not "as they post"
    day, digest, \* today, and the day's claim in notification_log
    making,    \* where the matching of each job is
    switch,    \* where the request that changes the setting is
    run,       \* where each run is
    local,     \* each run's locals
    alerts,    \* pushes about each job that reached each registration
    pushes,    \* digests that reached each device, per day
    seized,    \* jobs whose claim was taken from a run at work on them, until one
               \* claims them that no other run is at work on
    faults     \* faults so far

table   == <<cand, ctries, row, rtries, old>>
person  == <<reg, tokens, matched, enabled, daily>>
days    == <<day, digest>>
others  == <<making, switch>>
outside == <<alerts, pushes, seized>>
vars    == <<table, person, days, others, run, local, outside, faults>>

(* What a run remembers between two awaits: the day it was started for, its *)
(* candidates, the subscriptions it has not come to, the delivery rows it   *)
(* read with their attempts, those of the subscription it is sending to, how*)
(* the push went, whether some device took it, and the status to write.     *)
Nothing == [key |-> 0, picks |-> {}, subs |-> {}, seen |-> {}, sending |-> {},
            went |-> "ok", took |-> FALSE, verdict |-> "none", job |-> {}]

SeenRows == Jobs \X Subs \X (0 .. MaxAttempts - 1)

Places == {"off", "reap", "reaprows", "sift", "select", "mismatch", "claim", "devices",
           "day", "rows", "read", "next", "send", "record", "drop", "log",
           "settle", "write", "markall"}

TypeOK ==
    /\ cand \in [Jobs -> CandStates]
    /\ ctries \in [Jobs -> 0 .. MaxAttempts]
    /\ row \in [Jobs \X Subs -> RowStates]
    /\ rtries \in [Jobs \X Subs -> 0 .. MaxAttempts]
    /\ old \in [jobs : SUBSET Jobs, rows : SUBSET (Jobs \X Subs)]
    /\ reg \in [Devices -> 0 .. MaxTokens]
    /\ tokens \in [Devices -> 0 .. MaxTokens]
    /\ matched \subseteq Jobs
    /\ enabled \in BOOLEAN /\ daily \in BOOLEAN
    /\ day \in 1 .. MaxDays
    /\ digest \in [1 .. MaxDays -> {"none", "sending", "sent", "failed"}]
    /\ making \in [Jobs -> {"idle", "insert", "revive"}]
    /\ switch \in {"idle", "off", "on", "onrows"}
    /\ run \in [Runs -> Places]
    /\ local \in [Runs -> [key : 0 .. MaxDays, picks : SUBSET Jobs, subs : SUBSET Subs,
                           seen : SUBSET SeenRows, sending : SUBSET SeenRows,
                           went : {"ok", "fail", "dead"}, took : BOOLEAN,
                           verdict : {"none", "retry", "sent", "failed", "skipped"},
                           job : SUBSET Jobs]]
    /\ alerts \in [Jobs \X Subs -> 0 .. MaxFaults + 2]
    /\ pushes \in [Devices \X (1 .. MaxDays) -> 0 .. MaxFaults + 2]
    /\ seized \subseteq Jobs
    /\ faults \in 0 .. MaxFaults

Init ==
    /\ cand = [j \in Jobs |-> "none"]
    /\ ctries = [j \in Jobs |-> 0]
    /\ row = [x \in Jobs \X Subs |-> "none"]
    /\ rtries = [x \in Jobs \X Subs |-> 0]
    /\ old = [jobs |-> {}, rows |-> {}]
    /\ reg = [d \in Devices |-> 1]
    /\ tokens = [d \in Devices |-> 1]
    /\ matched = Jobs
    /\ enabled = TRUE
    /\ daily \in Modes
    /\ day = 1
    /\ digest = [n \in 1 .. MaxDays |-> "none"]
    /\ making = [j \in Jobs |-> "idle"]
    /\ switch = "idle"
    /\ run = [r \in Runs |-> "off"]
    /\ local = [r \in Runs |-> Nothing]
    /\ alerts = [x \in Jobs \X Subs |-> 0]
    /\ pushes = [x \in Devices \X (1 .. MaxDays) |-> 0]
    /\ seized = {}
    /\ faults = 0

Registered(s) == reg[s[1]] = s[2]
Registrations == {s \in Subs : Registered(s)}

(* The jobs a run is at work on, and those some run is. *)
Holds(r) == IF run[r] \in {"off", "reap", "reaprows", "sift", "select", "mismatch", "claim"} THEN {}
            ELSE local[r].picks \cup local[r].job

Held == UNION {Holds(r) : r \in Runs}
Claimed == {j \in Jobs : cand[j] = "sending"}

-----------------------------------------------------------------------------
(* createNotificationCandidates: reads who matches, inserts the candidates *)
(* (or revives the ones that failed or were skipped), then the deliveries  *)
(* that failed.  A job comes back when its content is repaired or when a   *)
(* cycle died before it cleared the backlog.                               *)

Make(j, from, to) == making[j] = from /\ making' = [making EXCEPT ![j] = to]

Match(j) ==
    /\ j \in matched /\ enabled /\ Registrations # {}
    /\ "matches" \in Events \/ cand[j] = "none"
    /\ Make(j, "idle", "insert")
    /\ UNCHANGED <<table, person, days, switch, run, local, outside, faults>>

(* The statuses ON CONFLICT revives: anything under way or sent stays.      *)
Revived == {"none", "failed", "skipped"}

Insert(j) ==
    /\ Make(j, "insert", "revive")
    /\ IF cand[j] \in Revived
       THEN /\ cand' = [cand EXCEPT ![j] = "pending"]
            /\ ctries' = [ctries EXCEPT ![j] = 0]
       ELSE UNCHANGED <<cand, ctries>>
    /\ UNCHANGED <<row, rtries, old, person, days, switch, run, local, outside, faults>>

(* UPDATE notification_deliveries SET status = 'retry', attempt_count = 0  *)
(* WHERE status = 'failed', for the candidates C.                          *)
ReviveRows(C) ==
    LET back == {x \in Jobs \X Subs : x[1] \in C /\ row[x] = "failed"} IN
    /\ row' = [x \in DOMAIN row |-> IF x \in back THEN "retry" ELSE row[x]]
    /\ rtries' = [x \in DOMAIN rtries |-> IF x \in back THEN 0 ELSE rtries[x]]

Revive(j) ==
    /\ Make(j, "revive", "idle")
    /\ ReviveRows({i \in {j} : cand[i] = "pending"})
    /\ UNCHANGED <<cand, ctries, old, person, days, switch, run, local, outside, faults>>

-----------------------------------------------------------------------------
(* setNewJobAlerts writes the switch and requeueNewJobCandidates lines up  *)
(* or drops what is queued, one statement at a time.  The route of older   *)
(* builds does so whether or not the switch changed.                       *)

Turn(from, to) == switch = from /\ switch' = to

SwitchOff ==
    /\ "settings" \in Events
    /\ Turn("idle", "off")
    /\ enabled' = FALSE
    /\ UNCHANGED <<table, reg, tokens, matched, daily, days, making, run, local, outside, faults>>

SwitchOn ==
    /\ "settings" \in Events
    /\ Turn("idle", "on")
    /\ enabled' = TRUE
    /\ UNCHANGED <<table, reg, tokens, matched, daily, days, making, run, local, outside, faults>>

DropQueued ==
    /\ Turn("off", "idle")
    /\ cand' = [j \in Jobs |-> IF cand[j] \in Waiting THEN "skipped" ELSE cand[j]]
    /\ UNCHANGED <<ctries, row, rtries, old, person, days, making, run, local, outside, faults>>

ReviveQueued ==
    /\ Turn("on", "onrows")
    /\ LET back == {j \in matched : cand[j] \in {"failed", "skipped"}} IN
       /\ cand' = [j \in Jobs |-> IF j \in back THEN "retry" ELSE cand[j]]
       /\ ctries' = [j \in Jobs |-> IF j \in back THEN 0 ELSE ctries[j]]
    /\ UNCHANGED <<row, rtries, old, person, days, making, run, local, outside, faults>>

ReviveQueuedRows ==
    /\ Turn("onrows", "idle")
    /\ ReviveRows({j \in Jobs : cand[j] = "retry"})
    /\ UNCHANGED <<cand, ctries, old, person, days, making, run, local, outside, faults>>

-----------------------------------------------------------------------------
(* Devices and matches.  Deleting a subscription deletes its deliveries.   *)

Cascade(s) ==
    /\ row' = [x \in DOMAIN row |-> IF x[2] = s THEN "none" ELSE row[x]]
    /\ rtries' = [x \in DOMAIN rtries |-> IF x[2] = s THEN 0 ELSE rtries[x]]
    /\ old' = [old EXCEPT !.rows = {x \in @ : x[2] # s}]

(* A device registers, or rotates its token: the superseded subscription is *)
(* deleted and the new one has an id of its own.                            *)
Register(d) ==
    /\ "devices" \in Events
    /\ tokens[d] < MaxTokens
    /\ tokens' = [tokens EXCEPT ![d] = @ + 1]
    /\ reg' = [reg EXCEPT ![d] = tokens[d] + 1]
    /\ Cascade(<<d, reg[d]>>)
    /\ UNCHANGED <<cand, ctries, matched, enabled, daily, days, others, run, local, outside, faults>>

Unregister(d) ==
    /\ "devices" \in Events
    /\ reg[d] # 0
    /\ reg' = [reg EXCEPT ![d] = 0]
    /\ Cascade(<<d, reg[d]>>)
    /\ UNCHANGED <<cand, ctries, tokens, matched, enabled, daily, days, others, run, local, outside, faults>>

(* The person's preferences change, or the job closes or opens again. *)
Rematch(j) ==
    /\ "matches" \in Events
    /\ matched' = IF j \in matched THEN matched \ {j} ELSE matched \cup {j}
    /\ UNCHANGED <<table, reg, tokens, enabled, daily, days, others, run, local, outside, faults>>

(* A profile edit deletes every match and skips what is queued, the        *)
(* candidates a run is working on included.                                *)
ChangePreferences ==
    /\ "profile" \in Events
    /\ matched # {}
    /\ matched' = {}
    /\ cand' = [j \in Jobs |-> IF cand[j] \in Active THEN "skipped" ELSE cand[j]]
    /\ seized' = seized \cup (Claimed \cap Held)
    /\ UNCHANGED <<ctries, row, rtries, old, reg, tokens, enabled, daily, days, others, run, local,
                   alerts, pushes, faults>>

NextDay ==
    /\ day < MaxDays
    /\ day' = day + 1
    /\ UNCHANGED <<table, person, digest, others, run, local, outside, faults>>

-----------------------------------------------------------------------------
(* A run of deliverPendingNotifications.                                   *)

Step(r, from, to) == run[r] = from /\ run' = [run EXCEPT ![r] = to]

Over(r, from) ==
    /\ run[r] = from
    /\ run' = [run EXCEPT ![r] = "off"]
    /\ local' = [local EXCEPT ![r] = Nothing]

(* dailyDigestsDue, or a run for the people on "as they post". *)
DigestDue ==
    /\ daily /\ enabled
    /\ digest[day] = "none"
    /\ \E j \in Jobs : cand[j] \in Waiting

Begin(r) ==
    /\ Step(r, "off", "reap")
    /\ \/ UNCHANGED local
       \/ DigestDue /\ local' = [local EXCEPT ![r].key = day]
    /\ UNCHANGED <<table, person, days, others, outside, faults>>

(* Claims older than ten minutes are put back, or given up. *)
Expired(tries) == IF tries >= MaxAttempts THEN "failed" ELSE "retry"

ReapCandidates(r) ==
    /\ Step(r, "reap", "reaprows")
    /\ LET dead == {j \in old.jobs : cand[j] = "sending"} IN
       cand' = [j \in Jobs |-> IF j \in dead THEN Expired(ctries[j]) ELSE cand[j]]
    /\ old' = [old EXCEPT !.jobs = {}]
    /\ UNCHANGED <<ctries, row, rtries, person, days, others, local, outside, faults>>

ReapRows(r) ==
    /\ Step(r, "reaprows", "sift")
    /\ LET dead == {x \in old.rows : row[x] = "sending"} IN
       row' = [x \in DOMAIN row |-> IF x \in dead THEN Expired(rtries[x]) ELSE row[x]]
    /\ old' = [old EXCEPT !.rows = {}]
    /\ UNCHANGED <<cand, ctries, rtries, person, days, others, local, outside, faults>>

(* What no longer matches is skipped. *)
Sift(r) ==
    /\ Step(r, "sift", "select")
    /\ cand' = [j \in Jobs |-> IF cand[j] \in Waiting /\ j \notin matched THEN "skipped" ELSE cand[j]]
    /\ UNCHANGED <<ctries, row, rtries, old, person, days, others, local, outside, faults>>

(* Once-a-day people wait for their digest.                                *)
Selected(r) == {j \in matched : /\ cand[j] \in Waiting
                                /\ enabled
                                /\ local[r].key = 0 => ~daily}

(* Those the live preferences rule out, though their match is still there, *)
(* are skipped first.                                                      *)
Select(r) ==
    \E ruledOut \in SUBSET Selected(r) :
        /\ ruledOut # {} => "matches" \in Events
        /\ IF Selected(r) = {}
           THEN Over(r, "select")
           ELSE /\ Step(r, "select", IF ruledOut = {} THEN "claim" ELSE "mismatch")
                /\ local' = [local EXCEPT ![r].picks = Selected(r) \ ruledOut, ![r].job = ruledOut]
        /\ UNCHANGED <<table, person, days, others, outside, faults>>

(* A claim takes what is still waiting by then. *)
StillWaiting(j) == cand[j] \in Waiting

SkipRuledOut(r) ==
    /\ IF local[r].picks = {}
       THEN Over(r, "mismatch")
       ELSE Step(r, "mismatch", "claim") /\ local' = [local EXCEPT ![r].job = {}]
    /\ cand' = [j \in Jobs |-> IF j \in local[r].job /\ StillWaiting(j) THEN "skipped" ELSE cand[j]]
    /\ UNCHANGED <<ctries, row, rtries, old, person, days, others, outside, faults>>

Claim(r) ==
    LET mine == {j \in local[r].picks : StillWaiting(j)} IN
    /\ run[r] = "claim"
    /\ IF mine = {}
       THEN Over(r, "claim")
       ELSE Step(r, "claim", "devices") /\ local' = [local EXCEPT ![r].picks = mine]
    /\ cand' = [j \in Jobs |-> IF j \in mine THEN "sending" ELSE cand[j]]
    /\ ctries' = [j \in Jobs |-> IF j \in mine THEN Least(ctries[j] + 1, MaxAttempts) ELSE ctries[j]]
    /\ old' = [old EXCEPT !.jobs = @ \ mine]
    /\ seized' = seized \ (mine \ Held)
    /\ UNCHANGED <<row, rtries, person, days, others, alerts, pushes, faults>>

ReadDevices(r) ==
    /\ IF Registrations = {}
       THEN /\ Step(r, "devices", "markall")
            /\ local' = [local EXCEPT ![r].verdict = "skipped"]
       ELSE /\ Step(r, "devices", IF local[r].key = 0 THEN "rows" ELSE "day")
            /\ local' = [local EXCEPT ![r].subs = Registrations]
    /\ UNCHANGED <<table, person, days, others, outside, faults>>

MarkAll(r) ==
    /\ Over(r, "markall")
    /\ cand' = [j \in Jobs |-> IF j \in local[r].picks THEN local[r].verdict ELSE cand[j]]
    /\ UNCHANGED <<ctries, row, rtries, old, person, days, others, outside, faults>>

(* INSERT OR IGNORE of the day's key: one run has the day. *)
TakesDay_Always(r) == TRUE

TakesDay(r) == digest[local[r].key] = "none"

ClaimDay(r) ==
    /\ run[r] = "day"
    /\ IF TakesDay(r)
       THEN /\ Step(r, "day", "rows")
            /\ digest' = [digest EXCEPT ![local[r].key] = "sending"]
            /\ UNCHANGED local
       ELSE /\ Step(r, "day", "markall")
            /\ local' = [local EXCEPT ![r].verdict = "retry"]
            /\ UNCHANGED digest
    /\ UNCHANGED <<table, person, day, others, outside, faults>>

(* A delivery per candidate and subscription; a subscription deleted since *)
(* it was read is a foreign key that fails the batch, and the run with it. *)
MakeRows(r) ==
    /\ IF \A s \in local[r].subs : Registered(s)
       THEN /\ Step(r, "rows", "read")
            /\ row' = [x \in DOMAIN row |->
                         IF row[x] = "none" /\ x[1] \in local[r].picks /\ x[2] \in local[r].subs
                         THEN "pending" ELSE row[x]]
            /\ UNCHANGED local
       ELSE Over(r, "rows") /\ UNCHANGED row
    /\ UNCHANGED <<cand, ctries, rtries, old, person, days, others, outside, faults>>

(* A delivery still to be tried. *)
Owed_AnyStatus(x) == row[x] # "none" /\ rtries[x] < MaxAttempts

Owed(x) == row[x] \in Waiting /\ rtries[x] < MaxAttempts

ReadRows(r) ==
    /\ Step(r, "read", "next")
    /\ local' = [local EXCEPT ![r].seen =
         {<<x[1], x[2], rtries[x]>> : x \in {y \in local[r].picks \X local[r].subs : Owed(y)}}]
    /\ UNCHANGED <<table, person, days, others, outside, faults>>

(* The next subscription's deliveries are claimed. *)
NextDevice(r) ==
    run[r] = "next" /\ \E s \in local[r].subs :
        LET mine == {y \in local[r].seen : y[2] = s /\ Owed(<<y[1], s>>)}
            taken == {<<y[1], s>> : y \in mine}
        IN
        /\ Step(r, "next", IF mine = {} THEN "next" ELSE "send")
        /\ local' = [local EXCEPT ![r].subs = @ \ {s}, ![r].sending = mine,
                                  ![r].seen = {y \in @ : y[2] # s}]
        /\ row' = [y \in DOMAIN row |-> IF y \in taken THEN "sending" ELSE row[y]]
        /\ rtries' = [y \in DOMAIN rtries |-> IF y \in taken THEN rtries[y] + 1 ELSE rtries[y]]
        /\ old' = [old EXCEPT !.rows = @ \ taken]
        /\ UNCHANGED <<cand, ctries, person, days, others, outside, faults>>

(* One push for all of them.  Its answer may be lost. *)
Sending(r) == {<<y[1], y[2]>> : y \in local[r].sending}

Arrives(r) ==
    /\ alerts' = [x \in DOMAIN alerts |->
                    IF x \in Sending(r) THEN Least(alerts[x] + 1, MaxFaults + 2) ELSE alerts[x]]
    /\ pushes' = [p \in DOMAIN pushes |->
                    IF p[2] = local[r].key /\ \E x \in Sending(r) : x[2][1] = p[1]
                    THEN Least(pushes[p] + 1, MaxFaults + 2) ELSE pushes[p]]

Send(r) ==
    /\ Step(r, "send", "record")
    /\ \/ /\ Arrives(r)
          /\ local' = [local EXCEPT ![r].went = "ok", ![r].took = TRUE]
          /\ UNCHANGED faults
       \/ /\ local' \in {[local EXCEPT ![r].went = w] : w \in {"fail", "dead"}}
          /\ UNCHANGED <<alerts, pushes, faults>>
       \/ /\ "answer" \in Faults /\ faults < MaxFaults
          /\ faults' = faults + 1
          /\ Arrives(r)
          /\ local' = [local EXCEPT ![r].went = "fail"]
    /\ UNCHANGED <<table, person, days, others, seized>>

(* The status follows from the attempts the run read, not those it made.   *)
FailureStatus_FourTries(n) == IF n + 1 > MaxAttempts THEN "failed" ELSE "retry"

FailureStatus(n) == IF n + 1 >= MaxAttempts THEN "failed" ELSE "retry"

Record(r) ==
    /\ Step(r, "record", IF local[r].went = "dead" THEN "drop" ELSE "next")
    /\ row' = [x \in DOMAIN row |->
                 IF row[x] = "none" \/ x \notin Sending(r) THEN row[x]
                 ELSE IF local[r].went = "ok" THEN "sent"
                 ELSE FailureStatus((CHOOSE y \in local[r].sending : y[1] = x[1])[3])]
    /\ local' = [local EXCEPT ![r].sending = IF local[r].went = "dead" THEN @ ELSE {},
                              ![r].went = IF @ = "dead" THEN @ ELSE "ok"]
    /\ UNCHANGED <<cand, ctries, rtries, old, person, days, others, outside, faults>>

(* A subscription its push service calls dead is deleted. *)
DropDead(r) ==
    /\ Step(r, "drop", "next")
    /\ LET s == (CHOOSE y \in local[r].sending : TRUE)[2] IN
       IF Registered(s)
       THEN reg' = [reg EXCEPT ![s[1]] = 0] /\ Cascade(s)
       ELSE UNCHANGED <<reg, row, rtries, old>>
    /\ local' = [local EXCEPT ![r].sending = {}, ![r].went = "ok"]
    /\ UNCHANGED <<cand, ctries, tokens, matched, enabled, daily, days, others, outside, faults>>

(* Every subscription was tried: the digest's row in the log is closed. *)
Log(r) ==
    /\ local[r].subs = {}
    /\ Step(r, "next", "settle")
    /\ digest' = IF local[r].key = 0 THEN digest
                 ELSE [digest EXCEPT ![local[r].key] = IF local[r].took THEN "sent" ELSE "failed"]
    /\ UNCHANGED <<table, person, day, others, local, outside, faults>>

-----------------------------------------------------------------------------
(* Each candidate's deliveries are counted, then its status is written,    *)
(* whatever it is by then.                                                 *)

Some(j, S) == \E s \in Subs : row[<<j, s>>] \in S

Verdict_SentFirst(j) ==
    IF Some(j, {"sent"}) THEN "sent"
    ELSE IF Some(j, Active) THEN "retry"
    ELSE IF Some(j, {"failed"}) THEN "failed" ELSE "skipped"

Verdict_AnyRowSent(j) ==
    IF Some(j, Active) THEN "retry"
    ELSE IF Some(j, RowStates \ {"none"}) THEN "sent" ELSE "skipped"

Verdict(j) ==
    IF Some(j, Active) THEN "retry"
    ELSE IF Some(j, {"sent"}) THEN "sent"
    ELSE IF Some(j, {"failed"}) THEN "failed" ELSE "skipped"

Count(r) ==
    \E j \in local[r].picks :
        /\ Step(r, "settle", "write")
        /\ local' = [local EXCEPT ![r].job = {j}, ![r].verdict = Verdict(j),
                                  ![r].picks = @ \ {j}]
        /\ UNCHANGED <<table, person, days, others, outside, faults>>

Write(r) ==
    /\ IF local[r].picks = {}
       THEN Over(r, "write")
       ELSE Step(r, "write", "settle") /\ local' = [local EXCEPT ![r].job = {}, ![r].verdict = "none"]
    /\ cand' = [j \in Jobs |-> IF j \in local[r].job THEN local[r].verdict ELSE cand[j]]
    /\ UNCHANGED <<ctries, row, rtries, old, person, days, others, outside, faults>>

-----------------------------------------------------------------------------
(* A run dies between two awaits; the claims of a run that is over grow    *)
(* old; a run that hangs on a push service may outlive its own.            *)

Die(r) ==
    /\ "crash" \in Faults /\ faults < MaxFaults
    /\ run[r] # "off"
    /\ faults' = faults + 1
    /\ Over(r, run[r])
    /\ UNCHANGED <<table, person, days, others, outside>>

ClaimedRows == {x \in Jobs \X Subs : row[x] = "sending"}

HoldsRows(r) == IF run[r] \in {"send", "record"} THEN Sending(r) ELSE {}

Orphans == Claimed \ Held
OrphanRows == ClaimedRows \ UNION {HoldsRows(r) : r \in Runs}

Age(js, xs) ==
    /\ ~(js \subseteq old.jobs /\ xs \subseteq old.rows)
    /\ old' = [jobs |-> old.jobs \cup js, rows |-> old.rows \cup xs]
    /\ UNCHANGED <<cand, ctries, row, rtries, person, days, others, run, local, alerts, pushes>>

TenMinutes == Age(Orphans, OrphanRows) /\ UNCHANGED <<seized, faults>>

Hang ==
    /\ "slow" \in Faults /\ faults < MaxFaults
    /\ faults' = faults + 1
    /\ Age(Claimed, ClaimedRows)
    /\ seized' = seized \cup (Claimed \cap Held)

-----------------------------------------------------------------------------
RunStep(r) ==
    \/ ReapCandidates(r) \/ ReapRows(r) \/ Sift(r) \/ Select(r) \/ SkipRuledOut(r) \/ Claim(r)
    \/ ReadDevices(r) \/ MarkAll(r) \/ ClaimDay(r) \/ MakeRows(r) \/ ReadRows(r)
    \/ NextDevice(r) \/ Send(r) \/ Record(r) \/ DropDead(r) \/ Log(r)
    \/ Count(r) \/ Write(r)

Next ==
    \/ \E r \in Runs : Begin(r) \/ RunStep(r) \/ Die(r)
    \/ \E j \in Jobs : Match(j) \/ Insert(j) \/ Revive(j) \/ Rematch(j)
    \/ SwitchOff \/ SwitchOn \/ DropQueued \/ ReviveQueued \/ ReviveQueuedRows
    \/ \E d \in Devices : Register(d) \/ Unregister(d)
    \/ ChangePreferences \/ NextDay \/ TenMinutes \/ Hang

Spec == Init /\ [][Next]_vars

(* The cron keeps starting runs, a run that started goes on, time passes.  *)
Fairness ==
    /\ \A r \in Runs : WF_vars(Begin(r)) /\ WF_vars(RunStep(r))
    /\ \A j \in Jobs : WF_vars(Insert(j) \/ Revive(j))
    /\ WF_vars(DropQueued \/ ReviveQueued \/ ReviveQueuedRows)
    /\ WF_vars(TenMinutes)

FairSpec == Spec /\ Fairness

-----------------------------------------------------------------------------
(* Safety.                                                                 *)

(* A registration is alerted once about a job, however runs overlap and    *)
(* whatever revives the candidate; each crash, lost answer or run slower   *)
(* than its claims costs at most one repeat.                               *)
AlertedOnce == \A x \in DOMAIN alerts : alerts[x] <= 1 + faults

(* "One a day, whatever happens": a device gets one digest a day, faults   *)
(* and overlapping ticks included.                                         *)
DigestOnce == \A p \in DOMAIN pushes : pushes[p] <= 1

(* A run whose claim was taken from it, by a profile edit or after ten     *)
(* minutes, writes what it found all the same: nothing is said of such a   *)
(* candidate until a run claims it anew.                                   *)

(* A candidate recorded as sent owes no device anything: runs never select *)
(* it again, so an open delivery under it would never be made.             *)
NobodyForgotten ==
    \A x \in DOMAIN row : cand[x[1]] = "sent" /\ row[x] \in Active => x[1] \in seized

(* How a candidate ended is true: sent only if some device got the alert,  *)
(* failed only if none is known to have, or if its claim expired a third   *)
(* time (the reaper does not look at the deliveries).                      *)
EndIsTrue ==
    /\ \A j \in Jobs : cand[j] = "sent" => \E x \in DOMAIN alerts : x[1] = j /\ alerts[x] > 0
    /\ \A x \in DOMAIN row : cand[x[1]] = "failed" /\ row[x] = "sent" =>
         ctries[x[1]] = MaxAttempts \/ x[1] \in seized

-----------------------------------------------------------------------------
(* Liveness.                                                               *)

(* "Stops retrying after the third failed attempt": while alerts are on as  *)
(* jobs are posted, and the matches have come to rest, every candidate     *)
(* queued is sent, given up or skipped in the end, unless the person saves *)
(* the setting once more, which gives it new attempts.                     *)
AlertsEnd ==
    \A j \in Jobs :
        <>[](j \in matched) \/ <>[](j \notin matched) =>
            (cand[j] \in Active ~> cand[j] \notin Active \/ ~enabled \/ daily \/ switch # "idle")
=============================================================================
