-------------------------- MODULE NotificationLog --------------------------
(***************************************************************************)
(* The notification log of one person: rows other parts schedule, and the  *)
(* every-minute tick (deliverDueNotifications) that sends what is due, in   *)
(* groups, under the cap on passive pushes, with retries and a reaper for  *)
(* the rows a dead tick left behind.  Nothing stops a tick from still      *)
(* running when the next minute's starts.                                  *)
(*                                                                         *)
(* One step of an action is one D1 statement or batch, or one push.  Time  *)
(* is a small number; what matters of the code's durations is their order: *)
(* RetryDelay (5 minutes) < ClaimExpiry (10 minutes) < Spacing (4 hours)   *)
(* < Window (24 hours).                                                    *)
(***************************************************************************)
EXTENDS Integers, FiniteSets

CONSTANTS
    Notes,      \* notification_log rows: a person and dedupe key each
    Kinds, KindOf,
    Capped,     \* passive kinds that wait for the cap and count toward it
    Unspaced,   \* those that skip the spacing (UNSPACED_KINDS)
    Grouped,    \* kinds whose due rows go as one push (GROUPS)
    Ticks,      \* ticks that may be under way at once
    PerDay, Spacing, Window, RetryDelay, ClaimExpiry,
    Switched,   \* bound: kinds the person may turn off
    MaxFaults,  \* bound: ticks that die, or answers lost
    MaxTime     \* bound: the last moment

ASSUME LogAssumption ==
    /\ IsFiniteSet(Notes) /\ KindOf \in [Notes -> Kinds]
    /\ Capped \subseteq Kinds /\ Unspaced \subseteq Capped /\ Grouped \subseteq Kinds
    /\ Switched \subseteq Kinds
    /\ PerDay \in Nat \ {0} /\ MaxFaults \in Nat /\ MaxTime \in Nat
    /\ RetryDelay \in Nat \ {0} /\ {ClaimExpiry, Spacing, Window} \subseteq Nat
    /\ RetryDelay < ClaimExpiry /\ ClaimExpiry < Spacing /\ Spacing < Window

MaxAttempts == 3

VARIABLES
    now,
    status,   \* notification_log.status, "none" before the INSERT
    due,      \* scheduled_for; once claimed, the moment of the claim
    tries,    \* attempt_count
    sentAt,   \* sent_at
    enabled,  \* the kinds the person has on
    turning,  \* kinds turned off whose scheduled rows are still to be skipped
    tick,     \* where each tick is
    local,    \* each tick's locals
    tried,    \* how many pushes were tried with each row
    pushes,   \* how many pushes with each row reached a device
    told,     \* the capped pushes that reached a device: [at, notes]
    stray,    \* rows a tick still had in hand when its claims expired
    overlapped,   \* a tick has begun while another was under way
    faults    \* faults so far

log     == <<status, due, tries, sentAt>>
setting == <<enabled, turning>>
outside == <<tried, pushes, told>>
marks   == <<stray, overlapped>>
vars    == <<now, log, setting, tick, local, outside, marks, faults>>

States == {"none", "scheduled", "sending", "sent", "failed", "skipped"}

(* A tick's locals: its now, the groups it has not come to, the one it is  *)
(* at, and what to write of it: a status, or a later moment and whether    *)
(* the attempt counts.                                                     *)
Nothing == [at |-> 0, groups |-> {}, group |-> {}, put |-> "none", until |-> 0, counts |-> TRUE]

Later == 0 .. MaxTime + Window

TypeOK ==
    /\ now \in 0 .. MaxTime
    /\ status \in [Notes -> States]
    /\ due \in [Notes -> Later]
    /\ tries \in [Notes -> Int] /\ \A n \in Notes \ stray : tries[n] \in 0 .. MaxAttempts
    /\ sentAt \in [Notes -> -1 .. MaxTime]
    /\ enabled \subseteq Kinds /\ turning \subseteq Kinds
    /\ tick \in [Ticks -> {"off", "reap", "claim", "next", "cap", "push", "write"}]
    /\ local \in [Ticks -> [at : 0 .. MaxTime, groups : SUBSET SUBSET Notes, group : SUBSET Notes,
                            put : States, until : Later, counts : BOOLEAN]]
    /\ tried \in [Notes -> Nat]
    /\ pushes \in [Notes -> Nat]
    /\ told \subseteq [at : 0 .. MaxTime, notes : SUBSET Notes]
    /\ stray \subseteq Notes /\ overlapped \in BOOLEAN
    /\ faults \in 0 .. MaxFaults

Init ==
    /\ now = 0
    /\ status = [n \in Notes |-> "none"]
    /\ due = [n \in Notes |-> 0]
    /\ tries = [n \in Notes |-> 0]
    /\ sentAt = [n \in Notes |-> -1]
    /\ enabled = Kinds
    /\ turning = {}
    /\ tick = [t \in Ticks |-> "off"]
    /\ local = [t \in Ticks |-> Nothing]
    /\ tried = [n \in Notes |-> 0]
    /\ pushes = [n \in Notes |-> 0]
    /\ told = {}
    /\ stray = {} /\ overlapped = FALSE
    /\ faults = 0

-----------------------------------------------------------------------------
(* Other parts and the person.                                             *)

(* scheduleNotification: a key is inserted once, for now or a while later. *)
Schedule(n) ==
    /\ status[n] = "none"
    /\ status' = [status EXCEPT ![n] = "scheduled"]
    /\ due' \in {[due EXCEPT ![n] = d] : d \in {now, now + RetryDelay}}
    /\ UNCHANGED <<now, tries, sentAt, setting, tick, local, outside, marks, faults>>

(* saveNotificationSettings: the kind is off, then its rows are skipped. *)
TurnOff(k) ==
    /\ k \in enabled \cap Switched
    /\ enabled' = enabled \ {k}
    /\ turning' = turning \cup {k}
    /\ UNCHANGED <<now, log, tick, local, outside, marks, faults>>

SkipQueued(k) ==
    /\ k \in turning
    /\ turning' = turning \ {k}
    /\ status' = [n \in Notes |-> IF KindOf[n] = k /\ status[n] = "scheduled" THEN "skipped" ELSE status[n]]
    /\ UNCHANGED <<now, due, tries, sentAt, enabled, tick, local, outside, marks, faults>>

-----------------------------------------------------------------------------
(* deliverDueNotifications.                                                *)

Step(t, from, to) == tick[t] = from /\ tick' = [tick EXCEPT ![t] = to]

(* The rows a tick has in hand, and whether the reaper may take them.      *)
Mine(t) == local[t].group \cup UNION local[t].groups

Outlived(t, moment) == tick[t] # "off" /\ moment > local[t].at + ClaimExpiry

Begin(t) ==
    /\ Step(t, "off", "reap")
    /\ local' = [local EXCEPT ![t].at = now]
    /\ overlapped' = (overlapped \/ \E u \in Ticks : tick[u] # "off")
    /\ UNCHANGED <<now, log, setting, outside, stray, faults>>

(* Rows a tick claimed more than ten minutes ago are put back. *)
Expired(n) == IF tries[n] >= MaxAttempts THEN "failed" ELSE "scheduled"

Reap(t) ==
    /\ Step(t, "reap", "claim")
    /\ status' = [n \in Notes |->
                    IF status[n] = "sending" /\ due[n] < local[t].at - ClaimExpiry
                    THEN Expired(n) ELSE status[n]]
    /\ UNCHANGED <<now, due, tries, sentAt, setting, local, outside, marks, faults>>

(* What is due is claimed in one statement; a person's rows of a kind that *)
(* groups are one push.                                                    *)
GroupsOf(S) ==
    {{n} : n \in {m \in S : KindOf[m] \notin Grouped}}
      \cup {{m \in S : KindOf[m] = k} : k \in Grouped \cap {KindOf[m] : m \in S}}

ClaimedAt_KeepsDue(n, at) == due[n]

ClaimedAt(n, at) == at

ClaimDue(t) ==
    /\ tick[t] = "claim"
    /\ LET at == local[t].at
           mine == {n \in Notes : status[n] = "scheduled" /\ due[n] <= at}
       IN
       /\ status' = [n \in Notes |-> IF n \in mine THEN "sending" ELSE status[n]]
       /\ tries' = [n \in Notes |-> IF n \in mine THEN tries[n] + 1 ELSE tries[n]]
       /\ due' = [n \in Notes |-> IF n \in mine THEN ClaimedAt(n, at) ELSE due[n]]
       /\ IF mine = {}
          THEN Step(t, "claim", "off") /\ local' = [local EXCEPT ![t] = Nothing]
          ELSE Step(t, "claim", "next") /\ local' = [local EXCEPT ![t].groups = GroupsOf(mine)]
       /\ stray' = IF Outlived(t, now) THEN stray \cup mine ELSE stray
    /\ UNCHANGED <<now, sentAt, setting, outside, overlapped, faults>>

KindOfGroup(g) == KindOf[CHOOSE n \in g : TRUE]

(* kindEnabled: a kind turned off since is skipped. *)
NextGroup(t) ==
    \E g \in local[t].groups :
        /\ IF KindOfGroup(g) \in enabled
           THEN /\ Step(t, "next", IF KindOfGroup(g) \in Capped THEN "cap" ELSE "push")
                /\ local' = [local EXCEPT ![t].groups = @ \ {g}, ![t].group = g]
           ELSE /\ Step(t, "next", "write")
                /\ local' = [local EXCEPT ![t].groups = @ \ {g}, ![t].group = g, ![t].put = "skipped"]
        /\ UNCHANGED <<now, log, setting, outside, marks, faults>>

(* passiveCapFreesAt: the newest rows sent in the window, PerDay at most;  *)
(* Spacing after the newest, or when the last of them leaves the window.   *)
CountedFrom_SinceNow(at) == {n \in Notes : KindOf[n] \in Capped /\ status[n] = "sent" /\ sentAt[n] > at}

CountedFrom(at) ==
    {n \in Notes : KindOf[n] \in Capped /\ status[n] = "sent" /\ sentAt[n] > at - Window}

(* The i-th newest moment some counted row was sent at, rows counted one by *)
(* one: the largest that at least i rows are not older than.                *)
NewestSent(i, C) ==
    CHOOSE m \in {sentAt[n] : n \in C} :
        /\ Cardinality({n \in C : sentAt[n] >= m}) >= i
        /\ Cardinality({n \in C : sentAt[n] > m}) < i

StillAhead_OrNow(m, at) == m >= at

StillAhead(m, at) == m > at

FreesAt(at, k) ==
    LET C == CountedFrom(at)
        spaced == IF k \notin Unspaced /\ C # {} THEN {NewestSent(1, C) + Spacing} ELSE {}
        full == IF Cardinality(C) >= PerDay THEN {NewestSent(PerDay, C) + Window} ELSE {}
    IN  {m \in spaced \cup full : StillAhead(m, at) /\ \A o \in spaced \cup full : o <= m}

Cap(t) ==
    /\ tick[t] = "cap"
    /\ LET frees == FreesAt(local[t].at, KindOfGroup(local[t].group)) IN
       IF frees = {}
       THEN Step(t, "cap", "push") /\ UNCHANGED local
       ELSE /\ Step(t, "cap", "write")
            /\ local' = [local EXCEPT ![t].put = "scheduled", ![t].counts = FALSE,
                                      ![t].until = CHOOSE m \in frees : TRUE]
    /\ UNCHANGED <<now, log, setting, outside, marks, faults>>

(* sendToUser: some device took the push, none took it, or there is none.  *)
Tried(t) == tried' = [n \in Notes |-> IF n \in local[t].group THEN tried[n] + 1 ELSE tried[n]]

Reached(t) ==
    LET g == local[t].group IN
    /\ pushes' = [n \in Notes |-> IF n \in g THEN pushes[n] + 1 ELSE pushes[n]]
    /\ told' = IF KindOfGroup(g) \in Capped THEN told \cup {[at |-> local[t].at, notes |-> g]} ELSE told

LastAttempt_First(g) == \E n \in g : tries[n] >= 1

LastAttempt(g) == \E n \in g : tries[n] >= MaxAttempts

NoneTookIt(t) ==
    local' = [local EXCEPT ![t].put = IF LastAttempt(local[t].group) THEN "failed" ELSE "scheduled",
                           ![t].until = local[t].at + RetryDelay, ![t].counts = TRUE]

Push(t) ==
    /\ Step(t, "push", "write")
    /\ \/ /\ Tried(t) /\ Reached(t)
          /\ local' = [local EXCEPT ![t].put = "sent"]
          /\ UNCHANGED faults
       \/ /\ Tried(t)
          /\ NoneTookIt(t)
          /\ UNCHANGED <<pushes, told, faults>>
       \/ /\ local' = [local EXCEPT ![t].put = "skipped"]
          /\ UNCHANGED <<outside, faults>>
       \/ /\ faults < MaxFaults   \* the device has it, its answer is lost
          /\ faults' = faults + 1
          /\ Tried(t) /\ Reached(t)
          /\ NoneTookIt(t)
    /\ UNCHANGED <<now, log, setting, marks>>

(* finish or reschedule, whatever the rows say by then. *)
Write(t) ==
    /\ tick[t] = "write"
    /\ LET mine == local[t].group
           put == local[t].put
       IN
       /\ status' = [n \in Notes |-> IF n \in mine THEN put ELSE status[n]]
       /\ sentAt' = [n \in Notes |-> IF n \in mine /\ put = "sent" THEN local[t].at ELSE sentAt[n]]
       /\ due' = [n \in Notes |-> IF n \in mine /\ put = "scheduled" THEN local[t].until ELSE due[n]]
       /\ tries' = [n \in Notes |-> IF n \in mine /\ put = "scheduled" /\ ~local[t].counts
                                    THEN tries[n] - 1 ELSE tries[n]]
    /\ IF local[t].groups = {}
       THEN Step(t, "write", "off") /\ local' = [local EXCEPT ![t] = Nothing]
       ELSE /\ Step(t, "write", "next")
            /\ local' = [local EXCEPT ![t] = [Nothing EXCEPT !.at = local[t].at, !.groups = local[t].groups]]
    /\ UNCHANGED <<now, setting, outside, marks, faults>>

(* A tick dies between two awaits; while it pushes, some devices may have  *)
(* the push already.                                                       *)
Die(t) ==
    /\ faults < MaxFaults
    /\ tick[t] # "off"
    /\ faults' = faults + 1
    /\ tick' = [tick EXCEPT ![t] = "off"]
    /\ local' = [local EXCEPT ![t] = Nothing]
    /\ \/ UNCHANGED outside
       \/ tick[t] = "push" /\ Tried(t) /\ Reached(t)
    /\ UNCHANGED <<now, log, setting, marks>>

Advance ==
    /\ now < MaxTime
    /\ now' = now + 1
    /\ stray' = stray \cup UNION {Mine(t) : t \in {u \in Ticks : Outlived(u, now + 1)}}
    /\ UNCHANGED <<log, setting, tick, local, outside, overlapped, faults>>

Next ==
    \/ \E n \in Notes : Schedule(n)
    \/ \E k \in Kinds : TurnOff(k) \/ SkipQueued(k)
    \/ \E t \in Ticks :
         \/ Begin(t) \/ Reap(t) \/ ClaimDue(t) \/ NextGroup(t) \/ Cap(t)
         \/ Push(t) \/ Write(t) \/ Die(t)
    \/ Advance

Spec == Init /\ [][Next]_vars

-----------------------------------------------------------------------------
(* Safety.                                                                 *)

(* "The same person and key are only ever notified once": each tick that   *)
(* dies mid-send and each answer lost costs at most one repeat, as long as *)
(* no tick outlives its claim on the row.                                  *)
NotifiedOnce == \A n \in Notes \ stray : pushes[n] <= 1 + faults

(* "Passive pushes are at most three in any 24 hours and at least 4 hours  *)
(* apart", by the clock of the ticks that sent them: as long as one tick   *)
(* runs at a time, and none died or outlived its claims.                   *)
Kind(p) == KindOfGroup(p.notes)

UnderCap ==
    \A p \in told :
        /\ Cardinality({q \in told : p.at - Window < q.at /\ q.at <= p.at}) <= PerDay
        /\ \A q \in told \ {p} :
             p.at <= q.at /\ p.at + Spacing > q.at => Kind(q) \in Unspaced \/ (Kind(p) \in Unspaced /\ p.at = q.at)

OneByOne == ~overlapped /\ stray = {} /\ faults = 0

CapKept == OneByOne => UnderCap

(* "Failed sends retry twice": a row is given up after three tries, its    *)
(* own or those of a row it goes in one push with, unless a tick died with *)
(* it or outlived its claim on it.                                         *)
Fellows(n) == IF KindOf[n] \in Grouped THEN {m \in Notes : KindOf[m] = KindOf[n]} ELSE {n}

TriedThrice ==
    \A n \in Notes : status[n] = "failed" =>
        \E m \in Fellows(n) : m \in stray \/ tried[m] + faults >= MaxAttempts

(* "Waits while the person is at the daily cap": a push is held only if    *)
(* PerDay rows went in the window before it, or one within the spacing:    *)
(* the cap counts rows, a push of several as several.                      *)
HeldOnlyAtCap ==
    \A t \in Ticks : tick[t] = "write" /\ local[t].put = "scheduled" /\ ~local[t].counts =>
        LET recent(d) == {p \in told : p.at > local[t].at - d} IN
        \/ Cardinality(UNION {p.notes : p \in recent(Window)}) >= PerDay
        \/ recent(Spacing) # {}

(* A tick that is alive has its rows to itself: none is put back, claimed  *)
(* or sent by another tick meanwhile, until its claims expire.             *)
RowsHeldOnce ==
    \A t \in Ticks : \A n \in Mine(t) \ stray :
        status[n] = "sending" /\ \A u \in Ticks \ {t} : n \notin Mine(u)
=============================================================================
