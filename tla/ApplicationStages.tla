-------------------------- MODULE ApplicationStages --------------------------
(***************************************************************************)
(* A person's applications: the stage of each, its timeline of dated steps *)
(* and the dates that follow from it (worker/applications.ts), with the    *)
(* emails that move applications (worker/email/process.ts) and the routes  *)
(* that call both.  One person, whose calls interleave at every write.     *)
(*                                                                         *)
(* The rows keep what the calls decide by.  Left out: notes, snapshots,    *)
(* activity (written in the same batch as the step it is about),           *)
(* inbound_emails.application_id (a link for the list), and what an email  *)
(* says: which applications it may be about is any choice.                 *)
(***************************************************************************)
EXTENDS Integers, Sequences, FiniteSets

CONSTANTS
    Jobs,       \* the catalog's jobs, all of one company
    Tracked,    \* the jobs saved at the start, in this order
    MaxApps,    \* bound: rows ever made
    Emails,
    Reports,    \* the stage each email reports
    Dated,      \* the emails that state a date for it
    Picks,      \* the stages the person picks
    Callers,    \* requests and deliveries under way at once
    MaxCalls,   \* bound: calls begun
    Leeway,     \* how far ahead of `now` a date may be: the minute "for clocks a little ahead"
    MaxDeaths,  \* bound: calls that die between two of their writes
    NoJob, NoMail

Order == [saved |-> 0, applied |-> 1, assessment |-> 2, interview |-> 3, offer |-> 4,
          rejected |-> 5, withdrawn |-> 5, ghosted |-> 5]
Stages == DOMAIN Order
Endings == {"rejected", "withdrawn", "ghosted"}
TakesStageDate(s) == s \in {"applied", "assessment", "interview", "offer"}

ASSUME StagesAssumption ==
    /\ Reports \in [Emails -> {"applied", "assessment", "interview", "offer", "rejected"}]
    /\ Dated \subseteq {e \in Emails : Reports[e] \in {"assessment", "interview"}}
    /\ Picks \subseteq Stages
    /\ Tracked \in Seq(Jobs) /\ \A i, k \in DOMAIN Tracked : Tracked[i] = Tracked[k] => i = k
    /\ MaxApps \in Nat /\ Len(Tracked) <= MaxApps
    /\ MaxCalls \in Nat /\ MaxDeaths \in Nat /\ Leeway \in Nat
    /\ NoJob \notin Jobs /\ NoMail \notin Emails

Apps == 1 .. MaxApps
NoApp == 0

VARIABLES
    clock,      \* a moment for each `now`
    rows,       \* applications: [life, job, stage, changed, applied, date]
    timeline,   \* application_events: [n, stage, at, mail] of each row
    mails,      \* inbound_emails: [status, candidates]
    calls,      \* what each call holds between its writes
    deaths,
    drift,      \* ghost: rows written by what had changed since it was read
    redated,    \* ghost: rows with a step the person dated anew
    twice       \* ghost: emails two calls have sorted

vars == <<clock, rows, timeline, mails, calls, deaths, drift, redated, twice>>

Unused == [life |-> "unused", job |-> NoJob, stage |-> "saved", changed |-> 0, applied |-> 0, date |-> "none"]
Gone == [Unused EXCEPT !.life = "gone"]
Here(a) == a \in Apps /\ rows[a].life = "here"

(* A call: where it is, its `now`, its arguments, and what it has read. *)
Idle == [pc |-> "idle", now |-> 0, kind |-> "none", job |-> NoJob, app |-> NoApp, to |-> "saved", date |-> "keep",
         mail |-> NoMail, row |-> Unused, read |-> {}, left |-> {}, was |-> [a \in Apps |-> "saved"], more |-> FALSE]

Init ==
    /\ clock = Len(Tracked)
    /\ rows = [a \in Apps |-> IF a \in DOMAIN Tracked
                              THEN [Unused EXCEPT !.life = "here", !.job = Tracked[a], !.changed = a] ELSE Unused]
    /\ timeline = [a \in Apps |-> IF a \in DOMAIN Tracked
                                  THEN {[n |-> 1, stage |-> "saved", at |-> a, mail |-> NoMail]} ELSE {}]
    /\ mails = [e \in Emails |-> [status |-> "none", candidates |-> {}]]
    /\ calls = [c \in Callers |-> Idle]
    /\ deaths = 0 /\ drift = {} /\ redated = {} /\ twice = {}

(***************************************************************************)
(* Timelines.                                                              *)
(***************************************************************************)

(* ORDER BY julianday(occurred_at), rowid. *)
Before(d, e) == d.at < e.at \/ (d.at = e.at /\ d.n < e.n)
LastOf(T) == CHOOSE e \in T : \A d \in T : d = e \/ Before(d, e)
FirstOf(T) == CHOOSE e \in T : \A d \in T : d = e \/ Before(e, d)
HasApplied(s) == s # "saved"
AppliedSteps(T) == {e \in T : HasApplied(e.stage)}

(* recordEvent: its rowid is above every other's. *)
NewStep(a, s, at, mail) ==
    [n |-> IF timeline[a] = {} THEN 1 ELSE 1 + (CHOOSE i \in {e.n : e \in timeline[a]} : \A e \in timeline[a] : e.n <= i),
     stage |-> s, at |-> at, mail |-> mail]

(* The keys: a step names an application and an email that are there. *)
CanRecord(a, mail) == Here(a) /\ (mail # NoMail => mails[mail].status # "none")

(* The statuses an undo accepts. *)
Filed == {"applied", "created", "assigned"}

(* The ghost of a step that lands for an email no longer filed. *)
LandsFor(mail) == twice' = IF mail = NoMail \/ mails[mail].status \in Filed THEN twice ELSE twice \cup {mail}

MovedRow_KeepsDate(row, s, now) ==
    [row EXCEPT !.stage = s, !.changed = now, !.applied = IF ~HasApplied(s) THEN 0 ELSE IF @ = 0 THEN now ELSE @]

MovedRow(row, s, now) ==
    [row EXCEPT !.stage = s, !.changed = now, !.date = "none",
                !.applied = IF ~HasApplied(s) THEN 0 ELSE IF @ = 0 THEN now ELSE @]

(* The batch of moveToStage.  A step recorded since under a later `now`,   *)
(* or one the person dated ahead of it, stays the timeline's last.         *)
WriteMove(a, s, now, mail) ==
    /\ rows' = [rows EXCEPT ![a] = MovedRow(@, s, now)]
    /\ timeline' = [timeline EXCEPT ![a] = @ \cup {NewStep(a, s, now, mail)}]
    /\ drift' = IF \E e \in timeline[a] : e.at > now THEN drift \cup {a} ELSE drift

DeleteApplication(a) ==
    /\ rows' = [rows EXCEPT ![a] = IF Here(a) THEN Gone ELSE @]
    /\ timeline' = [timeline EXCEPT ![a] = {}]

(***************************************************************************)
(* Calls.                                                                  *)
(***************************************************************************)

Goes(c, call) == calls' = [calls EXCEPT ![c] = call]
Ends(c) == Goes(c, Idle)

Begins(c, call) ==
    /\ calls[c].pc = "idle"
    /\ clock < Len(Tracked) + MaxCalls
    /\ clock' = clock + 1
    /\ Goes(c, call)
    /\ UNCHANGED <<rows, timeline, mails, deaths, drift, redated, twice>>

(* trackJob and the flags of today's apps: saved and applied, on and off. *)
TrackBegins(c, kind, j, s) ==
    /\ kind \in {"track", "save", "unsave", "mark", "unmark"}
    /\ s = CASE kind = "save" -> "saved" [] kind = "mark" -> "applied" [] OTHER -> s
    /\ kind \in {"unsave", "unmark"} => s = "saved"
    /\ Begins(c, [Idle EXCEPT !.pc = "find", !.now = clock + 1, !.kind = kind, !.job = j, !.to = s])

(* createManualApplication: no job to find. *)
AddByHand(c, s) ==
    Begins(c, [Idle EXCEPT !.pc = "create", !.now = clock + 1, !.to = s])

FindJob(c) ==
    LET m == calls[c]
        found == {a \in Apps : Here(a) /\ rows[a].job = m.job}
        asRead(a) == [m EXCEPT !.app = a, !.row = rows[a]]
    IN  /\ m.pc = "find"
        /\ \/ /\ found = {} /\ m.kind \in {"track", "save", "mark"}
              /\ Goes(c, [m EXCEPT !.pc = "create"])
           \/ /\ found = {} /\ m.kind \in {"unsave", "unmark"}
              /\ Ends(c)
           \/ \E a \in found :
                LET saved == rows[a].stage = "saved"
                IN  IF m.kind = "track" \/ (m.kind = "mark" /\ saved) THEN Goes(c, [asRead(a) EXCEPT !.pc = "move"])
                    ELSE IF m.kind = "unsave" /\ saved THEN Goes(c, [asRead(a) EXCEPT !.pc = "delete"])
                    ELSE IF m.kind = "unmark" /\ ~saved THEN Goes(c, [asRead(a) EXCEPT !.pc = "unmark"])
                    ELSE Ends(c)
        /\ UNCHANGED <<clock, rows, timeline, mails, deaths, drift, redated, twice>>

(* updateApplication reads the row, then takes its `now`; no stage given is *)
(* the row's own.                                                           *)
UpdateBegins(c, a, s, date) ==
    /\ Here(a)
    /\ date = "person" => TakesStageDate(s)
    /\ Begins(c, [Idle EXCEPT !.pc = "move", !.now = clock + 1, !.app = a, !.row = rows[a],
                              !.to = s, !.date = date])

MoveToStage(c) ==
    LET m == calls[c]
        on == IF m.date = "keep" THEN Idle ELSE [m EXCEPT !.pc = "date"]
    IN  /\ m.pc = "move"
        /\ \/ /\ m.row.stage = m.to
              /\ Goes(c, on)
              /\ UNCHANGED <<rows, timeline, drift>>
           \/ /\ m.row.stage # m.to /\ CanRecord(m.app, NoMail)
              /\ WriteMove(m.app, m.to, m.now, NoMail)
              /\ Goes(c, on)
           \/ /\ m.row.stage # m.to /\ ~CanRecord(m.app, NoMail)
              /\ Ends(c)
              /\ UNCHANGED <<rows, timeline, drift>>
        /\ UNCHANGED <<clock, mails, deaths, redated, twice>>

(* The person's date, whichever stage the row has by now. *)
SetStageDate(c) ==
    LET m == calls[c]
    IN  /\ m.pc = "date"
        /\ rows' = IF Here(m.app) THEN [rows EXCEPT ![m.app].date = m.date] ELSE rows
        /\ drift' = IF Here(m.app) /\ rows[m.app].stage # m.to THEN drift \cup {m.app} ELSE drift
        /\ Ends(c)
        /\ UNCHANGED <<clock, timeline, mails, deaths, redated, twice>>

(* INSERT OR IGNORE under UNIQUE (user, job). *)
CreateApplication(c) ==
    LET m == calls[c]
        free == {a \in Apps : rows[a].life = "unused"}
        taken == m.job # NoJob /\ \E a \in Apps : Here(a) /\ rows[a].job = m.job
    IN  /\ m.pc = "create"
        /\ \/ /\ taken
              /\ IF m.mail = NoMail THEN Ends(c) ELSE Goes(c, [m EXCEPT !.pc = "nothing"])
              /\ UNCHANGED rows
           \/ /\ ~taken
              /\ \E a \in free :
                   /\ \A b \in free : a <= b
                   /\ rows' = [rows EXCEPT ![a] = MovedRow([Unused EXCEPT !.life = "here", !.job = m.job], m.to, m.now)]
                   /\ Goes(c, [m EXCEPT !.pc = "first", !.app = a])
        /\ UNCHANGED <<clock, timeline, mails, deaths, drift, redated, twice>>

(* The new row's first step, in a batch of its own: a call with an earlier  *)
(* `now` may have moved the row in between.                                 *)
FirstStep(c) ==
    LET m == calls[c]
    IN  /\ m.pc = "first"
        /\ IF CanRecord(m.app, m.mail)
           THEN /\ timeline' = [timeline EXCEPT ![m.app] = @ \cup {NewStep(m.app, m.to, m.now, m.mail)}]
                /\ drift' = IF \E e \in timeline[m.app] : e.at < m.now THEN drift \cup {m.app} ELSE drift
                /\ LandsFor(m.mail)
                /\ Goes(c, IF m.mail \in Dated THEN [m EXCEPT !.pc = "emaildate"] ELSE Idle)
           ELSE /\ Ends(c)
                /\ UNCHANGED <<timeline, drift, twice>>
        /\ UNCHANGED <<clock, rows, mails, deaths, redated>>

(* DELETE /applications/:id, and a Saved job that is saved no more. *)
DeleteRoute(c, a) ==
    /\ calls[c].pc = "idle" /\ clock < Len(Tracked) + MaxCalls /\ Here(a)
    /\ clock' = clock + 1
    /\ DeleteApplication(a)
    /\ UNCHANGED <<mails, calls, deaths, drift, redated, twice>>

Unsave(c) ==
    /\ calls[c].pc = "delete"
    /\ DeleteApplication(calls[c].app)
    /\ Ends(c)
    /\ UNCHANGED <<clock, mails, deaths, drift, redated, twice>>

(* legacyUnmarkApplied: the last Saved step, then the steps since removed. *)
UnmarkReads(c) ==
    LET m == calls[c]
        saved == {e \in timeline[m.app] : e.stage = "saved"}
    IN  /\ m.pc = "unmark"
        /\ \/ /\ saved = {}
              /\ Goes(c, [m EXCEPT !.pc = "delete"])
           \/ \E e \in saved :
                /\ \A d \in saved : d.at <= e.at
                /\ Goes(c, [m EXCEPT !.pc = "unmarkwrite", !.read = {e}])
        /\ UNCHANGED <<clock, rows, timeline, mails, deaths, drift, redated, twice>>

UnmarkWrites(c) ==
    LET m == calls[c]
        saved == CHOOSE e \in m.read : TRUE
        kept == {e \in timeline[m.app] : e.n = saved.n \/ e.at < saved.at}
    IN  /\ m.pc = "unmarkwrite"
        /\ timeline' = [timeline EXCEPT ![m.app] = kept]
        /\ rows' = IF Here(m.app)
                   THEN [rows EXCEPT ![m.app] = [@ EXCEPT !.stage = "saved", !.applied = 0, !.date = "none", !.changed = saved.at]]
                   ELSE rows
        /\ drift' = IF saved \in timeline[m.app] THEN drift ELSE drift \cup {m.app}
        /\ Ends(c)
        /\ UNCHANGED <<clock, mails, deaths, redated, twice>>

(***************************************************************************)
(* setEventDate.  Its read of the row and its UPDATE of the step are one   *)
(* action: a stage that changes between them changes after them as well.   *)
(***************************************************************************)

RedateStep(c, a, e, at) ==
    /\ calls[c].pc = "idle" /\ clock < Len(Tracked) + MaxCalls
    /\ Here(a) /\ e \in timeline[a] /\ at \in 1 .. clock + 1 + Leeway
    /\ clock' = clock + 1
    /\ timeline' = [timeline EXCEPT ![a] = (@ \ {e}) \cup {[e EXCEPT !.at = at]}]
    /\ redated' = redated \cup {a}
    /\ Goes(c, [Idle EXCEPT !.pc = "redated", !.now = clock + 1, !.app = a, !.row = rows[a]])
    /\ UNCHANGED <<rows, mails, deaths, drift, twice>>

ReadTimeline(c) ==
    /\ calls[c].pc = "redated"
    /\ Goes(c, [calls[c] EXCEPT !.pc = "dates", !.read = timeline[calls[c].app]])
    /\ UNCHANGED <<clock, rows, timeline, mails, deaths, drift, redated, twice>>

(* The row's two dates, by a timeline and the row read before it. *)
DatesBy(T, row) ==
    LET ofStage == {e \in T : e.stage = row.stage}
    IN  [applied |-> IF ~HasApplied(row.stage) THEN 0
                     ELSE IF AppliedSteps(T) = {} THEN row.applied ELSE FirstOf(AppliedSteps(T)).at,
         changed |-> IF ofStage = {} THEN row.changed ELSE LastOf(ofStage).at]

WriteDates(c) ==
    LET m == calls[c]
        dates == DatesBy(m.read, m.row)
    IN  /\ m.pc = "dates"
        /\ rows' = IF Here(m.app)
                   THEN [rows EXCEPT ![m.app] = [@ EXCEPT !.applied = dates.applied, !.changed = dates.changed]]
                   ELSE rows
        /\ drift' = IF Here(m.app) /\ dates # DatesBy(timeline[m.app], rows[m.app]) THEN drift \cup {m.app} ELSE drift
        /\ Ends(c)
        /\ UNCHANGED <<clock, timeline, mails, deaths, redated, twice>>

(***************************************************************************)
(* Emails.                                                                 *)
(***************************************************************************)

EmailMovesStage(current, detected) ==
    \/ current = "ghosted"
    \/ (current \notin Endings /\ (detected = "rejected" \/ Order[detected] > Order[current]))

AnswerChanges(S, e) == e \in Dated \/ \E a \in S : Here(a) /\ EmailMovesStage(rows[a].stage, Reports[e])

(* The handler takes its `now` before it parses the message and asks the AI. *)
EmailArrives(c, e) ==
    Begins(c, [Idle EXCEPT !.pc = "read", !.now = clock + 1, !.mail = e, !.to = Reports[e]])

Record_Again(c, status, candidates, next) ==
    /\ mails' = [mails EXCEPT ![calls[c].mail] = [status |-> status, candidates |-> candidates]]
    /\ Goes(c, next)

(* INSERT OR IGNORE by the message's hash. *)
Record(c, status, candidates, next) ==
    LET e == calls[c].mail
    IN  IF mails[e].status = "none"
        THEN mails' = [mails EXCEPT ![e] = [status |-> status, candidates |-> candidates]] /\ Goes(c, next)
        ELSE UNCHANGED mails /\ Ends(c)

StagesOf(S) == [a \in Apps |-> IF a \in S THEN rows[a].stage ELSE "saved"]

(* Reads the applications and records the email, which nobody could have   *)
(* sorted in between.  The email is about one open application (any, when  *)
(* all have ended), about a job not tracked, or about several.             *)
FileEmail(c) ==
    LET m == calls[c]
        tracked == {a \in Apps : Here(a) /\ rows[a].job # NoJob}
        open == {a \in tracked : rows[a].stage \notin Endings \/ rows[a].stage = "ghosted"}
        pool == IF open = {} THEN tracked ELSE open
    IN  /\ m.pc = "read"
        /\ \/ \E a \in pool :
                Record(c, IF EmailMovesStage(rows[a].stage, m.to) THEN "applied" ELSE "unchanged", {},
                       [m EXCEPT !.pc = "file", !.left = {a}, !.was = StagesOf({a})])
           \/ \E j \in Jobs \ {rows[a].job : a \in tracked} :
                Record(c, "created", {}, [m EXCEPT !.pc = "create", !.job = j])
           \/ \E S \in SUBSET pool :
                /\ Cardinality(S) > 1
                /\ IF AnswerChanges(S, m.mail) THEN Record(c, "needs_choice", S, Idle) ELSE Record(c, "unchanged", {}, Idle)
        /\ UNCHANGED <<clock, rows, timeline, deaths, drift, redated, twice>>

(* Where a call goes with the applications it has left to file under. *)
FilesOn(c, m) == Goes(c, IF m.left = {} THEN Idle ELSE [m EXCEPT !.pc = "file"])

(* One application's step, if its stage as read moves; then its date. *)
EmailStep(c) ==
    LET m == calls[c]
    IN  /\ m.pc = "file"
        /\ \E a \in m.left :
             LET moves == EmailMovesStage(m.was[a], m.to)
                 on == [m EXCEPT !.left = @ \ {a}, !.app = a]
                 dates == IF m.mail \in Dated THEN Goes(c, [on EXCEPT !.pc = "emaildate"]) ELSE FilesOn(c, on)
             IN  \/ /\ ~moves
                    /\ dates
                    /\ UNCHANGED <<rows, timeline, drift, twice>>
                 \/ /\ moves /\ CanRecord(a, m.mail)
                    /\ WriteMove(a, m.to, m.now, m.mail)
                    /\ LandsFor(m.mail)
                    /\ dates
                 \/ /\ moves /\ ~CanRecord(a, m.mail)
                    /\ Ends(c)
                    /\ UNCHANGED <<rows, timeline, drift, twice>>
        /\ UNCHANGED <<clock, mails, deaths, redated>>

SetStageDateFromEmail_Any(c) ==
    LET m == calls[c]
    IN  /\ m.pc = "emaildate"
        /\ rows' = IF Here(m.app) /\ rows[m.app].stage = m.to THEN [rows EXCEPT ![m.app].date = "email"] ELSE rows
        /\ FilesOn(c, m)
        /\ UNCHANGED <<clock, timeline, mails, deaths, drift, redated, twice>>

(* setStageDateFromEmail: one UPDATE with its conditions. *)
SetStageDateFromEmail(c) ==
    LET m == calls[c]
    IN  /\ m.pc = "emaildate"
        /\ rows' = IF Here(m.app) /\ rows[m.app].stage = m.to /\ rows[m.app].date # "person"
                   THEN [rows EXCEPT ![m.app].date = "email"] ELSE rows
        /\ FilesOn(c, m)
        /\ UNCHANGED <<clock, timeline, mails, deaths, drift, redated, twice>>

(* Tracked in the meantime: the record says that nothing changed. *)
NothingChanged(c) ==
    /\ calls[c].pc = "nothing"
    /\ mails' = [mails EXCEPT ![calls[c].mail].status = IF @ = "none" THEN @ ELSE "unchanged"]
    /\ Ends(c)
    /\ UNCHANGED <<clock, rows, timeline, deaths, drift, redated, twice>>

(* "Which application?" answered with some of the candidates. *)
AssignBegins(c, e, S) ==
    /\ mails[e].status = "needs_choice" /\ S # {} /\ S \subseteq mails[e].candidates
    /\ Begins(c, [Idle EXCEPT !.pc = "assign", !.mail = e, !.to = Reports[e], !.left = S])

(* Reads the stages chosen and marks the email assigned: by its id alone. *)
AssignEmail(c) ==
    LET m == calls[c]
    IN  /\ m.pc = "assign"
        /\ IF \A a \in m.left : Here(a)
           THEN /\ clock' = clock + 1
                /\ mails' = [mails EXCEPT ![m.mail] = IF @.status = "none" THEN @ ELSE [status |-> "assigned", candidates |-> {}]]
                /\ twice' = IF mails[m.mail].status = "needs_choice" THEN twice ELSE twice \cup {m.mail}
                /\ Goes(c, [m EXCEPT !.pc = "file", !.now = clock + 1, !.was = StagesOf(m.left)])
           ELSE UNCHANGED <<clock, mails, twice>> /\ Ends(c)
        /\ UNCHANGED <<rows, timeline, deaths, drift, redated>>

(* "Not one of these". *)
DismissBegins(c, e) ==
    /\ mails[e].status = "needs_choice"
    /\ Begins(c, [Idle EXCEPT !.pc = "dismiss", !.mail = e])

DismissEmail(c) ==
    LET e == calls[c].mail
    IN  /\ calls[c].pc = "dismiss"
        /\ mails' = [mails EXCEPT ![e] = IF @.status = "none" THEN @ ELSE [status |-> "dismissed", candidates |-> {}]]
        /\ twice' = IF mails[e].status = "needs_choice" THEN twice ELSE twice \cup {e}
        /\ Ends(c)
        /\ UNCHANGED <<clock, rows, timeline, deaths, drift, redated>>

(* expireNeedsChoice: the row goes after thirty days, even as it is being  *)
(* answered (its steps, if any, lose their link), and an ask whose answer  *)
(* changes nothing is settled.                                             *)
ExpireNeedsChoice(e) ==
    /\ mails[e].status = "needs_choice"
    /\ \/ /\ mails' = [mails EXCEPT ![e] = [status |-> "none", candidates |-> {}]]
          /\ timeline' = [a \in Apps |-> {IF d.mail = e THEN [d EXCEPT !.mail = NoMail] ELSE d : d \in timeline[a]}]
          /\ twice' = IF \E c \in Callers : calls[c].mail = e THEN twice \cup {e} ELSE twice
       \/ /\ ~AnswerChanges(mails[e].candidates, e)
          /\ mails' = [mails EXCEPT ![e] = [status |-> "unchanged", candidates |-> {}]]
          /\ UNCHANGED <<timeline, twice>>
    /\ UNCHANGED <<clock, rows, calls, deaths, drift, redated>>

(***************************************************************************)
(* "Not right?": undoInboundEmail and undoEmailSteps.                      *)
(***************************************************************************)

StepsOf(e, a) == {d \in timeline[a] : d.mail = e}
Linked(e) == {a \in Apps : StepsOf(e, a) # {}}

(* On one application or on all; `more` when others keep a step of it. *)
UndoBegins(c, e, S) ==
    /\ mails[e].status \in Filed
    /\ S = Linked(e) \/ (S \subseteq Linked(e) /\ Cardinality(S) = 1)
    /\ Begins(c, [Idle EXCEPT !.pc = "undo", !.mail = e, !.left = S, !.more = S # Linked(e)])

UndoDeletes(c) ==
    LET m == calls[c]
    IN  /\ m.pc = "undo"
        /\ \E a \in m.left :
             /\ timeline' = [timeline EXCEPT ![a] = @ \ StepsOf(m.mail, a)]
             /\ Goes(c, [m EXCEPT !.pc = "undoread", !.app = a, !.left = @ \ {a}])
        /\ UNCHANGED <<clock, rows, mails, deaths, drift, redated, twice>>

UndoReads(c) ==
    LET m == calls[c]
    IN  /\ m.pc = "undoread"
        /\ Goes(c, [m EXCEPT !.pc = "undowrite", !.read = timeline[m.app]])
        /\ UNCHANGED <<clock, rows, timeline, mails, deaths, drift, redated, twice>>

RestoredRow_StageOnly(row, T) ==
    LET last == LastOf(T)
    IN  [row EXCEPT !.date = IF row.stage = last.stage THEN @ ELSE "none", !.stage = last.stage, !.changed = last.at]

RestoredRow(row, T) ==
    LET last == LastOf(T)
    IN  [row EXCEPT !.date = IF row.stage = last.stage THEN @ ELSE "none",
                    !.stage = last.stage, !.changed = last.at,
                    !.applied = IF HasApplied(last.stage) THEN FirstOf(AppliedSteps(T)).at ELSE 0]

UndoWrites(c) ==
    LET m == calls[c]
        a == m.app
        T == m.read
    IN  /\ m.pc = "undowrite"
        /\ IF T = {} THEN DeleteApplication(a)
           ELSE /\ rows' = IF Here(a) THEN [rows EXCEPT ![a] = RestoredRow(@, T)] ELSE rows
                /\ UNCHANGED timeline
        /\ drift' = IF T = timeline[a] THEN drift ELSE drift \cup {a}
        /\ Goes(c, [m EXCEPT !.pc = "undo", !.app = NoApp, !.read = {}])
        /\ UNCHANGED <<clock, mails, deaths, redated, twice>>

UndoEnds(c) ==
    LET m == calls[c]
    IN  /\ m.pc = "undo" /\ m.left = {}
        /\ mails' = [mails EXCEPT ![m.mail].status = IF ~m.more /\ @ # "none" THEN "undone" ELSE @]
        /\ twice' = IF ~m.more /\ Linked(m.mail) # {} THEN twice \cup {m.mail} ELSE twice
        /\ Ends(c)
        /\ UNCHANGED <<clock, rows, timeline, deaths, drift, redated>>

(* A call dies where it is: a thrown error, a Worker that is stopped. *)
Dies(c) ==
    /\ deaths < MaxDeaths /\ calls[c].pc # "idle"
    /\ deaths' = deaths + 1
    /\ drift' = IF calls[c].pc \in {"first", "redated", "dates", "undoread", "undowrite"} THEN drift \cup {calls[c].app} ELSE drift
    /\ Ends(c)
    /\ UNCHANGED <<clock, rows, timeline, mails, redated, twice>>

EmailCall(c) ==
    \/ \E e \in Emails : EmailArrives(c, e) \/ DismissBegins(c, e)
    \/ \E e \in Emails : \E S \in SUBSET Apps : AssignBegins(c, e, S) \/ UndoBegins(c, e, S)
    \/ FileEmail(c) \/ EmailStep(c) \/ SetStageDateFromEmail(c) \/ NothingChanged(c)
    \/ AssignEmail(c) \/ DismissEmail(c)
    \/ UndoDeletes(c) \/ UndoReads(c) \/ UndoWrites(c) \/ UndoEnds(c)

PersonCall(c) ==
    \/ \E kind \in {"track", "save", "unsave", "mark", "unmark"}, j \in Jobs, s \in Picks : TrackBegins(c, kind, j, s)
    \/ \E s \in Picks : AddByHand(c, s)
    \/ \E a \in Apps : DeleteRoute(c, a)
    \/ \E a \in Apps, date \in {"keep", "person", "none"} :
         \E s \in Picks \cup {rows[a].stage} : UpdateBegins(c, a, s, date)
    \/ \E a \in Apps : \E e \in timeline[a], at \in 1 .. clock + 1 + Leeway : RedateStep(c, a, e, at)
    \/ FindJob(c) \/ MoveToStage(c) \/ SetStageDate(c) \/ CreateApplication(c) \/ FirstStep(c)
    \/ Unsave(c) \/ UnmarkReads(c) \/ UnmarkWrites(c) \/ ReadTimeline(c) \/ WriteDates(c)

Next ==
    \/ \E c \in Callers : PersonCall(c) \/ EmailCall(c) \/ Dies(c)
    \/ \E e \in Emails : ExpireNeedsChoice(e)

Spec == Init /\ [][Next]_vars

(***************************************************************************)
(* Properties.                                                             *)
(***************************************************************************)

Rows == [life : {"unused", "here", "gone"}, job : Jobs \cup {NoJob}, stage : Stages,
         changed : 0 .. clock + Leeway, applied : 0 .. clock + Leeway, date : {"none", "person", "email"}]
Steps == [n : Nat, stage : Stages, at : 1 .. clock + Leeway, mail : Emails \cup {NoMail}]

(* The values of the state: no row without its job and stage, no date of a *)
(* row or step more than the leeway ahead of the latest `now`, no step of  *)
(* a row that is not there, no call about a row the code has not.          *)
TypeOK ==
    /\ clock \in Nat
    /\ rows \in [Apps -> Rows]
    /\ timeline \in [Apps -> SUBSET Steps] /\ \A a \in Apps : ~Here(a) => timeline[a] = {}
    /\ mails \in [Emails -> [status : {"none", "applied", "created", "unchanged", "needs_choice",
                                       "assigned", "dismissed", "undone"},
                             candidates : SUBSET Apps]]
    /\ \A c \in Callers : calls[c].now \in 0 .. clock /\ calls[c].app \in Apps \cup {NoApp}
    /\ deaths \in 0 .. MaxDeaths /\ drift \subseteq Apps /\ redated \subseteq Apps /\ twice \subseteq Emails

Quiet(a) == \A c \in Callers : calls[c].app # a

(* "The stage, the applied date and the timeline can't drift apart"        *)
(* (applications.ts:13-15): after any sequence of saves, moves, new dates, *)
(* emails and undos, an application nobody is writing is at a stage its    *)
(* timeline has, since that stage's last step; it has an applied date when *)
(* it is past Saved and then the date of a step past Saved; and unless a   *)
(* step was dated anew, its stage is the last step's.  `drift` holds the   *)
(* rows a call wrote by what had changed since it read it, or died writing.*)
TimelineAgrees ==
    \A a \in Apps : Here(a) /\ Quiet(a) /\ a \notin drift =>
        LET row == rows[a]
            ofStage == {e \in timeline[a] : e.stage = row.stage}
        IN  /\ ofStage # {} /\ LastOf(ofStage).at = row.changed
            /\ (row.applied = 0) = ~HasApplied(row.stage)
            /\ row.applied # 0 => \E e \in AppliedSteps(timeline[a]) : e.at = row.applied
            /\ a \notin redated => LastOf(timeline[a]).stage = row.stage

(* An email has its say once: it leaves at most one step on an             *)
(* application, however often it is delivered or answered, and none once   *)
(* it is undone, dismissed or found to change nothing, so that every step  *)
(* of an email can be undone (process.ts:401).  `twice` holds the emails   *)
(* that two calls sorted at once.                                          *)
EmailSortedOnce ==
    \A e \in Emails \ twice : (\A c \in Callers : calls[c].mail # e) =>
        /\ \A a \in Apps : Cardinality(StepsOf(e, a)) <= 1
        /\ Linked(e) # {} => mails[e].status \in Filed

(* A date is of a stage that takes one, through moves, undos and emails    *)
(* that leave the date of another stage behind.                            *)
DateFitsStage ==
    \A a \in Apps : Here(a) /\ Quiet(a) /\ a \notin drift =>
        (rows[a].date # "none" => TakesStageDate(rows[a].stage))

(* A date the person set stays theirs: no email replaces it while the      *)
(* application is where it was, even one that read it before they set it.  *)
PersonsDateStays ==
    [][\A a \in Apps : rows[a].date = "person" /\ Here(a)' /\ rows[a].stage = rows'[a].stage
                          => rows'[a].date # "email"]_vars
==============================================================================
