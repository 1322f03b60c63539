# Pinkslip, specified

TLA+ models of the concurrent core of Pinkslip, their TLC runs, and proofs checked
by TLAPS. Pinkslip is a Cloudflare Worker (Hono API, crons, queues, Workflows) over
one D1 database, with a web and a native client. It finds early-career jobs, alerts
people to them, and applies for them in a remote browser. Paths below are relative
to `src/`.

Contents: [the system](#the-system) · [modules](#modules-and-the-code) ·
[runs](#runs) · [bounds](#bounds) · [fairness](#fairness) · [proofs](#proofs) ·
[what TLC found](#what-tlc-found) · [not modelled](#not-modelled) · [plan](#plan)

## The system

The worker keeps nothing in memory between requests: components meet in D1 rows, in
queue messages, in Workflow events, and in calls within one request or cron tick.
A D1 statement, and a D1 batch, is atomic. Everything between two of them is not,
and requests, cron ticks, queue consumers and Workflows run side by side without
locks. What protects the data is therefore unique indexes, conditional UPDATEs
(`WHERE status = 'queued'`), counted INSERTs, and claims with an expiry.

| Component | State it keeps | Operations | Interacts through |
|---|---|---|---|
| Auto-apply sends (`worker/apply/sends.ts`, `send-workflow.ts`, `send-engine.ts`, `browser.ts`) | `apply_sends` (status, browser_session, ledger_id), a remote browser per send, one Workflow per send | `queueSend`, `runSend`, `enterSendCode`, `expireSendCode`, `failSend`, `releaseKeptBrowser`, `adoptKeptBrowser`, `deliverSendCode` | allowances, applications, notification log, inbound email, asks |
| Plans and allowances (`worker/plans.ts`) | `usage_ledger`, plan grants, App Store subscriptions | `reserveAllowance`, `releaseAllowance`, `currentPlan` | sends, asks, tailoring |
| Asks, Apply for me, Pause (`worker/apply/asks.ts`, `ask-checks.ts`) | `apply_asks`, `auto_apply_settings` | `askForStrongMatches`, `concludeAskCheck`, `answerAsk`, `saveAutoApplySettings` | sends, alert candidates, notification log |
| New job alerts (`worker/notification-delivery.ts`, `notification-queue.ts`) | `notification_candidates`, `notification_deliveries`, `push_subscriptions` | `deliverPendingNotifications`, `queueMatches` and its revivals, `saveJobAlertSettings` | matching, polling, push, the daily digest's row in the log |
| Notification log and scheduler (`worker/notifications.ts`, `notification-scheduler.ts`) | `notification_log`, `notification_settings` | `scheduleNotification`, `deliverDueNotifications`, `saveNotificationSettings` | everyone who notifies |
| Source polling (`worker/source-polling.ts`, `poller.ts`) | `companies.poll_claimed_at`, quarantine state, `jobs`, poll records | `claimDueSources`, `dispatchDueSources`, `pollQueuedSource`, `pollCompany` | queues, job board adapters, alerts |
| The apply form (`worker/apply/plan.ts`, `answers.ts`, `answer-bank.ts`, `prepare.ts`, …) | answer bank, uploaded files | which answer goes into which field | sends |
| Waiting sheet (`worker/apply/waiting.ts`) | reads `apply_sends`, writes answers | `waitingView`, `keepWaitingAnswers`, `tellWaiting`, `dropWaiting` | sends, log |
| Matching (`worker/user-job-matches.ts`, `job-scope.ts`, `user-preferences.ts`) | `user_job_matches`, match cursors, `user_search_profiles` | match new jobs, rematch after an edit, catch up | polling, alerts |
| Tailoring and its usage (`worker/routes/tailor.ts`, `worker/tailor/usage.ts`) | `tailor_usage`, `tailorings`, artifacts in R2 | reserve, charge again, complete, refund | plans, the language model |
| Applications and stages (`worker/applications.ts`, `activity.ts`) | `applications`, `application_events`, `activity` | `trackJob`, `moveToStage`, `undoEmailSteps` | sends, email, reminders |
| Email tracking (`worker/email/*`) | `inbound_emails`, `email_inboxes` | `processEmail`, `assignInboundEmail`, `undoInboundEmail`, the code hand-over | applications, sends |
| Accounts, sessions, merge (`worker/auth.ts`, `account.ts`) | `users`, `auth_*`, merge backups | sign-in, `mergeGuestDataIntoAccount`, `deleteUserAccountData` | every table with a `user_id` |
| Outreach (`worker/outreach/*`) | threads, messages, contacts | `startThread`, `markMessageSent`, `closeThread`, sourcing | log, activity |
| Events, reminders, inbox (`worker/events.ts`, `reminders.ts`, `inbox.ts`) | `events`, `event_reminders` | `queueDueReminders`, `queueDueEventReminders` | log |
| Errors, admin alerts, health checks | `errors`, health records | reporting | push |
| Job board adapters (`worker/adapters/*`) | none | parse a board | polling |
| Routing and cron (`worker/index.ts`, `main.ts`) | none | four crons, three queues, routes | all |
| Client data layer (`packages/data`, `packages/core`) | query cache, pending autosaves | optimistic updates, autosave | the API |
| Web and native apps (`apps/*`) | screens | – | client data layer |
| Résumé compiler, tokens, scripts | none | – | tailoring |

What is hard about each, and the properties that make it correct:

* **Sends.** Two requests race for one job; the Workflow's step is retried after it
  may have pressed Submit; an emailed code may arrive early, late or never; a kept
  browser is adopted by one party while another's timer closes it; Pause stops a send
  that is just starting. Correct: the employer gets one application, a delivered one
  is never called failed, the allowance is used exactly when something may have gone
  out, and every send ends.
* **Allowances.** A count and an insert must be one statement; each use comes back
  at most once, and not when something went out.
* **Asks.** Cycles that overlap share the day's room for asks; an ask takes the place
  of the job's alert, in another table, and hands it back when its check fails.
  Correct: no job loses both, and a day has no more asks than its limit.
* **Alerts.** Four kinds of trigger start overlapping runs over the same rows; claims
  expire under slow runs; candidates are revived, skipped and deleted under them;
  devices come and go. Correct: alerted once per job and device, one digest a day,
  nobody forgotten, and retries end.
* **Log.** The minute's tick may overlap the next one; the cap on passive pushes is
  read before the push and written after it; rows are grouped though each has its own
  attempts. Correct: once per key, the cap kept, three tries each, nothing held
  without need.
* **Polling.** Claim, message and poll are three steps on three machines; messages
  come twice or not at all; a board answers in part, or goes empty. Correct: one poll
  at a time, no source dark for ever, no job closed by one bad answer, and the catalog
  ends up as the board.
* **Matching.** Two cursors, one running forward and one backward, are moved by runs
  that overlap while polls commit jobs under the moment they began. Correct: no listed
  job is skipped, none is kept that an earlier profile matched, and who comes back sees
  everything.
* **Applications and email.** An email's move is decided on a stage read earlier;
  undo rebuilds the stage from the steps that are left; a person dates a step anew.
  Correct: stage, dates and timeline agree, an email has its say once and can be undone,
  and a date a person set stays theirs.
* **Tailoring.** A reservation outlives its request; a refunded one is charged again;
  PDFs live in R2, their rows in D1. Correct: the week's allowance holds, what failed
  is not charged, and the bucket holds what the table names.
* **Accounts.** A merge is some thirty statements with no transaction around them, while both
  users' work goes on; it dies and is begun again, and several devices sign in at once. Correct:
  what a guest had comes along, and one person has one account.
* **The form, outreach, events, adapters, clients.** Mostly data, or single-row
  updates of one person.

`PROJECT.json` lists the hazards one by one, at their lines, with the properties that
watch each, or why none does.

## Modules and the code

    OneApplication          what auto-apply promises about a job
      ^ implemented by
    ApplySends              requests, Workflows, kept browsers, codes, Pause, allowance
    ApplyAsks               the alert cycle's asks and automatic sends, checks, the alert beside them
    NewJobAlerts            candidates, deliveries, overlapping runs
    NotificationLog         the log and the minute's tick
    SourcePolling           one job source: claims, queue, polls, its catalog
    FeedMatching            which jobs one person's feed was matched against
    ApplicationStages       applications, timelines, emails
    TailorUsage             what tailorings cost
    ResumeArtifacts         the PDFs of a tailoring and their objects
    SignIn                  guests, accounts, signing in and the merge
    Personal                the last three side by side, for one run and one module of proofs

`X_proofs` holds the theorems about `X`. Personal EXTENDS TailorUsage and has ResumeArtifacts and
SignIn as its instances `PDF` and `Auth`; where two modules would declare a name twice, an
instance's state goes by another name there (`at` is `step` in `Auth`).
`MCX` holds X's instances for TLC. `MCAlertCases` and `MCAlertsEnd` put several instances of one
module into one run, `MCNotificationLog` several choices of rows and ticks, `MCPersonal` the three
parts of Personal, `MCLives` instances of FeedMatching and SourcePolling under fairness; a variable
`case` says which a behaviour is of, the variables are shared or still, and no behaviour mixes two.

Every model is of one person (SourcePolling: of one source), since every query of these
parts is scoped by `user_id` (by the source); where a query takes several people's rows it
treats each by itself, and the limits they share are left out, see below. One step is what
the code does between two awaits that touch shared state: most often one statement, with the
reads before it. Definitions whose name is another definition's followed by `_Something`
(`Load_CodeForgotten`) are the bugs the properties were tested against; no specification
uses them. Variables called ghosts below are not in the code. They are there for a property
to speak of what the code can't see (what an employer received), or to name a case where the
code does not keep it. For each ghost of the second kind, what it excludes is listed under
[what TLC found](#what-tlc-found).

Where modules meet: an automatic send of ApplyAsks is a send in ApplySends (`Automatic`,
`Record`, `Pause`), its candidate is one of NewJobAlerts (`SkipAlert`, `RestoreAlert`), its push
a row of NotificationLog; the jobs FeedMatching matches are those SourcePolling commits; the
code email of ApplicationStages' inbox is ApplySends' EmailCode. Each side models what the
other does to its own rows as actions of its environment.

### ApplySends

| Variable | In the code |
|---|---|
| `status`, `session` | `apply_sends.status`, `.browser_session` |
| `ledger`, `orphans` | the `usage_ledger` entry named by `ledger_id`; entries no row names |
| `tracked` | the job is Applied in `applications` (`trackJob`) |
| `req`, `cand`, `took` | how far `queueSend` is, and its locals in `adoptKeptBrowser` |
| `at`, `step`, `tries`, `page`, `end`, `keep` | how far the Workflow is, which step, failed attempts, the browser it is attached to, `finish`'s arguments |
| `code`, `asked` | the Workflow's `code` event; the order of `updated_at` among sends waiting for one |
| `stopping` | `stopQueuedAutomaticSends`' loop |
| `sent`, `closed` | ghosts: what the employer received, which browsers this code closed |
| `stopped`, `cut` | ghosts: sends whose row Pause ended; sends whose `finish` was cut short once their row had ended |

Actions by function: `queueSend` is Check, Reserve, FindKept, TakeOver, Insert,
Create / CreateFails, Unstarted, Refund, Record. `runSend` is Load, Claim, Open, Fill,
Mark, Press, Note, Noted; `finish` is Finish, Settle. `releaseKeptBrowser` is Wake,
LetGo, Drop. The code is EmailCode, TypeCode, CodeComes, CodeTimesOut, Enter, Retype,
TypeIn, Expire. `failSend` is Fail; Pause is Pause, Stop, GiveBack. RequestDies,
AttemptDies and FinishDies are evictions and D1 errors. A send is queued by a person
or, if `Automatic`, by Apply for me; a dry run is a send not in `Real`, and one in
`Checks` checks a form before an ask (it keeps no browser open).

Reading the page is abstracted: Fill and RecordSubmit choose among every outcome that
`browser.ts` and `send-engine.ts` can report. Two assumptions come with it:

* after Submit the page's word is honest when it says blocked, needs the person, or
  failed (nothing went out then); a page with nothing recognisable on it is
  `unconfirmed` and may or may not have sent it;
* an attempt that outlived its eight-minute timeout does not act beside its retry. The
  platform does not promise this, and no property covers it.

A Workflow gets at most one code event (bound). The code has no cron that cleans up
sends, so none is modelled.

`OneApplication` says of a job: one send at a time has it, it may give it up, the employer
gets the application at most once and from the send that has it, and once that send is over
nothing else begins. ApplySends implements it: `turn` is the going send of the job,
`over` that it is submitted or unconfirmed, `received` what the employer has.

### NewJobAlerts

| Variable | In the code |
|---|---|
| `cand`, `ctries` | `notification_candidates.status`, `.attempt_count` |
| `row`, `rtries` | `notification_deliveries`, per job and registration |
| `old` | claims more than ten minutes old |
| `reg`, `tokens` | `push_subscriptions`: a device's current registration, and how many it has had |
| `matched`, `making` | jobs that match, and how far the matching's insert-then-revive is |
| `enabled`, `daily`, `switch` | the setting, and how far the request that changes it is |
| `day`, `digest` | today, and the day's row in `notification_log` |
| `run`, `local` | where each run of `deliverPendingNotifications` is, and what it remembers |
| `alerts`, `pushes` | ghosts: what reached each device |
| `seized` | ghost: jobs whose claim a profile edit or a reaper took from a run at work on them, until a run claims them that no other is at work on |

A run is Begin, ReapCandidates, ReapRows, Sift, Select, SkipRuledOut, Claim,
ReadDevices, MarkAll, ClaimDay, MakeRows, ReadRows, NextDevice, Send, Record, DropDead,
Log, Count, Write. Around it: Match / Insert / Revive / Rematch (matching),
SwitchOff, SwitchOn, DropQueued, ReviveQueued, ReviveQueuedRows (the setting), Register
and Unregister (devices), ChangePreferences (a profile edit), NextDay, and the faults
Die, Hang and a lost answer in Send.

### NotificationLog

`status`, `due`, `tries`, `sentAt` are the row's columns; `due` holds the claim's time
once a row is claimed, as `scheduled_for` does. A tick is Begin, Reap, ClaimDue, and for
each group NextGroup, Cap, Push, Write. Schedule is `scheduleNotification`, TurnOff and
SkipQueued are `saveNotificationSettings`. Time is a small number; only the order of the
code's four durations matters (five and ten minutes, four hours, a day), and
`LogAssumption` states it. Ghosts: `tried`, `pushes`, `told`; and `stray`, the rows a tick had in
hand when its claims expired, and `overlapped`, whether a tick has begun while another was under way.

### SourcePolling

| Variable | In the code |
|---|---|
| `enabled`, `queued`, `claim`, `failures`, `quarantined`, `empty` | the source's row in `companies`; `queued`: its tier is in `QUEUE_POLLING_TIERS` |
| `old`, `age` | what comparisons with the clock say: the claim is past its time to live; a cadence, or a day, has passed since `last_polled_at` |
| `row`, `missed`, `ledger` | `jobs` of the source with `missed_polls`; `source_job_references` |
| `sending`, `failing`, `queue` | claims a dispatcher has taken and not sent; those whose `sendBatch` failed; messages not acknowledged |
| `at`, `my` | where each poll is; the row, the answer and the judgements it has in hand |
| `kind`, `board`, `left`, `changes` | the adapter and the board (outside) |
| `mishaps`, `bad` | ghosts: faults after which a second message may stand for one poll; answers that lack a job the board has |

`dispatchDueSources` is ClaimDue, SendBatch / SendFails, Release, DispatcherDies;
`handleSourcePollBatch` is Deliver (also of a message delivered before), Drop, Ack, Die.
`pollCompany` is Fetch, ReadReferences / ReadListings, NoteEmpty / ClearEmpty,
ApplyListings / Reconcile, Persist, and RecordQueue, RecordCron or RecordAdmin. The cron
and the admin's button start polls without a claim (StartCron, StartAdmin). ClaimExpires,
CadencePasses and DayPasses are the clock; Purge is the removal of jobs closed long ago.

A poll judges its answer by the rows it read before it fetched: overlapping and admin polls
use stale rows, and the model keeps this. The answer is a set of jobs: whole, cut, or failed.

### FeedMatching

| Variable | In the code |
|---|---|
| `now`, `stamp`, `seen` | moments; when a poll under way began; `jobs.first_seen_at` |
| `hidden` | closed, or of a disabled source |
| `cursor`, `head` | `match_cursor_seen_at`, `match_head_seen_at` |
| `fresh`, `stale`, `dated` | rows of `user_job_matches`: of this profile and matcher, of an earlier profile, of an earlier matcher |
| `version` | profiles written and releases of the matcher so far |
| `save`, `saves` | how far each save is, the profile it read and whether it is to change it; how many there were |
| `at`, `my` | each visit or cron advance, and what it read |
| `gaps`, `late` | ghosts: jobs a known gap may have let through; jobs whose match may stay behind its profile |

A visit (`ensureUserJobMatchesReady`) is Visit, Reset, then CatchUp or WarmUp, Store,
MoveHead, then LoadRows, Store, MoveCursor, SetHead, as often as its batches allow (Enough,
More); the cron (`advanceBacklogMatching`) is Advance and one batch backward.
`saveUserPreferenceState` is SaveLoads (it reads the profile and compares), SaveWrites
(`persistTypedProfile`: the profile, and both cursors cleared, also if nothing changed) and
SaveDeletes, the DELETE of the matches, which only a save that found a change comes to (`Deletes`);
SaveDies cuts it between any two. Saves overlap. Deploy is a release with another `MATCHER_VERSION`. Polls are
PollBegins, PollCommits (a checkpoint), PollEnds: the jobs of one poll share a stamp. Every
job is eligible: who matches is the rule left out. It is the feed of a person without
alerts; one who has them is matched at the poll too.

### ApplyAsks

| Variable | In the code |
|---|---|
| `backlog`, `cand` | `notification_match_backlog`, `notification_candidates.status` |
| `ask`, `made`, `notify` | `apply_asks.status`, and the days of `created_at` and `notify_at` |
| `sends` | jobs with a real row in `apply_sends` |
| `check` | how far the job's check (a dry-run send) and its conclusion are |
| `mode`, `paused`, `applied` | `auto_apply_settings`; jobs past Saved in the tracker |
| `at`, `my` | each alert cycle, and what it read |
| `pushed`, `alerted` | the ask's push was scheduled; the job's alert was sent |
| `moved`, `raced`, `lost` | ghosts, below |

A cycle (`createNotificationCandidates` and `askForStrongMatches`) is Load, Create, People,
then for each job QueueSend, or FindRoom, Record, Skip, QueueCheck / QueueRefused, Restore,
Done, and at the end Clear. `concludeAskCheck` is CheckPasses or CheckFails, Push or
KeepQuiet, HandBack. Dismiss and Apply are the push's buttons, ChangeSettings is
`saveAutoApplySettings`. Dies, JobFails, CheckStops and DeliveryFails are the faults. Time
counts half days, since an ask found after ten at night goes out in the morning.

A cycle that dies has left its jobs in the backlog, and the next one's
`createNotificationCandidates` revives what it skipped: that is why a skipped alert of a
dead cycle is not lost.

### ApplicationStages

| Variable | In the code |
|---|---|
| `rows` | `applications`: the job, stage, `stage_changed_at`, `applied_at`, and whose the stage's date is |
| `timeline` | `application_events` of each row: rowid, stage, date, and the email that made the step |
| `mails` | `inbound_emails`: status and candidates |
| `calls` | each request or delivery: where it is, its `now`, and what it has read |
| `drift`, `redated`, `twice` | ghosts, below |

`trackJob` is TrackBegins / AddByHand, FindJob, then MoveToStage or CreateApplication and
FirstStep; `moveToStage` MoveToStage, the stage's date SetStageDate, "I didn't apply"
UnmarkReads and UnmarkWrites, `setEventDate` RedateStep, ReadTimeline, WriteDates, deleting
DeleteRoute and Unsave. `processEmail` is EmailArrives, Record, FileEmail, EmailStep,
SetStageDateFromEmail or NothingChanged; "Which application?" AssignEmail, DismissBegins and
DismissEmail, ExpireNeedsChoice; "Not right?" UndoDeletes, UndoReads, UndoWrites, UndoEnds.
Dies cuts any call between two writes.

All jobs are of one company, which is where an email's applications are ambiguous. A moment
is drawn by each call as its `now`, so a call may write an older one than a call begun later.
Left out: notes and snapshots, the Activity row written in the batch of its step
and `inbound_emails.application_id` (a link for the list). A step may be dated up to `Leeway` ahead
of `now`, the code's minute "for clocks a little ahead". Reads that nothing can come between to any effect are merged.

### TailorUsage and ResumeArtifacts

`usage`, `made`, `attempts` are `tailor_usage`'s state, day and count; `tailoring` is
`tailorings.status`. Time counts UTC days. `zone` is `users.time_zone`, as the days by which its
Monday comes before UTC's, and `WeekBegan` is `allowanceWindow` in it; `limit` is what the plan of the
moment allows a week. MoveZone (the settings, or a sign-in that brings a zone along) and ChangePlan
(bought, ended, merged, set by an admin) may come between any two steps. A plan is StartPlan
(`allowanceFor`; its reads of the plan and of the zone are one step), ReservePlan (one INSERT with its
count), Ask, Complete, Save; a generation and a rewriting are StartWriting, ReserveAttempt (which
charges a refunded row again for a generation), Ask, Complete or Reject, Save, Refund. Edit is the
person's own. `Budget` is the app's AI requests a day, less what others use: attempts stand
for units, since `providerUnits` is null. Ghosts: `recharged`, `moved`, `rewritten`, `raced`, `cut`.

`row`, `revision`, `object`, `selected` are `tailoring_artifacts`, the bucket and
`tailoring_artifact_selections`. An export is StartExport, Number, Put, Insert, Undo;
reading and selecting are StartRead, Get, Miss, Select; deleting one version, all, or the
account are StartDelete / StartDeleteAll, Mark, Remove, Restore, Erase. What a PDF holds, its
hashes and the state `corrupt` are left out. Ghosts: `lost`, `late`, `cut`.

### SignIn

`users`, `app`, `pro`, `holds` are the rows of `users`, `applications` (by user and job, the stage
as none, Saved or applied), `user_plans` and `auth_identities` (of one verified email);
`session` is the cookie's live session of each device. A request is Arrives, where `authMiddleware` makes
a guest for a device without a session, then what it does: Write for saving or applying (one
step here; its own races are ApplicationStages'), or `signInWithIdentity`: Find, for a merge
Pairs, FoldRead and FoldWrite (a pair of applications for one job), Move (the batch of ten
UPDATEs, refused when the unique index on user and job is), PlanRead and PlanWrite,
EndSessions, DropIdentities, DeleteGuest (with the foreign keys' cascade), then
Identify and Enter (`replaceSession`, which creates a missing user). Buy is an App Store
transaction applied to the session's user, LogOut and DeleteAccount are the routes, Dies cuts a
request between two statements or after the old session is revoked. `completeEmailMagicLink`
takes the same steps, except that it inserts no identity where it finds one, be it another
provider's of the same email (`auth.ts:905`); with all identities of one email, that only leaves
out an Identify. `kept` and `bought` are what the person was told is saved and paid for.
Ghosts: `late`, `missed`, `crossed`, and `left`.

## Runs

| Run | Instance | Shows |
|---|---|---|
| `MCApplyRace` | two real sends of one job, one of them automatic, Pause, up to two requests or attempts die | `SentOnce`, `SentIsNotDenied`, `SentHoldsAllowance`, `StatusMovesOn`; that every step is one of `OneApplication` (`KeepsThePromise`); the proofs' invariant `IInv` |
| `MCApplyKept` | two real sends and a dry run of one job, a plan of one send | `BrowserHasOneSend`, `NoOpenPageClosed`, `KeptFormLetGo`: the kept browser goes from send to send while release timers fire |
| `MCApplyEnds` | one automatic send, Pause, up to five failures of attempts and of `finish` | `BooksSettled`, `EverySendEnds`, `EveryWorkflowEnds` |
| `MCAlerts` | two runs; *devices*: two that register, rotate and vanish, jobs that come back; *busy*: one device, profile edits, a crash, slow run or lost answer; *days*: the same over two days of digests without profile edits (4.3 million states) | `AlertedOnce`, `DigestOnce`, `NobodyForgotten`, `EndIsTrue` |
| `MCAlertsEnd` | one run at a time; *settings*: the switch and a crash; *rest*: devices, matches, profiles, two days of digests, a crash or slow run | `AlertsEnd` |
| `MCLog` | *pair*: two ticks that overlap and may outlive their claims, two rows that group, one that dies or loses an answer; *mixed*: the same rows and one by itself, a kind turned off, one tick at a time; *cap*: two deadlines and a follow-up over seven moments, one tick at a time, no fault | `NotifiedOnce`, `RowsHeldOnce`, `CapKept`, `TriedThrice`, `HeldOnlyAtCap` |
| `MCPolling` | two jobs, two polls at once, every kind of adapter and way to poll, two faults, one change of the board or a setting | `OnePollAtATime`, `OneBadAnswer` |
| `MCMatching` | three jobs over three moments, a poll in checkpoints, two runs in batches of two, two saves that overlap, change nothing or die, or releases, a death, or a job that closes and reopens | `NothingSkipped`, `FeedIsOfProfile` |
| `MCLives` | *feed*: three jobs, one run at a time, a save and a job that closes; *source*: one job, queue and cron, a fault and a change | `FeedCatchesUp`; `NeverDark`, `CatalogFollowsBoard` |
| `MCAsks` | two jobs, two cycles, a day and its night, room for one ask; one crash, failed statement, change of the settings or application by hand | `NobodyForgotten`, `AsksADay` |
| `MCStages` | two saved jobs, an interview with its date and a rejection, three calls of any kind, two at once, one of which may die, dates a moment ahead | `TimelineAgrees`, `EmailSortedOnce`, `DateFitsStage`, `PersonsDateStays` |
| `MCPersonal` | *usage*: three tailorings, two requests at once, five calls and a fault, three days, two plans, two zones; *files*: three PDFs, three calls at once, four calls, two faults; *signin*: two devices, two identities, a job, two requests at once, four requests, a fault | `AllowanceKept`, `ChargedIsServed`; `FilesMatchRows`; `NothingLost`, `OneAccount` |

`SentOnce`, `NotifiedOnce` and `AlertedOnce` are the same idea at three places, and differ
in what the code can promise: a submission is never repeated, at the price of an
`unconfirmed` send; a notification may be repeated once for each fault, and TLC shows
that this is the whole price.

Deadlock is not checked anywhere: people stop acting, bounds are reached, and every
send, request or call may be over.

Each property was run against a mutated definition (`PROJECT.json`, "mutants") and TLC found
it violated, under the run's own constants.

## Bounds

* *Two sends of one job* are every race of the unique index, of `adoptKeptBrowser` and
  of a resend: both of those look at one other row. The dry run is the third party of
  the kept browser, which only `ready` rows and adoption by a real send bring about.
  Sends of different jobs share only the allowance count, which is one statement.
* *MaxFaults of sends.* Two (`MCApplyRace`) let a request die and an attempt after it, or an
  attempt twice; five (`MCApplyEnds`) use up every retry of the Workflow and strike
  `failSend` as well. One fault in the alerts and the log, since their promise is per
  fault: one more repeat each.
* *Two runs, two ticks, two cycles, two callers, two polls.* A third that overlaps meets
  nothing a second does not: claims are exclusive, and each statement looks at the state, not
  at who wrote it. *mixed* and *cap* in `MCLog`, `MCAlertsEnd` and `MCLives` have one at a
  time on purpose (below). Where a theorem covers the property (see [proofs](#proofs)), the number
  does not matter.
* *One job* in the alert runs: jobs meet only in the wording of a push.
* *MaxTokens = 2*: a device rotates its token once, or leaves and comes back.
* *The log's last moments 4, 5 and 7* with RetryDelay 1, ClaimExpiry 2, Spacing 3, Window 5: three
  tries, an expired claim and a window that has passed fit. *PerDay = 2* with three rows
  reaches the cap and lets go of it.
* *Polling.* CloseAfter 2 and QuarantineAfter 3 are the code's constants, or their order; two
  claims are told apart since only the current one and one before it are ever compared.
  TrustFrom is 2 in `MCPolling`, so that a board of two is one the code distrusts when it
  drops, and 8 in `MCLives`, where every answer is trusted.
* *Matching.* Batch 2 of three jobs cuts a group and ends a warm-up; MaxBatches 2 lets a visit
  go on after one. `Bounds` keeps a closing job apart from saves and deaths; behaviours with a save have two
  moments, and those with two saves two jobs and one run at a time. What that leaves out (two runs beside two
  saves) is covered by the theorems. The code needs a batch to be larger than the jobs of one moment (750
  against a poll's checkpoints of 20 to 300): with GroupLimit at Batch a visit never gets past
  such a moment, and TLC shows it, so `MCLives` has GroupLimit 1.
* *Asks.* AsksPerDay 1 and ChecksPerDay 2 for two jobs: the day is full after one.
* *Stages.* Three calls are a move, what overlaps it, and what undoes it. Leeway 1 dates a
  step one call ahead, so that a move comes before the date does.
* *Tailoring.* An allowance of one or two with three tailorings; DailyCharges 2 and Budget 5 are reached
  within five calls; three days are a week of two and one more. The two zones are a day apart, and
  behaviours begin in the first; a failure and the second zone are not had together (`Bounds`).
* *Sign-in.* Four requests are a save or purchase on each of two devices and a sign-in of each, so that
  the second meets a clash; three users are two devices' guests and one more after a logout. Five
  requests, by themselves under full symmetry (1.2 million states), hold as well.
* Symmetry is used for runs, devices, jobs, polls, calls and files (and for sends without a
  temporal property) that have the same constants.

## Fairness

* Sends: weak fairness of each request's next step, each Workflow's next step and Pause's
  loop. The platform runs the requests it accepted, replays a Workflow until it is done, and
  its timers (`sleep`, `waitForEvent`'s timeout) fire. Nothing makes a person press Apply or
  Pause, or an email arrive. `MaxFaults` makes failures finite, and so does the code: a
  Workflow step that failed too often is given up.
* Alerts: a run begins again and again (the cron fires four times an hour whatever else
  starts runs), a run under way goes on unless it dies, ten minutes pass, and requests that
  began to save a setting or a match go on. Nothing makes the person turn alerts back on,
  a job match, or a device register. `AlertsEnd` is about candidates of alerts sent as posted,
  between two changes of the setting and of the matches: each save gives what failed new
  attempts, so who saves for ever is retried for ever, and a digest waits for its day.
* Polling: the dispatcher's cron fires, its steps and a poll's go on, cadences, days and claims
  pass (strongly, as they recur only while a source rests), and the queue delivers: weakly any
  message, strongly the one whose claim is current. The latter is a claim about the queue, not
  the code: a queue that holds each message longer than the claim lives is dispatched and
  refused for ever, and TLC shows that livelock if the strong fairness is dropped.
* Matching: a run and a save that began end; visits and cron advances recur (strongly: they
  can begin only between runs).
* The other runs are about safety only.

## Proofs

TLAPS checks the theorems for every set of jobs, sends, runs, callers, …, for every value of the
limits, and for any number of faults. They rest on the ASSUME of the module they are about and on
nothing else. SignIn's is Personal's `SignInAssumption` (a device's first guest is a user, `None` is not,
the bounds are numbers), ResumeArtifacts' is Personal's `FilesAssumption` (the bounds are numbers).

| Theorem | Says |
|---|---|
| `ApplySends_proofs!NeverTwice`, `NotDenied`, `FitTogether`, `TypeCorrect` | `[]SentOnce`, `[]SentIsNotDenied`, `[]IInv`, `[]TypeOK` |
| `ApplySends_proofs!Promised` | `Spec => KeepsThePromise`: ApplySends implements OneApplication |
| `ApplySends_proofs!OneHolder`, `PagesStayOpen` | `[]BrowserHasOneSend`, `[]NoOpenPageClosed` |
| `ApplySends_proofs!AllowanceHeld`, `MovesOn` | `[]SentHoldsAllowance`, `StatusMovesOn` |
| `ApplySends_proofs!Settled`, `LetGoOf` | `[]BooksSettled`, `[]KeptFormLetGo` |
| `NewJobAlerts_proofs!OneAlertEach`, `OneDigestADay`, `TypeCorrect` | `[]AlertedOnce`, `[]DigestOnce`, `[]TypeOK` |
| `NewJobAlerts_proofs!SentOwesNobody`, `EndsAreTrue` | `[]NobodyForgotten`, `[]EndIsTrue` |
| `FeedMatching_proofs!NoJobIsSkipped`, `MatchesAreOfTheProfile`, `TypeCorrect` | `[]NothingSkipped`, `[]FeedIsOfProfile`, `[]TypeOK` |
| `SourcePolling_proofs!PolledOneAtATime`, `ClosedByMissesOnly`, `TypeCorrect` | `[]OnePollAtATime`, `[]OneBadAnswer`, `[]TypeOK` |
| `ApplyAsks_proofs!JobsAreServed`, `AsksFitTheDay`, `TypeCorrect` | `[]NobodyForgotten`, `[]AsksADay`, `[]TypeOK` |
| `ApplyAsks_proofs!AskedInTime` | that no ask is dated beyond today or, found at night, tomorrow |
| `ApplicationStages_proofs!EmailsSortedOnce`, `DatesFitStages`, `PersonsDatesStay` | `[]EmailSortedOnce`, `[]DateFitsStage`, `PersonsDateStays` |
| `ApplicationStages_proofs!TimelinesAgree`, `TypeCorrect` | `[]TimelineAgrees`, `[]TypeOK` |
| `Personal_proofs!WeekAllowanceKept`, `OnlyServedCharged`, `UsageTypeCorrect` | `[]AllowanceKept`, `[]ChargedIsServed`, `[]TypeOK` of TailorUsage |
| `Personal_proofs!BucketFollowsTable`, `SelectedIsThere`, `FilesTypeCorrect` | `[]FilesMatchRows`, that the selected version has its row, `[]TypeOK` of ResumeArtifacts |
| `Personal_proofs!OneAccountAlways`, `NothingLostAlways`, `SignInTypeCorrect` | `[]OneAccount`, `[]NothingLost`, `[]TypeOK` of SignIn |
| `NotificationLog_proofs!HeldByOne`, `OncePerFault`, `LogTypeCorrect` | `[]RowsHeldOnce`, `[]NotifiedOnce`, `[]TypeOK` |
| `NotificationLog_proofs!ThreeTries`, `CapAlways`, `HeldForCap` | `[]TriedThrice`, `[]CapKept`, `[]HeldOnlyAtCap` |

Each has the same shape: an invariant that is inductive, one step (or lemma) per action, under
it one per conjunct the action can disturb. TLC checked each invariant before it was proved. What
the invariants say, and why the property alone is not enough:

**ApplySends.** In a state where an employer has an application but its row says `running`, or
where two rows of a job are both going, the next step breaks `SentOnce`. So

    IInv == TypeOK /\ OneGoing /\ OnlyRealGoOut /\ RequestInv /\ WorkflowInv

* `OneGoing` is the unique index: of a job's real sends one is going, sent or unconfirmed.
  It holds because only Insert and Claim bring a row into that set, and the index refuses
  both. The index alone does not give `SentOnce`; a row could leave the set after Submit.
* `OnlyRealGoOut` rules this out: what the employer has is `submitting`, `submitted` or
  `unconfirmed` in the table. It is the link between the outside world and the index.
* `WorkflowInv` keeps it: Submit and the code are typed only where the row says
  `submitting` and nothing went out before, and `finish` says that nothing went out only
  if so, and never starts from a row that says something did. This is where a Workflow that
  resumes behind Submit would break the proof.
* `RequestInv` says that a row is as its request left it until the Workflow exists, and
  that Pause touches a row only once its request is done.

For the refinement, every step either leaves a row as it is for its job, or is one of four
moves (`Moves`, `GoesOut`): the row begins to go, gives up with nothing sent, is over, or the
employer receives it. `WorkflowMoves`, `RequestMoves` and `FaultMoves` sort the actions into
them; `Begins`, `GivesUp`, `IsOver` and `Delivers` show each to be a step of OneApplication. By
`OneGoing` the sender the abstraction chooses is the only one there is, and by `OnlyRealGoOut`
nothing was received while it goes.

The second half of ApplySends_proofs adds what the other properties of ApplySends need. For the browsers (`Owned`), what
a send holds is its row's session, its page, the session its request just took over and the one
`finish` is about to write; no two sends hold one (`Apart`), no page is of a closed session, and
sessions are numbered so that the next attempt's is new (`Numbered`). A step of one send keeps what
the others hold and closes only its own (`OwnStep`, one proof per action) except Open, which takes
a new session, and TakeOver, which moves one out of a row that ended with its form kept open, whose
Workflow has no page and no `finish` ahead (`FoundKept`, `FinishOpen`, `PageOpen`). This holds under
every fault and under Pause. For the books, `HeldInv` (the allowance is used from the reservation
to the row's end, unless Pause ended the row), `RowInv` (`finish` ends a row only in a way that
follows from what it says; a row that is `failed` where `setStatus` is about to write is one Pause
ended), `SettledInv` (a Workflow not yet over has a row not yet ended, or one that Pause ended or
whose `finish` was cut; `StepInv` says which step it is in) and, for the kept form, `LetGoInv`.
All four theorems hold for every fault at every place and with Pause: `stopped` and `cut` name the
sends for which the code does not keep the property (below), and nothing else is excepted.

**FeedMatching.** `IInv == Shape /\ OfProfile /\ (Lost \/ (Undisturbed /\ (AnyReset \/ Progress)))`.
`OfProfile` holds whoever races whom: a batch about to be stored that is of an older profile is known
to be late (`HeldOver`), and so are the matches of one (`FeedIsOfProfile`). The rest is about
evaluating every job. While a gap has taken everything there is nothing to say (`Lost`, until a save
clears the cursors with nobody at work); otherwise no run raced a save or a
release (`Undisturbed`), and unless a run is about to clear the cursors, `Progress`: the cursors
are set, or a run is about to set them (`CursorOK`), a forward batch covers everything from its head on
(`ForwardCovers`), a backward batch everything down to its oldest (`BackwardCovers`), and two
first warm-ups cover what lies between them (`WarmUpsCover`). The last was found while proving:
TLC's batches of two were too wide for two first warm-ups to leave a job between them, and the
model's `CutOff` now names that gap.

**SourcePolling.** Two counts. Polls that have not reported yet (`Holding`), and a credit for a
claim whose `sendBatch` failed though its message may exist (`Doubtful`), number at most
1 + `mishaps`; those of them whose claim is no longer the source's (`Behind`), and that credit,
at most `mishaps`. The second is what keeps the first when a claim changes hands. For
`OneBadAnswer`, a job that never left the board is charged for each miss counted and for each
poll that still has an answer without it in hand (`Lacking`): together at most `bad`.

**ApplyAsks.** `JobsAreServed`: each job is served or still to come (`ToCome`: it is in the
backlog, and no cycle past its `Create` has it). A cycle's jobs leave the backlog only in
`Clear`, and then all of them are served. `AsksFitTheDay`: asks of a day, those moved or raced
apart, are within the limit, and a cycle that has found room and not yet recorded its ask has it
still (`RoomLeft`). `TInv`, for `AskedInTime` and `TypeOK`, bounds by the present what a cycle took for
now and the days of every ask.

**ApplicationStages.** `Shape` is about what calls hold; `Sorted`, for each email that two calls
did not sort at once: one step on an application at most, steps only while it is filed, one call
that files it, and that call has made no step yet where it will make one; `Dates`, for each row
not in `drift`. `PersonsDatesStay` is an action property and follows from `Shape`.
`TimelineAgrees` speaks of the rows nobody writes; `TInv` adds what the others are short of (a new
row its first step, a redated one its dates, an undone one its row), that no two calls have one
`now`, and that the steps of a timeline are numbered. `TypeInv`, for `TypeOK`, adds what calls hold:
the steps they have read are numbered as a timeline is, so that the first and last of them exist.

**Tailoring.** *TailorUsage.* A plan has its row to itself until it is saved (`Plans`), so no other request
can refund it; what is being written was planned, and what is planned has its usage row
(`Writes`); without a request on it a row is settled (`Serves`). For the allowance (`Reads`): a request
about to reserve counts from a day on that is early enough for all that is billed (this week's
but `recharged` and `moved`), up to a limit no larger than the plan's, or else its own row is one that
would be `moved`; and the one INSERT counts and inserts at once.

*ResumeArtifacts.* An export's file is its own until its row exists (`Exports`); objects
that were removed do not come back (`Removed`); rows without objects are lost or being erased
(`Agree`). TLC checked this invariant, `ResumeArtifacts!IInv`, on 16.8 million states. `Chosen`, for
`SelectedIsThere`: a selected version has its row, which only an erasure takes, and that clears it.

**SignIn.** `AuthInv == AuthShape /\ (~crossed => Account /\ Rows /\ (~missed => PlansKept))`. `Account`: the
identities are held by one user at most, every sign-in that knows its target is to that user, or is
the first and the only one, and no call merges the user it signs in as. So a guest that is merged
is never the account (`NotLinked`), and whatever else the guest's merge moves goes to a user that
stays. `Rows`: what the person was told is saved is somewhere, rows are only with users that can
be reached, and a call past its Move has a guest without rows; past DeleteGuest, one that is not in
`users`, so that no later request can write for it. `PlansKept` says the same of Pro, past PlanWrite.
These are what makes EndSessions, DropIdentities and DeleteGuest harmless (`GuestGoes`), where the
guest stops being reachable, and they have to hold for every call at once: two requests of one
guest merge it twice, and `OthersLeave` and `NotLinked` are why the second takes nothing of the
first's. `Drawn` says that ids are drawn before anyone knows them, so that a new guest is nobody's;
that what remains of the rows after a deletion has a most, for which DeleteAccount's CHOOSE stands,
is `RemainsMost`, from `Bounded` and `WFMin`.

**NotificationLog.** Five invariants, the first under all others. `HeldInv`: what a living tick
claimed and has not written yet (`Mine`) is claimed in the table since that tick's start (`Held`),
in groups of distinct rows, of one kind or of one row each (`Parted`), and is no other tick's
(`Apart`); a row that waits has an attempt left. All of it is said of rows not in `stray`: when a
tick's claims expire, by Advance or under a claim made too late, what it has goes into `stray`, so the
reaper of another tick finds nothing else of it that has expired. No hypothesis on the ticks is left.
`Pushed` counts what reached a device against faults, and `TriedInv` books every attempt against a
try (`Booked`). A group is given up for a row that has none left (`Spent`), and a row given up with it
has that row among its fellows (`Lost`), whatever its own count. `ToldInv`, for the cap: each
passive push is recorded on its rows, or the tick that made it is about to (`Recording`); a push about
to go has found room (`LetGo`), so one more push keeps the cap (`CapKeptByOneMore`: a window with
too many pushes would, by injection into the rows the count found, have been full). `CapInv` has it
while ticks run one by one (`OneByOne`, `Single`): two read the cap before either push is recorded,
and a push whose record is lost is not counted. `ListedInv` is the reverse, for pushes held back, and
needs none of this: each row the count found is of a push that was told, so the rows of the pushes
in the window are at least as many. `FreesAt` takes the newest push by CHOOSE; that one exists is
`Least` and `Most`, from the well-foundedness of `<` on Nat (`WFMin`), which takes no operator. TLC
checked the five on the instances of `MCLog` first.

**New job alerts.** `RowInv`, for each job and registration, charges a fault for every repeat: the
alerts that came, the runs that hold the delivery and may still push it (`Carriers`), and one more
if another run may take it (`Loose`: it waits, failed, is still to be made, or its claim is old or
nobody's) number at most 1 + `faults`. Every step keeps the sum: a run takes the row from Loose
into its Carriers, Send from there to what came, and only a crash, a lost answer or a run slower
than its claims adds one, each charged. `AlertedOnce` says only what came, and a second run about
to send would break it in the next step. `DigestInv`: a day is taken by one run, which comes by
each device once (`Trips`), and nothing reached a device it has yet to come to (`Reached`).

`EndInv` is about the verdict, counted in one statement and written in another. A candidate a run
works on is claimed and is that run's alone (`Claims`, `Works`), and what the verdict says of the
deliveries stays so until it is written (`Settles`) and after (`Written`): they are revived only
with their candidate, which is waiting or failed then, and taken only by a run that has the
candidate. A profile edit, or ten minutes, takes a candidate away from the run that works on it
(`seized`); two runs may then be at work on one candidate, and TLC finds both properties violated
there (below). `EndInv` therefore leaves `seized` candidates out, and takes one in again when a run
claims it that no other works on: whatever the run before wrote no longer matters then
(`EndSeizeKeeps`, `EndClaimKeeps`). No hypothesis on faults or events is left. `TruthInv` (what is
recorded as sent reached a device) holds of every candidate.

Every safety and action property the runs check is stated by a theorem. Only model-checked is liveness (`EverySendEnds`, `EveryWorkflowEnds`, `AlertsEnd`,
`FeedCatchesUpAlone`, `NeverDarkAlone`, `CatalogFollowsBoardAlone`): TLAPS does not do `ENABLED`,
on which fairness rests.

## What TLC found

Where the code and a line of the repository disagree; `PROJECT.json`, "findings", quotes the
lines. Each was found as a counterexample, and each passing run avoids it by a constant or by a
ghost. The constants that bring it back follow each (with `MCApplySends` and one send unless
something else is named).

**Sends**

* `runSend` reads a row, Pause stops it and refunds it, `setStatus` writes `running` over
  that: the send goes out with its allowance given back (`worker/apply/sends.ts:423`).
  Without the ghost `stopped`, `MCApplyRace` violates `SentHoldsAllowance` and `StatusMovesOn`.
* Pause ends a row and leaves its `browser_session` (`worker/apply/asks.ts:101`): when that send
  had taken over a kept form, nobody closes the form's browser, which is left to its own timeout.
  Without `stopped` in `KeptFormLetGo`, a dry run and an automatic send of its job violate it. No
  line says otherwise, so it is not among the findings.
* A request that dies between the INSERT and `APPLY_SEND.create` leaves a `queued` row that no
  Workflow, cron or later request ends; the job can't be sent again and the allowance stays used
  (`sends.ts:150`). `Faults = {"request"}`: `EverySendEnds` is violated.
* `finish` cut between its UPDATE and `releaseAllowance` (`sends.ts:311`) is repeated by its
  step, which returns early for a row that ended: the allowance of a send that never went out
  stays used, and a kept browser is never let go of. Without the ghost `cut` `BooksSettled` is
  violated in `MCApplyEnds`, and `KeptFormLetGo` with `Faults = {"finish"}`.
* Two sends that wait for codes at once: `deliverSendCode` gives an emailed code to the newest
  waiting send, whoever it was for (`sends.ts:595`). The code of another form is turned back
  and the send ends without having gone out, so no property is violated, but the person is asked
  to act.

**Alerts and log**

* The status after a failed delivery is computed from attempts read before the claim; after an
  expired claim it is `retry` with the third attempt used, which no run selects and every run
  counts as open (`worker/notification-delivery.ts:436`). `MCNewJobAlerts` with `FairSpec`,
  one device, two runs, `Events = {}`, `Faults = {"slow"}`: `AlertsEnd` is violated.
* A group is given up when any of its rows used its last attempt, so a row that just joined is
  given up after one try (`worker/notifications.ts:531`): `TriedThrice` lets the tries of a fellow
  row stand for its own (`Fellows`), and is violated in *pair* if it does not.
* `seized`: a profile edit skips candidates that a run is sending (`worker/user-preferences.ts:202`),
  matching brings them back, a second run claims them, and the first writes its verdict over the
  second's; the same comes of a run whose claim expired under it. Without the ghost `EndIsTrue` and
  `NobodyForgotten` are violated in *busy*.
* `AlertedOnce` is per registration: a device whose token rotates while its delivery is open
  is alerted again under the new one.
* `overlapped`: two ticks read the cap before either push is recorded, and both push
  (`worker/notifications.ts:497`). A minute's tick has to outlast the minute for it. `faults`: a push
  whose record is lost is not counted.
* `stray`: rows are claimed as of the tick's start (`worker/notifications.ts:436-439`), so a tick
  that takes ten minutes has its rows reaped and sent by the next; both write, and a row's count of
  attempts may pass three.
* `HeldOnlyAtCap` counts rows: the cap does, and one push with three rows is three.

**Polling** (`mishaps`, `bad`)

* A board read by references: a job that comes back while its closed row exists is recorded as
  inspected because the row exists (`worker/poller.ts:777-789`), is not reopened, and after the row
  is purged is never inspected again, where `poller.ts:562` promises it. `ReappearanceInspected`,
  in `MCSourcePolling` with `Modes = {"queue"}`, `Kinds = {"references"}`, one poller,
  `TrustFrom = 8`, no faults, `MaxChanges = 2`.
* A message older than the claim's time to live is still polled once the claim has expired and
  nobody has taken it over; a second delivery under way, a `sendBatch` that failed though its
  message went, and a claim taken over under its poll each allow one overlapping poll: the
  `mishaps`.
* A board by references that goes empty throws at every poll and is quarantined; the empty board
  is believed for whole listings only. Of eight jobs or more, an honest drop by over a half is
  never trusted, so its jobs stay open (`Believable` in `CatalogFollowsBoard`).

**Matching** (`gaps`, `late`)

* A poll stamps its jobs with the moment it began (`poller.ts:700`) and commits them after
  hydration. A visit in between that evaluates a later poll's jobs moves the watermark past them:
  they are neither ahead of it nor, once the cursor is older, behind that
  (`worker/user-job-matches.ts:687`). A job that reopens behind the watermark is the same case.
* A batch backward that ends within a moment's jobs leaves the cursor on them, and the rest are
  not older than it. Two first warm-ups of overlapping visits can leave jobs between them.
* A save or release beside a run, or two runs that race a reset: the cursor or watermark one cleared
  is set by the other. This lasts until a save clears both with nobody at work.
* `late`: `saveUserPreferenceState` writes the profile and deletes the matches in two statements, and
  whether it deletes goes by what it read at first (`worker/user-preferences.ts:174-197`). A batch in
  hand when the profile is written is stored by the profile the run read. A save that dies between
  the two leaves the old matches, and the same save made again finds nothing changed and deletes
  none. A save that changed nothing, but overlaps one that did, writes the older profile back and
  deletes none. Without the ghost `MCMatching` violates `FeedIsOfProfile`. The model errs on the safe side
  three times: a profile written back counts as another, batches in hand at a release count as
  late, and what is stored after a release as of an earlier profile.
* A run that dies between the DELETE of an older matcher's matches and the clearing of the
  cursors, or between the first cursor and the first watermark, loses the backlog for good. A
  person without one match never has their cursors cleared by a release, since there are no old
  rows to find.
* `advanceBacklogMatching` takes the profile saved longest ago among those behind the oldest open
  job, which it computes without the review queue (`user-job-matches.ts:504-527`): an open job
  in review holds one person at the front and no other is advanced. Not in the model, which has one
  person.

**Asks** (`moved`, `raced`, `lost`)

* `moved`: `concludeAskCheck` moves the push to the moment its check ends, without asking for room
  in that day (`worker/apply/ask-checks.ts:109`). `raced`: two cycles that find the same room.
* `lost`: a statement that fails between skipping the alert and queueing the check is only logged, the
  ask stays `checking` and the job is not asked about again (`asks.ts:271-273`); so is a check's
  conclusion that fails half way. A cycle that dies there is repaired by the next one, unless another
  had taken its job from the backlog meanwhile.
* `skipAlert` touches pending candidates only: a job whose alert is being sent or retried, or that a
  second cycle took from the backlog, gets its alert and its ask (`ask-checks.ts:41` says "One
  push per job").
* A cycle that read the settings before a Pause queues automatic sends after it.

**Applications and emails** (`drift`, `redated`, `twice`)

* `drift`: `setEventDate` and `undoEmailSteps` write stage and dates computed from a timeline read
  before, whatever a move has done since (`worker/applications.ts:388`); a call that dies between a
  step and its row does it too. So does a date ahead of `now`, which the code allows by a minute
  (`applications.ts:378`): a move made before it has come is the row's stage, and yet not the last step.
* `redated`: once a step is dated anew, an undo goes back to the last step by date, which need not be
  the last one taken. A job moved to Applied, back and to Applied again has the later applied date
  until any step is dated anew; then it has the first (`applications.ts:388-390`).
* `twice`: dismissing and assigning read `needs_choice` and write by the id alone; when they overlap,
  the email ends up dismissed with its steps on the timeline, where undo refuses it.
* Whether an email moves an application is decided by a stage read before the email is recorded: a
  rejection the person records in between is overwritten by an interview
  (`worker/email/process.ts:226`). An email cut between its record and its step is a duplicate
  when it comes again, and the step is never made.

**Tailoring** (`recharged`, `moved`, `raced`, `cut`; `late`, `lost`, `cut`)

* `recharged`: a generation that charges a refunded row again is held against the day's count and
  fifteen, not the plan's week (`worker/tailor/usage.ts:225`). TLC refutes `AllowanceKept` without
  the ghost in eleven steps.
* `moved`: nothing makes room when the plan or the time zone changes. After Pro ends, the week's
  tailorings stay charged against Free's three; a request that read Pro's limit (`worker/plans.ts:186`)
  reserves by it (`worker/tailor/usage.ts:114`) after Pro has ended; a person whose zone's Monday comes
  earlier has days back in the week that were out of it. Without the ghost `MCPersonal` violates `AllowanceKept`.
* `raced`: a generation over a tailoring that has its résumé refunds it when it fails, though the résumé
  stays; of two that overlap, the one that fails may save last and leave a failed tailoring charged.
* A row whose request died stays reserved and counts as used (`cut`). A rewriting or an edit that fails
  leaves its tailoring charged, by design. Attempts on a row of an earlier day are in no day's budget.
* `late`: deleting all versions, or the account, reads the keys first and erases every row in the end,
  so a PDF exported in between stays in the bucket with no row (`worker/routes/tailor.ts:1214`,
  `worker/account.ts:429`). When the bucket fails under the account's deletion, its rows stay
  `deleting`, and the account that is left intact lists no PDF.
* `lost`: an INSERT whose answer is lost has its object removed. Two exports draw one revision and
  the second is refused; a revision is drawn again once the highest is deleted. Restoring makes a
  version that was `missing` available again. The purge of closed jobs (`poller.ts:1557`) cascades to
  tailorings and their rows without their objects; the model has no purge.

**Sign-in** (`crossed`, `late`, `missed`, `left`)

* `crossed`: two first sign-ins with one verified email by different providers both find no identity
  before either inserts its own; the index is on provider and subject, and the person has two
  accounts (`worker/routes/auth.ts:226`). A sign-in under way while its account is deleted creates
  the user again without identities (`worker/auth.ts:178`).
* `late`, `missed`: what the guest saves or buys after the merge moved its rows, or read its plan,
  goes with the guest (`worker/account.ts:412`). Two guests that merge at once each write the application
  and the plan they computed from what they read (`worker/applications.ts:558`, `worker/plans.ts:155`).
* `left`: a sign-in replaces whatever session its device has by then; the guest that the device was
  given meanwhile is left behind, as it is after a logout.
* A signed-in account that signs in with an identity of another account is merged into it and deleted,
  as a guest is, while the comment at `worker/routes/auth.ts` on adding a Google identity refuses that
  with 409; the model has one person's identities only.

## Not modelled

Left out of the modules that exist:

* *Sends:* how a form is read and filled, pictures, the progress counter, a send queued from
  the admin trigger (`queueFromTrigger`), which plan a person is on and when its window turns
  (one `Limit` stands for it), a code's push withdrawn before it went.
* *Alerts:* the limits of 200 candidates a run and 100 jobs a push (fairness between people),
  candidates deleted with their job, a change of mode between two alerts (the mode is chosen at
  the start), blocked companies (folded into what no longer matches), how a push is encrypted
  and sent. The digest's row in the log stands for its key only.
* *Log:* wording, opens and metrics, the deliveries of one push to several devices (one of them
  took it, or none).
* *Polling:* hydration in checkpoints and its rotation, which titles are stored, the full backfill of a
  disabled source, limits a tick shares between sources, watchdog and latency reports.
* *Matching:* how a job is classified and judged against a profile, the review queue, matching before an
  alert, the choice among people.
* *Asks:* who is a strong match, plans, hidden companies. *Tailoring:* what the model
  writes and how that is validated, zones that differ by less than a day (a Monday comes a day early
  or it doesn't), usage rows that a sign-in moves from a guest (`account.ts:405`).
* *Sign-in:* how an identity is proved, two different emails, unsaving, and of the merge the tables that
  move in one statement each (preferences, push subscriptions, the log, profile, roles).

Left out altogether (`PROJECT.json`, "components"):

* *The client data layer.* Autosave and the optimistic cache race with answers, in JavaScript's one
  thread over a network: a system of its own beside the worker.
* *The form's rules, stage detection in emails, the adapters*: classification of text.
* *The waiting sheet, outreach, events, reminders, errors, routing*: single-row updates by one person,
  reads, or observability. *The apps, the compiler, tokens and scripts* have no protocol.

The map covers 36 files and some 4,700 lines of the repository. Most of its other 84,000 lines of
implementation are screens, adapters, the form's rules and reads.

## Plan

Done: all of the modules above, their runs and proofs. Next would be, in order:

1. The client's autosave.
