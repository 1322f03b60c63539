---------------------------- MODULE SourcePolling ----------------------------
(***************************************************************************)
(* One job source: the every-minute dispatcher that claims it when it is   *)
(* due and sends a message to a queue, the consumers that poll it, the     *)
(* cron cycle and the admin's button that poll it too, and what a poll     *)
(* makes of the board's answer: jobs opened, missed and closed, the streak *)
(* of failures that quarantines the source, the empty answers it only      *)
(* believes after a day.                                                   *)
(*                                                                         *)
(* One step is one D1 statement or batch, one fetch, or one queue call.    *)
(* Time is what the code compares: since the source was last polled        *)
(* nothing, its cadence or a day has passed; a claim is young or old.      *)
(***************************************************************************)
EXTENDS Integers, FiniteSets

CONSTANTS
    Jobs,             \* postings the board may list
    Pollers,          \* invocations that may be under way at once
    Claims,           \* bound: claims told apart at once (poll_claimed_at)
    None,             \* no claim
    Modes,            \* who polls: "queue", "cron", "admin"
    Kinds,            \* what the adapter offers: "complete", "partial", "references"
    CloseAfter, QuarantineAfter, TrustFrom,
    MaxFaults,        \* bound: calls that fail, invocations that die, bad answers
    MaxChanges        \* bound: times the board or a setting changes

ASSUME PollingAssumption ==
    /\ None \notin Claims /\ IsFiniteSet(Pollers)
    /\ Modes \subseteq {"queue", "cron", "admin"}
    /\ Kinds \subseteq {"complete", "partial", "references"}
    /\ CloseAfter \in Nat \ {0} /\ QuarantineAfter \in Nat \ {0} /\ TrustFrom \in Nat
    /\ MaxFaults \in Nat /\ MaxChanges \in Nat

VARIABLES
    kind,         \* the adapter's kind
    board,        \* the jobs on the board now
    enabled,      \* companies.enabled
    queued,       \* its tier is in QUEUE_POLLING_TIERS
    claim,        \* poll_claimed_at
    old,          \* the claim is older than its time to live
    age,          \* since last_polled_at: 0, 1 a cadence, 2 a day
    failures,     \* poll_failure_count, up to QuarantineAfter
    quarantined,  \* quarantined_at is set
    empty,        \* since empty_snapshot_since: "never" (not set), "recent", "day"
    row,          \* jobs: "none", "open" or "closed"
    missed,       \* jobs.missed_polls, up to CloseAfter
    ledger,       \* source_job_references
    sending,      \* claims a dispatcher took and has not sent
    failing,      \* those whose sendBatch failed
    queue,        \* claims with a message in the queue, not acknowledged
    at,           \* where each poller is
    my,           \* its locals
    faults,       \* faults so far
    mishaps,      \* those after which two messages may stand for one claim's poll
    bad,          \* answers so far that lack a job the board has
    left,         \* jobs the board ever dropped
    changes       \* changes so far

source   == <<enabled, queued, claim, old, age, failures, quarantined, empty>>
catalog  == <<row, missed, ledger>>
dispatch == <<sending, failing, queue>>
world    == <<kind, board, left, changes>>
mishap   == <<faults, mishaps, bad>>
vars     == <<source, catalog, dispatch, world, mishap, at, my>>

(* What a poller has in hand: its mode and claim; the company row as it    *)
(* read it, and the cadences since; the answer and what follows from it.   *)
Nothing == [mode |-> "none", claim |-> None, age |-> 0, failures |-> 0, quarantined |-> FALSE,
            empty |-> "never", snap |-> {}, hit |-> {}, miss |-> {}, fresh |-> {}, forget |-> {},
            ok |-> TRUE]

Places == {"off", "drop", "fetch", "read", "note", "clear", "apply", "persist", "record", "ack"}

TypeOK ==
    /\ kind \in Kinds /\ board \subseteq Jobs /\ left \subseteq Jobs
    /\ enabled \in BOOLEAN /\ queued \in BOOLEAN /\ old \in BOOLEAN /\ quarantined \in BOOLEAN
    /\ claim \in Claims \cup {None}
    /\ age \in 0 .. 2 /\ failures \in 0 .. QuarantineAfter
    /\ empty \in {"never", "recent", "day"}
    /\ row \in [Jobs -> {"none", "open", "closed"}]
    /\ missed \in [Jobs -> 0 .. CloseAfter]
    /\ ledger \subseteq Jobs
    /\ sending \subseteq Claims /\ failing \subseteq Claims /\ queue \subseteq Claims
    /\ at \in [Pollers -> Places]
    /\ my \in [Pollers -> [mode : Modes \cup {"none"}, claim : Claims \cup {None}, age : 0 .. 2,
                           failures : 0 .. QuarantineAfter, quarantined : BOOLEAN,
                           empty : {"never", "recent", "day"}, snap : SUBSET Jobs,
                           hit : SUBSET Jobs, miss : SUBSET Jobs, fresh : SUBSET Jobs,
                           forget : SUBSET Jobs, ok : BOOLEAN]]
    /\ faults \in 0 .. MaxFaults /\ mishaps \in 0 .. faults /\ bad \in Nat
    /\ changes \in 0 .. MaxChanges

(* An established source: its catalog is the board's, its next poll is due. *)
Init ==
    /\ kind \in Kinds /\ board \in SUBSET Jobs
    /\ enabled = TRUE /\ queued = ("queue" \in Modes)
    /\ claim = None /\ old = FALSE
    /\ age = 1 /\ failures = 0 /\ quarantined = FALSE /\ empty = "never"
    /\ row = [j \in Jobs |-> IF j \in board THEN "open" ELSE "none"]
    /\ missed = [j \in Jobs |-> 0]
    /\ ledger = IF kind = "references" THEN board ELSE {}
    /\ sending = {} /\ failing = {} /\ queue = {}
    /\ at = [p \in Pollers |-> "off"]
    /\ my = [p \in Pollers |-> Nothing]
    /\ faults = 0 /\ mishaps = 0 /\ bad = 0 /\ left = {} /\ changes = 0

Fault == faults < MaxFaults /\ faults' = faults + 1

Running(p) == at[p] # "off"

-----------------------------------------------------------------------------
(* The dispatcher: claimDueSources, sendBatch, releaseClaims.              *)

InUse == {claim} \cup sending \cup failing \cup queue \cup {my[p].claim : p \in Pollers}

Claimable_NeverExpires == claim = None

Claimable == claim = None \/ old

Due == age >= (IF quarantined THEN 2 ELSE 1)

(* "The claim and the due check happen in a single UPDATE."  A claim taken  *)
(* over is not always a dead poll's: a message that waited in the queue is *)
(* polled after its claim expired.                                         *)
ClaimDue ==
    /\ enabled /\ queued /\ Claimable /\ Due
    /\ IF claim # None /\ \E p \in Pollers : my[p].claim = claim
       THEN Fault /\ mishaps' = mishaps + 1
       ELSE UNCHANGED <<faults, mishaps>>
    /\ LET free == Claims \ InUse IN
       /\ free # {}
       /\ LET drawn == CHOOSE d \in free : TRUE IN
          claim' = drawn /\ sending' = sending \cup {drawn}
    /\ old' = FALSE
    /\ UNCHANGED <<enabled, queued, age, failures, quarantined, empty, catalog, failing, queue,
                   world, bad, at, my>>

SendBatch(c) ==
    /\ c \in sending
    /\ sending' = sending \ {c}
    /\ queue' = queue \cup {c}
    /\ UNCHANGED <<source, catalog, failing, world, mishap, at, my>>

(* sendBatch throws, and may have delivered all the same. *)
SendFails(c) ==
    /\ c \in sending
    /\ Fault
    /\ sending' = sending \ {c}
    /\ failing' = failing \cup {c}
    /\ \/ queue' = queue /\ UNCHANGED mishaps
       \/ queue' = queue \cup {c} /\ mishaps' = mishaps + 1
    /\ UNCHANGED <<source, catalog, world, bad, at, my>>

Released(c) == claim' = (IF claim = c THEN None ELSE claim) /\ old' = (old /\ claim # c)

(* releaseClaims, whose own failure is swallowed. *)
Release(c) ==
    /\ c \in failing
    /\ failing' = failing \ {c}
    /\ \/ Released(c) /\ UNCHANGED faults
       \/ Fault /\ UNCHANGED <<claim, old>>
    /\ UNCHANGED <<enabled, queued, age, failures, quarantined, empty, catalog, sending, queue,
                   world, mishaps, bad, at, my>>

(* The dispatcher dies between the claim and the message. *)
DispatcherDies(c) ==
    /\ c \in sending
    /\ Fault
    /\ sending' = sending \ {c}
    /\ UNCHANGED <<source, catalog, failing, queue, world, mishaps, bad, at, my>>

-----------------------------------------------------------------------------
(* A poll begins.                                                          *)

Loaded(mode, c) ==
    [Nothing EXCEPT !.mode = mode, !.claim = c, !.failures = failures,
                    !.quarantined = quarantined, !.empty = empty]

StaleClaim_Ignored(c) == FALSE

StaleClaim(c) == claim # c

(* pollQueuedSource reads the company; another delivery of the message may *)
(* be under way.                                                           *)
Deliver(p, c) ==
    /\ "queue" \in Modes
    /\ ~Running(p) /\ c \in queue
    /\ IF \E q \in Pollers : my[q].claim = c
       THEN Fault /\ mishaps' = mishaps + 1
       ELSE UNCHANGED <<faults, mishaps>>
    /\ at' = [at EXCEPT ![p] = IF StaleClaim(c) THEN "ack"
                               ELSE IF ~enabled \/ ~queued THEN "drop" ELSE "fetch"]
    /\ my' = [my EXCEPT ![p] = Loaded("queue", c)]
    /\ UNCHANGED <<source, catalog, dispatch, world, bad>>

Go(p, from, to) == at[p] = from /\ at' = [at EXCEPT ![p] = to]

(* Disabled, or its tier went back to the cron path, since the dispatch. *)
Drop(p) ==
    /\ Go(p, "drop", "ack")
    /\ Released(my[p].claim)
    /\ UNCHANGED <<enabled, queued, age, failures, quarantined, empty, catalog, dispatch, world,
                   mishap, my>>

(* runPollCycle selects it. *)
StartCron(p) ==
    /\ "cron" \in Modes
    /\ ~Running(p) /\ \A q \in Pollers : my[q].mode # "cron"
    /\ enabled /\ ~queued /\ (quarantined => age = 2)
    /\ at' = [at EXCEPT ![p] = "fetch"]
    /\ my' = [my EXCEPT ![p] = Loaded("cron", None)]
    /\ UNCHANGED <<source, catalog, dispatch, world, mishap>>

(* POST /companies/:id/poll, disabled or not. *)
StartAdmin(p) ==
    /\ "admin" \in Modes /\ changes < MaxChanges
    /\ ~Running(p)
    /\ changes' = changes + 1
    /\ at' = [at EXCEPT ![p] = "fetch"]
    /\ my' = [my EXCEPT ![p] = Loaded("admin", None)]
    /\ UNCHANGED <<source, catalog, dispatch, kind, board, left, mishap>>

-----------------------------------------------------------------------------
(* pollCompany.                                                            *)

Failed(p) == my' = [my EXCEPT ![p].ok = FALSE, ![p].snap = {}, ![p].hit = {}, ![p].miss = {},
                              ![p].fresh = {}, ![p].forget = {}]

(* The adapter answers with the board, with part of it, or throws. *)
Fetch(p) ==
    \/ /\ Go(p, "fetch", "read")
       /\ my' = [my EXCEPT ![p].snap = board]
       /\ UNCHANGED <<source, catalog, dispatch, world, mishap>>
    \/ /\ Go(p, "fetch", "read") /\ Fault /\ bad' = bad + 1
       /\ \E S \in SUBSET board \ {board} : my' = [my EXCEPT ![p].snap = S]
       /\ UNCHANGED <<source, catalog, dispatch, world, mishaps>>
    \/ /\ Go(p, "fetch", "record") /\ Fault
       /\ Failed(p)
       /\ UNCHANGED <<source, catalog, dispatch, world, mishaps, bad>>

Known == {j \in Jobs : row[j] # "none"}
Open  == {j \in Jobs : row[j] = "open"}

(* isTrustworthyJobSnapshot. *)
Trustworthy(fetched, expected) ==
    IF fetched = 0 THEN expected = 0
    ELSE expected < TrustFrom \/ fetched >= expected \div 2

(* isSettledEmptySnapshot: an empty answer is not believed for a day. *)
UnsettledEmpty_Always(p) == kind = "complete" /\ my[p].snap = {} /\ Open # {}

UnsettledEmpty(p) == kind = "complete" /\ my[p].snap = {} /\ Open # {} /\ my[p].empty # "day"

Larger(a, b) == IF a > b THEN a ELSE b

Judged(p, hit, miss, fresh, forget) ==
    my' = [my EXCEPT ![p].hit = hit, ![p].miss = miss, ![p].fresh = fresh, ![p].forget = forget]

(* The rows are read and the answer judged.  Of references, those of a row *)
(* or of the ledger need no inspection; a row already closed stays so.     *)
ReadReferences(p) ==
    /\ at[p] = "read" /\ kind = "references"
    /\ LET snap == my[p].snap IN
       IF Trustworthy(Cardinality(snap), Larger(Cardinality(Open), Cardinality(ledger)))
       THEN /\ Go(p, "read", "persist")
            /\ Judged(p, {j \in snap \cap Known : missed[j] # 0}, Open \ snap,
                      snap \ (Known \cup ledger), ledger \ snap)
       ELSE Go(p, "read", "record") /\ Failed(p)
    /\ UNCHANGED <<source, catalog, dispatch, world, mishap>>

(* Of listings, what is absent counts only if they are the whole board.    *)
ReadListings(p) ==
    /\ at[p] = "read" /\ kind # "references"
    /\ LET snap == my[p].snap
           whole == kind = "complete" /\ (snap = {} \/ Trustworthy(Cardinality(snap), Cardinality(Open)))
       IN
       IF UnsettledEmpty(p)
       THEN Go(p, "read", IF my[p].empty = "never" THEN "note" ELSE "record") /\ Failed(p)
       ELSE /\ Go(p, "read", IF snap # {} /\ my[p].empty # "never" THEN "clear" ELSE "apply")
            /\ Judged(p, snap \cap Known, IF whole THEN Known \ snap ELSE {}, snap \ Known, {})
    /\ UNCHANGED <<source, catalog, dispatch, world, mishap>>

(* empty_snapshot_since is set by the first empty answer, cleared by the   *)
(* first that is not.                                                      *)
Empty(p, from, to, since) ==
    /\ Go(p, from, to)
    /\ empty' = since
    /\ UNCHANGED <<enabled, queued, claim, old, age, failures, quarantined, catalog, dispatch,
                   world, mishap, my>>

NoteEmpty(p)  == Empty(p, "note", "record", "recent")
ClearEmpty(p) == Empty(p, "clear", "apply", "never")

Misses_AtOnce(n) == CloseAfter

Misses(n) == IF n + 1 > CloseAfter THEN CloseAfter ELSE n + 1

ClosedBy(n) == Misses(n) >= CloseAfter

(* What is listed is missed no more; what is not, once more, and closed at *)
(* the second miss in a row.                                               *)
Missed(hit, miss) ==
    missed' = [j \in Jobs |-> IF j \in hit THEN 0
                             ELSE IF j \in miss THEN Misses(missed[j]) ELSE missed[j]]

ApplyListings(p) ==
    /\ kind # "references"
    /\ Go(p, "apply", "persist")
    /\ LET hit == my[p].hit \cap Known
           miss == my[p].miss \cap Known
       IN
       /\ Missed(hit, miss)
       /\ row' = [j \in Jobs |-> IF j \in hit THEN "open"
                                 ELSE IF j \in miss /\ ClosedBy(missed[j]) THEN "closed" ELSE row[j]]
    /\ my' = [my EXCEPT ![p].snap = {}, ![p].hit = {}, ![p].miss = {}]
    /\ UNCHANGED <<source, ledger, dispatch, world, mishap>>

(* reconcileReferenceSnapshot does not reopen. *)
Reconcile(p) ==
    /\ kind = "references"
    /\ Go(p, "apply", "record")
    /\ LET miss == my[p].miss \cap Open IN
       /\ Missed(my[p].hit \cap Known, miss)
       /\ row' = [j \in Jobs |-> IF j \in miss /\ ClosedBy(missed[j]) THEN "closed" ELSE row[j]]
    /\ ledger' = ledger \ my[p].forget
    /\ my' = [my EXCEPT ![p].hit = {}, ![p].miss = {}, ![p].forget = {}]
    /\ UNCHANGED <<source, dispatch, world, mishap>>

(* New jobs are inserted; one another poll inserted meanwhile fails the    *)
(* whole batch, and with it the poll.                                      *)
Persist(p) ==
    /\ at[p] = "persist"
    /\ LET fresh == my[p].fresh
           done == IF kind = "references" THEN "apply" ELSE "record"
       IN
       IF fresh \cap Known = {}
       THEN /\ Go(p, "persist", done)
            /\ row' = [j \in Jobs |-> IF j \in fresh THEN "open" ELSE row[j]]
            /\ missed' = [j \in Jobs |-> IF j \in fresh THEN 0 ELSE missed[j]]
            /\ ledger' = IF kind = "references" THEN ledger \cup my[p].snap ELSE ledger
            /\ my' = [my EXCEPT ![p].snap = {}, ![p].fresh = {}]
       ELSE Go(p, "persist", "record") /\ Failed(p) /\ UNCHANGED catalog
    /\ UNCHANGED <<source, dispatch, world, mishap>>

-----------------------------------------------------------------------------
(* A poll reports: companyPollOutcome, from the company as it was read.    *)

Streak(p) == IF my[p].ok THEN 0
             ELSE IF my[p].failures + 1 > QuarantineAfter THEN QuarantineAfter ELSE my[p].failures + 1

Outcome(p) ==
    /\ age' = my[p].age
    /\ failures' = Streak(p)
    /\ quarantined' = (~my[p].ok /\ (Streak(p) >= QuarantineAfter \/ my[p].quarantined))

(* One batch of the queue's consumer: the outcome and the claim's release. *)
RecordQueue(p) ==
    /\ my[p].mode = "queue"
    /\ Go(p, "record", "ack")
    /\ Outcome(p) /\ Released(my[p].claim)
    /\ UNCHANGED <<enabled, queued, empty, catalog, dispatch, world, mishap, my>>

Ends(p) == at' = [at EXCEPT ![p] = "off"] /\ my' = [my EXCEPT ![p] = Nothing]

RecordCron(p) ==
    /\ my[p].mode = "cron" /\ at[p] = "record"
    /\ Outcome(p) /\ Ends(p)
    /\ UNCHANGED <<enabled, queued, claim, old, empty, catalog, dispatch, world, mishap>>

(* The admin's poll leaves the streak and the quarantine alone. *)
RecordAdmin(p) ==
    /\ my[p].mode = "admin" /\ at[p] = "record"
    /\ age' = my[p].age
    /\ Ends(p)
    /\ UNCHANGED <<enabled, queued, claim, old, failures, quarantined, empty, catalog, dispatch,
                   world, mishap>>

Ack(p) ==
    /\ at[p] = "ack"
    /\ queue' = queue \ {my[p].claim}
    /\ Ends(p)
    /\ UNCHANGED <<source, catalog, sending, failing, world, mishap>>

(* A D1 call fails or the invocation dies: its message is delivered again, *)
(* or, after the last retry, goes to the dead-letter queue.                *)
Die(p) ==
    /\ Running(p)
    /\ Fault
    /\ Ends(p)
    /\ \/ queue' = queue
       \/ my[p].mode = "queue" /\ queue' = queue \ {my[p].claim}
    /\ UNCHANGED <<source, catalog, sending, failing, world, mishaps, bad>>

-----------------------------------------------------------------------------
(* Time, the board and the settings.                                       *)

(* Twenty minutes since the claim.  An invocation lasts fifteen at most:   *)
(* the dispatcher has ended, and a poll is under way only if its message   *)
(* waited in the queue.                                                    *)
ClaimExpires ==
    /\ claim # None /\ ~old /\ claim \notin sending \cup failing
    /\ old' = TRUE
    /\ UNCHANGED <<enabled, queued, claim, age, failures, quarantined, empty, catalog, dispatch,
                   world, mishap, at, my>>

CadencePasses ==
    /\ age = 0
    /\ \A p \in Pollers : my[p].age = 0
    /\ age' = 1
    /\ my' = [p \in Pollers |-> IF Running(p) THEN [my[p] EXCEPT !.age = 1] ELSE my[p]]
    /\ UNCHANGED <<enabled, queued, claim, old, failures, quarantined, empty, catalog, dispatch,
                   world, mishap, at>>

(* No invocation lasts a day, nor does a claim. *)
DayPasses ==
    /\ age < 2 \/ empty = "recent"
    /\ \A p \in Pollers : ~Running(p)
    /\ age' = 2
    /\ empty' = IF empty = "recent" THEN "day" ELSE empty
    /\ sending = {} /\ failing = {}
    /\ old' = (claim # None)
    /\ UNCHANGED <<enabled, queued, claim, failures, quarantined, catalog, dispatch, world, mishap,
                   at, my>>

Change == changes < MaxChanges /\ changes' = changes + 1

(* A poll that has its answer already applies the board as it was. *)
Answered(p) == at[p] \in {"read", "clear", "apply"} \/ (at[p] = "persist" /\ kind = "references")

BoardChanges ==
    /\ Change
    /\ board' \in SUBSET Jobs \ {board}
    /\ left' = left \cup (board \ board')
    /\ bad' = bad + Cardinality({p \in Pollers : Answered(p)})
    /\ UNCHANGED <<source, catalog, dispatch, kind, faults, mishaps, at, my>>

Toggle ==
    /\ Change
    /\ enabled' = ~enabled
    /\ UNCHANGED <<queued, claim, old, age, failures, quarantined, empty, catalog, dispatch, kind,
                   board, left, mishap, at, my>>

MoveTier ==
    /\ Change
    /\ queued' \in {m = "queue" : m \in Modes \cap {"queue", "cron"}} \ {queued}
    /\ UNCHANGED <<enabled, claim, old, age, failures, quarantined, empty, catalog, dispatch, kind,
                   board, left, mishap, at, my>>

(* Closed for a week and nobody's application: the row is deleted. *)
Purge(j) ==
    /\ row[j] = "closed"
    /\ row' = [row EXCEPT ![j] = "none"]
    /\ missed' = [missed EXCEPT ![j] = 0]
    /\ UNCHANGED <<source, ledger, dispatch, world, mishap, at, my>>

Poll(p) ==
    \/ Fetch(p) \/ ReadReferences(p) \/ ReadListings(p) \/ NoteEmpty(p) \/ ClearEmpty(p)
    \/ ApplyListings(p) \/ Persist(p) \/ Reconcile(p)
    \/ RecordQueue(p) \/ RecordCron(p) \/ RecordAdmin(p) \/ Drop(p) \/ Ack(p)

Next ==
    \/ ClaimDue
    \/ \E c \in Claims : SendBatch(c) \/ SendFails(c) \/ Release(c) \/ DispatcherDies(c)
    \/ \E p \in Pollers :
         \/ \E c \in Claims : Deliver(p, c)
         \/ StartCron(p) \/ StartAdmin(p) \/ Poll(p) \/ Die(p)
    \/ ClaimExpires \/ CadencePasses \/ DayPasses
    \/ BoardChanges \/ Toggle \/ MoveTier
    \/ \E j \in Jobs : Purge(j)

(* The cron runs every minute, an invocation goes on until it ends, time   *)
(* passes, and the queue delivers, not each message after its claim has    *)
(* expired and been taken over.                                            *)
Fairness ==
    /\ WF_vars(ClaimDue)
    /\ \A c \in Claims : WF_vars(SendBatch(c)) /\ WF_vars(Release(c))
    /\ WF_vars(\E p \in Pollers, c \in Claims : Deliver(p, c))
    /\ SF_vars(\E p \in Pollers, c \in Claims : c = claim /\ Deliver(p, c))
    /\ \A p \in Pollers : WF_vars(Poll(p))
    /\ WF_vars(\E p \in Pollers : StartCron(p))
    /\ WF_vars(ClaimExpires) /\ SF_vars(CadencePasses) /\ SF_vars(DayPasses)

Spec == Init /\ [][Next]_vars /\ Fairness

-----------------------------------------------------------------------------
(* Safety.                                                                 *)

(* "Two overlapping dispatcher ticks can never both enqueue the same       *)
(* source", and "a redelivered message, or one whose claim expired and was *)
(* re-issued, must not poll the same source twice": a second poll beside   *)
(* the first takes a mishap of its own (a second delivery under way, a     *)
(* message sent by a call that failed, a claim that expired and was taken  *)
(* over under its poll).                                                   *)
Polling == {p \in Pollers : my[p].mode = "queue" /\ at[p] \notin {"off", "ack", "drop"}}

OnePollAtATime == Cardinality(Polling) <= 1 + mishaps

(* "A job must be absent from this many consecutive polls before it is     *)
(* closed, so a single partial or failed response can't remove valid       *)
(* jobs": a job the board lists all along is closed only after as many     *)
(* answers that lack it, whichever polls overlap.                          *)
OneBadAnswer == \A j \in Jobs : row[j] = "closed" => j \in left \/ bad >= CloseAfter

-----------------------------------------------------------------------------
(* Liveness.                                                               *)

(* "The source becomes claimable again rather than going dark": whatever   *)
(* was lost on the way, an enabled source is polled again and again.       *)
NeverDark == []<>(~enabled \/ \E p \in Pollers : at[p] = "record")

(* A source whose adapter reads the whole board: what the board dropped    *)
(* for good is closed, also when the board went empty ("its jobs must      *)
(* close rather than leave the source erroring forever"), and what it      *)
(* lists for good is open, unless the drop is one the code never believes. *)
Believable == board = {} \/ Trustworthy(Cardinality(board), Cardinality(Open \cup board))

CatalogFollowsBoard ==
    \A j \in Jobs :
        /\ kind = "complete" /\ <>[](enabled /\ j \notin board /\ Believable) => <>[](row[j] # "open")
        /\ kind = "complete" /\ <>[](enabled /\ j \in board) => <>[](row[j] = "open")

(* A source read by references: "forget removed references so a later      *)
(* reappearance is inspected again" (poller.ts:562).  The code does not    *)
(* keep this: a job that leaves and comes back before its closed row is    *)
(* purged stays closed, and is never inspected again (README).             *)
ReappearanceInspected ==
    \A j \in Jobs : kind = "references" /\ <>[](enabled /\ j \in board) => <>[](row[j] = "open")
=============================================================================
