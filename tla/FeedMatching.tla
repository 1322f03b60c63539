---------------------------- MODULE FeedMatching ----------------------------
(***************************************************************************)
(* The jobs one person's feed is matched against.  Polls commit jobs under *)
(* the moment each poll began.  Opening the feed, and the cron, evaluate    *)
(* them against the person's profile: forward from a watermark (head), and *)
(* backward, newest first, from a cursor.  Saving the profile, or a new    *)
(* version of the matcher, starts over.  Any number of these overlap.      *)
(*                                                                         *)
(* One step is one statement that writes, or the reads before it.  Every   *)
(* job is eligible: what matters is whether it was evaluated, and against  *)
(* which profile.  Moments are small numbers; 0 is NULL.                   *)
(***************************************************************************)
EXTENDS Integers, FiniteSets

CONSTANTS
    Jobs, Pollers,
    Runs,        \* feed visits and cron advances that may overlap
    Saves,       \* profile saves that may overlap
    Batch,       \* MATCH_WARM_BATCH_SIZE
    MaxBatches,  \* batches a visit evaluates, forward and backward
    GroupLimit,  \* bound: jobs of one moment (a poll commits 20, or 300)
    MaxTime,     \* bound: the last moment
    MaxSaves,    \* bound: profile saves and matcher versions
    MaxHides,    \* bound: times a job closes or its source is disabled
    MaxFaults    \* bound: runs and saves that die

ASSUME MatchingAssumption ==
    /\ Batch \in Nat \ {0} /\ MaxBatches \in Nat \ {0} /\ GroupLimit \in Nat \ {0}
    /\ MaxTime \in Nat \ {0} /\ MaxSaves \in Nat /\ MaxHides \in Nat /\ MaxFaults \in Nat

VARIABLES
    now,
    stamp,    \* polls: the moment each began, 0 if none is under way
    seen,     \* jobs.first_seen_at, 0 before the insert
    hidden,   \* jobs closed, or of a disabled source
    cursor,   \* match_cursor_seen_at: what is older is still to be evaluated
    head,     \* match_head_seen_at: so is what is not older than it
    fresh,    \* jobs evaluated against the current profile and matcher
    stale,    \* user_job_matches of an earlier profile
    dated,    \* those of an earlier matcher version
    version,  \* profiles written and matcher versions so far
    save,     \* where each save is, and its locals
    saves,    \* saves and releases so far
    late,     \* jobs whose match may stay behind its profile, for a known cause
    at,       \* where each run is
    my,       \* its locals
    gaps,     \* jobs a known gap may have let through
    hides, faults

clock   == <<now, stamp, hides>>
jobs    == <<seen, hidden>>
saving  == <<save, saves, late>>
profile == <<cursor, head, version, saving>>
matches == <<fresh, stale, dated>>
vars    == <<clock, jobs, profile, matches, at, my, gaps, faults>>

(* A run's locals: the profile it evaluates against, the rows of its batch, *)
(* the head it read, the batches left, and whether it goes forward.         *)
Nothing == [version |-> 0, rows |-> {}, head |-> 0, left |-> 0, forward |-> FALSE]

(* A run about to go forward, or backward, for so many batches. *)
Forward(n) == [Nothing EXCEPT !.left = n, !.forward = TRUE]

Backward(n) == [Nothing EXCEPT !.left = n]

Moments == 0 .. MaxTime

(* A save's locals: the profile it read, and whether it is to change it. *)
NoSave == [place |-> "off", version |-> 0, changed |-> FALSE]

TypeOK ==
    /\ now \in 1 .. MaxTime
    /\ stamp \in [Pollers -> Moments]
    /\ seen \in [Jobs -> Moments] /\ hidden \subseteq Jobs
    /\ cursor \in Moments /\ head \in Moments
    /\ fresh \subseteq Jobs /\ stale \subseteq Jobs /\ dated \subseteq Jobs /\ gaps \subseteq Jobs
    /\ version \in Nat /\ saves \in 0 .. MaxSaves /\ late \subseteq Jobs
    /\ save \in [Saves -> [place : {"off", "persist", "delete"}, version : Nat, changed : BOOLEAN]]
    /\ at \in [Runs -> {"off", "reset", "catchup", "rows", "store", "head", "cursor", "first", "again"}]
    /\ my \in [Runs -> [version : Nat, rows : SUBSET Jobs, head : Moments,
                        left : 0 .. MaxBatches, forward : BOOLEAN]]
    /\ hides \in 0 .. MaxHides /\ faults \in 0 .. MaxFaults

(* A new profile, on a day when some jobs are there already. *)
Init ==
    /\ now = 1
    /\ stamp = [p \in Pollers |-> 0]
    /\ seen \in [Jobs -> {0, 1}] /\ Cardinality({j \in Jobs : seen[j] = 1}) <= GroupLimit
    /\ hidden = {}
    /\ cursor = 0 /\ head = 0 /\ version = 0 /\ saves = 0
    /\ save = [s \in Saves |-> NoSave]
    /\ fresh = {} /\ stale = {} /\ dated = {} /\ gaps = {} /\ late = {}
    /\ at = [r \in Runs |-> "off"]
    /\ my = [r \in Runs |-> Nothing]
    /\ hides = 0 /\ faults = 0

Listed == {j \in Jobs : seen[j] # 0} \ hidden

(* The latest and the first moment of a set of jobs: none if it is empty. *)
Newest(S) == {t \in {seen[j] : j \in S} : \A k \in S : seen[k] <= t}

Oldest(S) == {t \in {seen[j] : j \in S} : \A k \in S : t <= seen[k]}

-----------------------------------------------------------------------------
(* Time, polls and jobs.                                                   *)

Tick ==
    /\ now < MaxTime
    /\ now' = now + 1
    /\ UNCHANGED <<stamp, hides, jobs, profile, matches, at, my, gaps, faults>>

(* pollCompany takes its now, then hydrates and inserts. *)
PollBegins(p) ==
    /\ stamp[p] = 0
    /\ stamp' = [stamp EXCEPT ![p] = now]
    /\ UNCHANGED <<now, hides, jobs, profile, matches, at, my, gaps, faults>>

(* The watermark is past this moment, or a run is about to move it there. *)
Passed(t) ==
    \/ head > t
    \/ \E r \in Runs : (my[r].forward \/ head = 0) /\ \E k \in my[r].rows : seen[k] > t

(* persistListings, once for every checkpoint of the poll. *)
PollCommits(p) ==
    /\ stamp[p] # 0
    /\ \E S \in SUBSET {j \in Jobs : seen[j] = 0} :
         /\ S # {} /\ Cardinality(S \cup {j \in Jobs : seen[j] = stamp[p]}) <= GroupLimit
         /\ seen' = [j \in Jobs |-> IF j \in S THEN stamp[p] ELSE seen[j]]
         /\ gaps' = IF Passed(stamp[p]) THEN gaps \cup S ELSE gaps
    /\ UNCHANGED <<clock, hidden, profile, matches, at, my, faults>>

PollEnds(p) ==
    /\ stamp[p] # 0
    /\ stamp' = [stamp EXCEPT ![p] = 0]
    /\ UNCHANGED <<now, hides, jobs, profile, matches, at, my, gaps, faults>>

Hide(j) ==
    /\ j \in Listed /\ hides < MaxHides
    /\ hides' = hides + 1
    /\ hidden' = hidden \cup {j}
    /\ UNCHANGED <<now, stamp, seen, profile, matches, at, my, gaps, faults>>

(* It reopens, behind a watermark that moved on meanwhile. *)
Show(j) ==
    /\ j \in hidden
    /\ hidden' = hidden \ {j}
    /\ gaps' = IF Passed(seen[j]) THEN gaps \cup {j} ELSE gaps
    /\ UNCHANGED <<clock, seen, profile, matches, at, my, faults>>

-----------------------------------------------------------------------------
(* Saving the profile, deploying a matcher.                                *)

Running(r) == at[r] # "off"

Raced == IF \E r \in Runs : Running(r) THEN Jobs ELSE gaps

(* A save has written the profile and not yet deleted the matches. *)
Deleting == \E s \in Saves : save[s].place = "delete"

(* The batches that are about to be stored. *)
InHand(S) == UNION {my[r].rows : r \in {q \in S : at[q] = "store"}}

(* saveUserPreferenceState reads the profile and compares the new one.     *)
SaveLoads(s) ==
    /\ save[s].place = "off" /\ saves < MaxSaves
    /\ saves' = saves + 1
    /\ \E changed \in BOOLEAN :
         save' = [save EXCEPT ![s] = [place |-> "persist", version |-> version, changed |-> changed]]
    /\ UNCHANGED <<clock, jobs, cursor, head, version, late, matches, at, my, gaps, faults>>

Deletes_Unraced(s) == save[s].changed /\ save[s].version = version

(* Whether the matches are deleted goes by what it read at first. *)
Deletes(s) == save[s].changed

(* persistTypedProfile: the profile, and both cursors cleared, also if     *)
(* nothing changed.  What another save wrote since is overwritten.  The    *)
(* batches in hand are stored all the same; without a DELETE to come, so   *)
(* are all matches left.                                                   *)
SaveWrites(s) ==
    /\ save[s].place = "persist"
    /\ cursor' = 0 /\ head' = 0
    /\ IF save[s].changed \/ save[s].version # version
       THEN /\ version' = version + 1
            /\ stale' = stale \cup fresh /\ fresh' = {}
            /\ late' = late \cup InHand(Runs) \cup (IF save[s].changed THEN {} ELSE stale \cup fresh)
       ELSE UNCHANGED <<version, stale, fresh, late>>
    /\ save' = [save EXCEPT ![s] = IF Deletes(s) THEN [@ EXCEPT !.place = "delete"] ELSE NoSave]
    /\ gaps' = IF \E r \in Runs : Running(r) THEN Jobs ELSE {}
    /\ UNCHANGED <<clock, jobs, saves, dated, at, my, faults>>

(* The DELETE of every match there is, if the profile changed. *)
SaveDeletes(s) ==
    /\ save[s].place = "delete"
    /\ save' = [save EXCEPT ![s] = NoSave]
    /\ stale' = {} /\ fresh' = {} /\ dated' = {}
    /\ late' = InHand({r \in Runs : my[r].version # version})
    /\ gaps' = Raced
    /\ UNCHANGED <<clock, jobs, cursor, head, version, saves, at, my, faults>>

(* It dies or fails between the two: nothing deletes the matches then, for *)
(* the same save made again finds nothing changed.                         *)
SaveDies(s) ==
    /\ save[s].place # "off" /\ faults < MaxFaults
    /\ faults' = faults + 1
    /\ save' = [save EXCEPT ![s] = NoSave]
    /\ late' = IF save[s].place = "delete" THEN late \cup stale ELSE late
    /\ UNCHANGED <<clock, jobs, cursor, head, version, saves, matches, at, my, gaps>>

(* MATCHER_VERSION changes with a release. *)
Deploy ==
    /\ saves < MaxSaves
    /\ saves' = saves + 1
    /\ version' = version + 1
    /\ dated' = dated \cup fresh \cup stale
    /\ fresh' = {} /\ stale' = {}
    /\ late' = late \cup InHand(Runs)
    /\ gaps' = Raced
    /\ UNCHANGED <<clock, jobs, cursor, head, save, at, my, faults>>

-----------------------------------------------------------------------------
(* A run: a visit (ensureUserJobMatchesReady), or the cron's batch         *)
(* (advanceBacklogMatching).                                               *)

Put(r, place, locals) ==
    /\ at' = [at EXCEPT ![r] = place]
    /\ my' = [my EXCEPT ![r] = locals]

Moved(r, from, place) == at[r] = from /\ Put(r, place, my[r])

(* removeStaleMatches: the rows of other matchers, and if there were any,  *)
(* in a second statement, both cursors.  Both kinds of run begin with it.  *)
RemoveStale(r, locals) ==
    /\ dated' = {}
    /\ Put(r, IF dated # {} THEN "reset" ELSE IF locals.forward THEN "catchup" ELSE "rows", locals)
    /\ UNCHANGED <<clock, jobs, profile, fresh, stale, faults>>

(* A run that starts in the middle of a save is one that may race it. *)
Begin(r, locals) ==
    /\ at[r] = "off"
    /\ RemoveStale(r, locals)
    /\ gaps' = IF Deleting THEN Jobs ELSE gaps

(* A visit catches up first. *)
Visit(r) == Begin(r, Forward(MaxBatches))

Advance(r) ==
    /\ cursor # 0 /\ \E j \in Listed : seen[j] < cursor
    /\ Begin(r, Backward(0))

Reset(r) ==
    /\ Moved(r, "reset", IF my[r].forward THEN "catchup" ELSE "rows")
    /\ cursor' = 0 /\ head' = 0
    /\ gaps' = IF \E q \in Runs \ {r} : Running(q) THEN Jobs ELSE gaps
    /\ UNCHANGED <<clock, jobs, version, saving, matches, faults>>

(* The first Batch jobs of S in an order that says nothing of ties. *)
FirstOf(S, before(_, _)) ==
    {T \in SUBSET S :
        /\ Cardinality(T) = (IF Cardinality(S) < Batch THEN Cardinality(S) ELSE Batch)
        /\ \A j \in T, k \in S \ T : ~before(k, j)}

Ahead_Exclusive(h) == {j \in Listed : seen[j] > h}

Ahead(h) == {j \in Listed : seen[j] >= h}

(* catchUpNewJobMatches: without a watermark, a backward batch instead. *)
CatchUp(r) ==
    /\ at[r] = "catchup" /\ head # 0
    /\ \E rows \in FirstOf(Ahead(head), LAMBDA j, k : seen[j] < seen[k]) :
         IF rows = {}
         THEN Put(r, "again", Backward(MaxBatches))
         ELSE Put(r, "store", [my[r] EXCEPT !.rows = rows, !.head = head, !.version = version])
    /\ UNCHANGED <<clock, jobs, profile, matches, gaps, faults>>

WarmUp(r) ==
    /\ at[r] = "catchup" /\ head = 0
    /\ RemoveStale(r, Backward(MaxBatches))
    /\ UNCHANGED gaps

(* storeMatches, with the profile the run read.  It only writes what is    *)
(* plausible: an older match of a job that no longer is (`left`) stays.    *)
Store(r) ==
    /\ Moved(r, "store", IF my[r].forward THEN "head" ELSE "cursor")
    /\ LET rows == my[r].rows IN
       \E left \in SUBSET (rows \cap (stale \cup dated)) :
         /\ dated' = dated \ (rows \ left)
         /\ IF my[r].version = version
            THEN fresh' = fresh \cup rows /\ stale' = stale \ (rows \ left)
            ELSE stale' = stale \cup rows /\ fresh' = fresh \ rows
    /\ UNCHANGED <<clock, jobs, profile, gaps, faults>>

(* The watermark moves only from where this run found it. *)
SameHead_New(r) == head \in Newest(my[r].rows)

SameHead(r) == head = my[r].head

MoveHead(r) ==
    /\ at[r] = "head"
    /\ \E newest \in Newest(my[r].rows) :
       /\ head' = IF SameHead(r) THEN newest ELSE head
       /\ IF Cardinality(my[r].rows) < Batch \/ newest = my[r].head \/ my[r].left = 1
          THEN Put(r, "again", Backward(MaxBatches))
          ELSE Put(r, "catchup", Forward(my[r].left - 1))
    /\ UNCHANGED <<clock, jobs, cursor, version, saving, matches, gaps, faults>>

(* With 25 matches a visit is done; with fewer, backward batches follow. *)
Enough(r) ==
    /\ at[r] = "again"
    /\ Put(r, "off", Nothing)
    /\ UNCHANGED <<clock, jobs, profile, matches, gaps, faults>>

More(r) ==
    /\ at[r] = "again" /\ my[r].left > 0
    /\ RemoveStale(r, [my[r] EXCEPT !.left = @ - 1])
    /\ UNCHANGED gaps

Behind == {j \in Listed : cursor = 0 \/ seen[j] < cursor}

(* Jobs of the moment a batch ends in may be cut off, and so may jobs      *)
(* posted between the reads of two first warm-ups that overlap.            *)
CutOff(r, rows) ==
    {j \in Behind \ rows :
        \/ \E k \in rows : seen[k] = seen[j]
        \/ head = 0 /\ \E q \in Runs \ {r} :
             ~my[q].forward /\ j \notin my[q].rows /\ \E k \in my[q].rows : seen[k] <= seen[j]}

(* ensureUserJobMatches reads the profile and the rows older than the      *)
(* cursor.                                                                 *)
LoadRows(r) ==
    /\ at[r] = "rows"
    /\ \E rows \in FirstOf(Behind, LAMBDA j, k : seen[j] > seen[k]) :
         /\ IF rows = {}
            THEN Put(r, "off", Nothing)
            ELSE Put(r, "store", [my[r] EXCEPT !.rows = rows, !.version = version])
         /\ gaps' = gaps \cup CutOff(r, rows)
    /\ UNCHANGED <<clock, jobs, profile, matches, faults>>

MoveCursor(r) ==
    /\ Moved(r, "cursor", "first")
    /\ cursor' \in Oldest(my[r].rows)
    /\ UNCHANGED <<clock, jobs, head, version, saving, matches, gaps, faults>>

(* "A profile's first warm-up starts from the newest job." *)
FirstHead(r) == IF head = 0 THEN Newest(my[r].rows) ELSE {head}

SetHead(r) ==
    /\ at[r] = "first"
    /\ head' \in FirstHead(r)
    /\ Put(r, "again", Backward(my[r].left))
    /\ UNCHANGED <<clock, jobs, cursor, version, saving, matches, gaps, faults>>

(* A run that dies between two statements of a pair leaves half of it. *)
Die(r) ==
    /\ Running(r) /\ faults < MaxFaults
    /\ faults' = faults + 1
    /\ Put(r, "off", Nothing)
    /\ gaps' = IF at[r] = "reset" \/ (at[r] = "first" /\ head = 0) THEN Jobs ELSE gaps
    /\ UNCHANGED <<clock, jobs, profile, matches>>

Match(r) ==
    \/ Reset(r) \/ CatchUp(r) \/ WarmUp(r) \/ Store(r) \/ MoveHead(r)
    \/ LoadRows(r) \/ MoveCursor(r) \/ SetHead(r)

Next ==
    \/ Tick \/ Deploy
    \/ \E s \in Saves : SaveLoads(s) \/ SaveWrites(s) \/ SaveDeletes(s) \/ SaveDies(s)
    \/ \E p \in Pollers : PollBegins(p) \/ PollCommits(p) \/ PollEnds(p)
    \/ \E j \in Jobs : Hide(j) \/ Show(j)
    \/ \E r \in Runs : Visit(r) \/ Advance(r) \/ Match(r) \/ Enough(r) \/ More(r) \/ Die(r)

(* Runs end, saves end, the person comes back and the cron comes round. *)
Fairness ==
    /\ \A s \in Saves : WF_vars(SaveWrites(s)) /\ WF_vars(SaveDeletes(s))
    /\ \A r \in Runs : WF_vars(Match(r)) /\ WF_vars(Enough(r)) /\ SF_vars(Visit(r)) /\ SF_vars(Advance(r))

Spec == Init /\ [][Next]_vars /\ Fairness

-----------------------------------------------------------------------------
(* Safety.                                                                 *)

(* A job still to be evaluated: ahead of the watermark, or behind the      *)
(* cursor, or there is neither, or the next run will clear them.           *)
Pending(j) ==
    \/ cursor = 0 /\ head = 0
    \/ dated # {} \/ \E r \in Runs : at[r] = "reset"
    \/ seen[j] < cursor
    \/ head # 0 /\ seen[j] >= head
    \/ \E r \in Runs : at[r] = "first" /\ head = 0 /\ \A k \in my[r].rows : seen[k] <= seen[j]

(* "The boundary group is re-evaluated rather than ever being split across *)
(* batches and skipped": however visits, cron advances, saves and releases *)
(* are ordered, a listed job is matched or still to be evaluated, but for  *)
(* the gaps the README lists.                                              *)
NothingSkipped == \A j \in Listed : j \in fresh \/ Pending(j) \/ j \in gaps

(* "Preferences changed": but while a save is about to delete, the matches *)
(* are of the profile there is, however saves, visits, cron advances and   *)
(* releases overlap.  The exceptions are named where they arise: batches   *)
(* in hand when the profile was written, matches of a save that died       *)
(* before its DELETE, and those found by a save that wrote an older        *)
(* profile back unchanged.                                                 *)
FeedIsOfProfile == Deleting \/ stale \subseteq late

-----------------------------------------------------------------------------
(* Liveness.                                                               *)

(* A person who comes back sees every listed job in the end, but for the   *)
(* gaps.                                                                   *)
FeedCatchesUp == \A j \in Jobs : <>[](j \in Listed) => <>(j \in fresh \/ j \in gaps)
=============================================================================
