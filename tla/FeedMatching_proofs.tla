------------------------ MODULE FeedMatching_proofs ------------------------
(***************************************************************************)
(* That no listed job is skipped and that no match outlives its profile,   *)
(* but for known causes, for every number of jobs, polls, runs and saves   *)
(* and for every batch size.                                               *)
(*                                                                         *)
(* NothingSkipped is not inductive: that the watermark may move rests on   *)
(* what a run holds in its locals.  The strengthening says what a forward  *)
(* batch has covered (ForwardCovers), what a backward batch has covered    *)
(* (BackwardCovers), and, since two first warm-ups may overlap and either   *)
(* may set the watermark, what one of them has covered below the other     *)
(* (WarmUpsCover).  All of it is given up once gaps = Jobs, until a save   *)
(* finds nobody at work.  That matches are of the profile needs less, and  *)
(* holds whoever races whom: a batch of an older profile that is still to  *)
(* be stored is known to be late (HeldOver).                               *)
(***************************************************************************)
EXTENDS FeedMatching, TLAPS

Lost == gaps = Jobs

(* Where a run holds a batch. *)
Holding == {"store", "head", "cursor", "first"}

LocalsOK ==
    \A r \in Runs :
        /\ my[r].forward => my[r].left > 0
        /\ at[r] \in {"catchup", "head"} => my[r].forward
        /\ at[r] \in {"rows", "cursor", "first", "again"} => ~my[r].forward
        /\ (at[r] \in Holding) <=> (my[r].rows # {})
        /\ my[r].rows \subseteq {j \in Jobs : seen[j] # 0}
        /\ at[r] \in Holding /\ my[r].forward => my[r].head # 0

Idle == \A r \in Runs : ~Running(r)

(* A batch is stored under the version it was evaluated for; a save about  *)
(* to delete, and a release, find nobody at work.                          *)
Undisturbed ==
    /\ \A r \in Runs : at[r] = "store" => my[r].version = version
    /\ Deleting => (Idle /\ cursor = 0 /\ head = 0)
    /\ dated # {} => Idle

(* A batch in hand of an older profile is known to be late. *)
HeldOver == \A r \in Runs : at[r] = "store" /\ my[r].version # version => my[r].rows \subseteq late

(* What is matched once the run has stored its batch. *)
Covered(r) == (IF at[r] = "store" THEN my[r].rows ELSE {}) \cup fresh \cup gaps

CursorOK ==
    /\ (cursor = 0 /\ head = 0) \/ head # 0 \/ \E r \in Runs : at[r] = "first"
    /\ \A r \in Runs : at[r] = "first" => cursor # 0
    /\ \A r \in Runs : at[r] \in Holding => my[r].rows \subseteq Covered(r)

(* From the watermark a forward batch began at to its newest job. *)
ForwardCovers ==
    \A r \in Runs : my[r].forward =>
        \A j \in Listed : my[r].head <= seen[j] /\ (\E k \in my[r].rows : seen[j] < seen[k]) => j \in Covered(r)

(* From the oldest job of a backward batch up to the watermark, or, while  *)
(* there is none, up to its newest job.                                    *)
BackwardCovers ==
    \A r \in Runs : ~my[r].forward =>
        \A j \in Listed : (\E k \in my[r].rows : seen[k] <= seen[j]) =>
            \/ j \in Covered(r)
            \/ (head # 0 /\ seen[j] >= head)
            \/ (head = 0 /\ \A k \in my[r].rows : seen[k] <= seen[j])

(* From the oldest job of a first warm-up up to the oldest of another. *)
WarmUpsCover ==
    head = 0 =>
        \A r, q \in Runs : r # q /\ ~my[r].forward /\ ~my[q].forward /\ my[q].rows # {} =>
            \A j \in Listed :
                (\E k \in my[r].rows : seen[k] <= seen[j]) /\ (\A k \in my[q].rows : seen[j] < seen[k])
                    => j \in Covered(r)

Progress == CursorOK /\ ForwardCovers /\ BackwardCovers /\ WarmUpsCover /\ NothingSkipped

AnyReset == \E r \in Runs : at[r] = "reset"

Shape == TypeOK /\ LocalsOK

OfProfile == HeldOver /\ FeedIsOfProfile

IInv == Shape /\ OfProfile /\ (Lost \/ (Undisturbed /\ (AnyReset \/ Progress)))

-----------------------------------------------------------------------------
(* The batches.                                                            *)

(* A forward batch leaves out no job older than one it has. *)
LEMMA AheadBatch ==
    ASSUME NEW rows \in FirstOf(Ahead(head), LAMBDA j, k : seen[j] < seen[k])
    PROVE  /\ rows \subseteq Ahead(head)
           /\ \A j \in rows, k \in Ahead(head) \ rows : ~(seen[k] < seen[j])
BY DEF FirstOf

(* A backward batch leaves out no job newer than one it has. *)
LEMMA BehindBatch ==
    ASSUME NEW rows \in FirstOf(Behind, LAMBDA j, k : seen[j] > seen[k])
    PROVE  /\ rows \subseteq Behind
           /\ \A j \in rows, k \in Behind \ rows : ~(seen[k] > seen[j])
BY DEF FirstOf

(* The newest and the oldest moment of a batch. *)
LEMMA Bounds ==
    ASSUME TypeOK, NEW S \in SUBSET {j \in Jobs : seen[j] # 0}
    PROVE  /\ \A t \in Newest(S) : t \in Moments \ {0} /\ (\A k \in S : seen[k] <= t) /\ \E k \in S : seen[k] = t
           /\ \A t \in Oldest(S) : t \in Moments \ {0} /\ (\A k \in S : t <= seen[k]) /\ \E k \in S : seen[k] = t
BY DEF TypeOK, Newest, Oldest

-----------------------------------------------------------------------------
(* Shape.                                                                  *)

Places == {"off", "reset", "catchup", "rows", "store", "head", "cursor", "first", "again"}

Locals == [version : Nat, rows : SUBSET Jobs, head : Moments,
           left : 0 .. MaxBatches, forward : BOOLEAN]

(* The steps that move one run keep the shape when its new locals have it. *)
LEMMA PutShape ==
    ASSUME Shape, NEW r \in Runs, NEW place, NEW locals, Put(r, place, locals),
           seen' = seen,
           place \in Places,
           locals \in Locals,
           locals.forward => locals.left > 0,
           place \in {"catchup", "head"} => locals.forward,
           place \in {"rows", "cursor", "first", "again"} => ~locals.forward,
           (place \in Holding) <=> (locals.rows # {}),
           locals.rows \subseteq {j \in Jobs : seen[j] # 0},
           place \in Holding /\ locals.forward => locals.head # 0
    PROVE  /\ at' \in [Runs -> Places]
           /\ my' \in [Runs -> Locals]
           /\ LocalsOK'
<1>1. /\ at' = [at EXCEPT ![r] = place]
      /\ my' = [my EXCEPT ![r] = locals]
  BY DEF Put
<1>2. /\ at \in [Runs -> Places]
      /\ my \in [Runs -> Locals]
  BY DEF Shape, TypeOK, Places, Locals
<1>3. \A q \in Runs : q # r => at'[q] = at[q] /\ my'[q] = my[q]
  BY <1>1, <1>2
<1>4. at'[r] = place /\ my'[r] = locals
  BY <1>1, <1>2
<1>5. LocalsOK'
  <2>1. \A q \in Runs :
        /\ my[q].forward => my[q].left > 0
        /\ at[q] \in {"catchup", "head"} => my[q].forward
        /\ at[q] \in {"rows", "cursor", "first", "again"} => ~my[q].forward
        /\ (at[q] \in Holding) <=> (my[q].rows # {})
        /\ my[q].rows \subseteq {j \in Jobs : seen[j] # 0}
        /\ at[q] \in Holding /\ my[q].forward => my[q].head # 0
    BY DEF Shape, LocalsOK
  <2>. QED  BY <1>3, <1>4, <2>1 DEF LocalsOK
<1>. QED  BY <1>1, <1>2, <1>5

(* A run's locals when it begins or ends, and between two batches. *)
LEMMA NothingShape == Nothing \in Locals /\ Nothing.rows = {} /\ ~Nothing.forward
<1>1. Nothing.rows = {} /\ ~Nothing.forward
  BY DEF Nothing
<1>2. Nothing \in Locals
  BY MatchingAssumption DEF Nothing, Locals, Moments
<1>. QED  BY <1>1, <1>2

LEMMA ForwardShape ==
    ASSUME NEW n \in 0 .. MaxBatches
    PROVE  /\ Forward(n) \in Locals /\ Forward(n).rows = {}
           /\ Forward(n).forward /\ Forward(n).left = n
BY NothingShape DEF Forward, Locals

LEMMA BackwardShape ==
    ASSUME NEW n \in 0 .. MaxBatches
    PROVE  Backward(n) \in Locals /\ Backward(n).rows = {} /\ ~Backward(n).forward
BY NothingShape DEF Backward, Locals

(* What runs hold are jobs. *)
LEMMA InHandShape ==
    ASSUME TypeOK, NEW S \in SUBSET Runs
    PROVE  InHand(S) \subseteq Jobs
BY DEF InHand, TypeOK

(* A save leaves the runs alone. *)
LEMMA SaveShape ==
    ASSUME Shape, NEW s \in Saves, SaveLoads(s) \/ SaveWrites(s) \/ SaveDeletes(s) \/ SaveDies(s)
    PROVE  Shape'
<1>. DEFINE Record == [place : {"off", "persist", "delete"}, version : Nat, changed : BOOLEAN]
<1>t. TypeOK /\ LocalsOK
  BY DEF Shape
<1>0. /\ save \in [Saves -> Record] /\ save[s] \in Record /\ NoSave \in Record
      /\ [save[s] EXCEPT !.place = "delete"] \in Record
  BY <1>t DEF TypeOK, NoSave
<1>1. UNCHANGED <<clock, jobs, at, my>> /\ LocalsOK'
  BY <1>t DEF SaveLoads, SaveWrites, SaveDeletes, SaveDies, jobs, LocalsOK
<1>2. save' \in [Saves -> Record]
  <2>1. CASE SaveLoads(s)
    <3>1. PICK changed \in BOOLEAN :
            save' = [save EXCEPT ![s] = [place |-> "persist", version |-> version, changed |-> changed]]
      BY <2>1 DEF SaveLoads
    <3>. QED  BY <3>1, <1>0, <1>t DEF TypeOK
  <2>2. CASE SaveWrites(s)
    BY <2>2, <1>0 DEF SaveWrites
  <2>3. CASE SaveDeletes(s) \/ SaveDies(s)
    BY <2>3, <1>0 DEF SaveDeletes, SaveDies
  <2>. QED  BY <2>1, <2>2, <2>3
<1>. HIDE DEF Record
<1>3. InHand(Runs) \subseteq Jobs /\ InHand({r \in Runs : my[r].version # version}) \subseteq Jobs
  BY <1>t, InHandShape
<1>4. /\ cursor' \in Moments /\ head' \in Moments /\ version' \in Nat /\ saves' \in 0 .. MaxSaves
      /\ fresh' \subseteq Jobs /\ stale' \subseteq Jobs /\ dated' \subseteq Jobs
      /\ late' \subseteq Jobs /\ gaps' \subseteq Jobs /\ faults' \in 0 .. MaxFaults
  <2>1. CASE SaveLoads(s)
    BY <2>1, <1>t, MatchingAssumption DEF SaveLoads, matches, TypeOK
  <2>2. CASE SaveWrites(s)
    BY <2>2, <1>t, <1>3, MatchingAssumption DEF SaveWrites, TypeOK, Moments
  <2>3. CASE SaveDeletes(s)
    BY <2>3, <1>t, <1>3 DEF SaveDeletes, Raced, TypeOK
  <2>4. CASE SaveDies(s)
    BY <2>4, <1>t, MatchingAssumption DEF SaveDies, matches, TypeOK
  <2>. QED  BY <2>1, <2>2, <2>3, <2>4
<1>5. TypeOK'
  BY <1>1, <1>2, <1>4, <1>t DEF TypeOK, Record, clock, jobs
<1>. QED  BY <1>1, <1>5 DEF Shape

(* Every step keeps the types and the shape of the locals. *)
LEMMA ShapeStep ==
    ASSUME Shape, [Next]_vars
    PROVE  Shape'
<1>. USE MatchingAssumption
<1>t. TypeOK /\ LocalsOK
  BY DEF Shape
<1>p. ASSUME NEW r \in Runs, at' \in [Runs -> Places], my' \in [Runs -> Locals], LocalsOK',
             stamp' = stamp, seen' = seen, hidden' = hidden, now' = now, hides' = hides, version' = version,
             save' = save, saves' = saves, late' = late, cursor' \in Moments, head' \in Moments,
             fresh' \subseteq Jobs, stale' \subseteq Jobs, dated' \subseteq Jobs, gaps' \subseteq Jobs,
             faults' \in 0 .. MaxFaults
      PROVE  Shape'
  BY <1>t, <1>p DEF Shape, TypeOK, Places, Locals
<1>1. CASE Tick
  BY <1>1, <1>t DEF Tick, Shape, TypeOK, LocalsOK, jobs, profile, saving, matches, Moments
<1>2. ASSUME NEW s \in Saves, SaveLoads(s) \/ SaveWrites(s) \/ SaveDeletes(s) \/ SaveDies(s) PROVE Shape'
  BY <1>2, <1>t, SaveShape
<1>4. CASE Deploy
  <2>1. InHand(Runs) \subseteq Jobs
    BY <1>t, InHandShape
  <2>2. TypeOK'
    BY <1>4, <1>t, <2>1 DEF Deploy, Raced, TypeOK, jobs, clock
  <2>. QED  BY <2>2, <1>4, <1>t DEF Deploy, Shape, LocalsOK, jobs
<1>5. ASSUME NEW p \in Pollers, PollBegins(p) PROVE Shape'
  BY <1>5, <1>t DEF PollBegins, Shape, TypeOK, LocalsOK, jobs, profile, saving, matches, Moments
<1>6. ASSUME NEW p \in Pollers, PollCommits(p) PROVE Shape'
  <2>1. PICK S \in SUBSET {j \in Jobs : seen[j] = 0} :
          /\ seen' = [j \in Jobs |-> IF j \in S THEN stamp[p] ELSE seen[j]]
          /\ gaps' = IF Passed(stamp[p]) THEN gaps \cup S ELSE gaps
    BY <1>6 DEF PollCommits
  <2>2. seen' \in [Jobs -> Moments] /\ \A j \in Jobs : seen[j] # 0 => seen'[j] # 0
    BY <2>1, <1>6, <1>t DEF TypeOK, PollCommits
  <2>3. TypeOK'
    BY <2>1, <2>2, <1>6, <1>t DEF TypeOK, PollCommits, clock, profile, saving, matches
  <2>4. LocalsOK'
    BY <2>2, <1>6, <1>t DEF LocalsOK, PollCommits
  <2>. QED  BY <2>3, <2>4 DEF Shape
<1>7. ASSUME NEW p \in Pollers, PollEnds(p) PROVE Shape'
  BY <1>7, <1>t DEF PollEnds, Shape, TypeOK, LocalsOK, jobs, profile, saving, matches, Moments
<1>8. ASSUME NEW j \in Jobs, Hide(j) PROVE Shape'
  BY <1>8, <1>t DEF Hide, Shape, TypeOK, LocalsOK, profile, saving, matches
<1>9. ASSUME NEW j \in Jobs, Show(j) PROVE Shape'
  BY <1>9, <1>t DEF Show, Shape, TypeOK, LocalsOK, profile, saving, matches, clock
<1>b. ASSUME NEW r \in Runs, NEW new \in Locals, new.rows = {}, new.forward => new.left > 0,
             RemoveStale(r, new), gaps' \subseteq Jobs
      PROVE  Shape'
  <2>2. Put(r, IF dated # {} THEN "reset" ELSE IF new.forward THEN "catchup" ELSE "rows", new)
    BY <1>b DEF RemoveStale
  <2>3. at' \in [Runs -> Places] /\ my' \in [Runs -> Locals] /\ LocalsOK'
    <3>1. CASE dated # {}
      BY <2>2, <1>b, <3>1, PutShape DEF Holding, RemoveStale, jobs, Places
    <3>2. CASE dated = {} /\ new.forward
      BY <2>2, <1>b, <3>2, PutShape DEF Holding, RemoveStale, jobs, Places
    <3>3. CASE dated = {} /\ ~new.forward
      BY <2>2, <1>b, <3>3, PutShape DEF Holding, RemoveStale, jobs, Places
    <3>. QED  BY <3>1, <3>2, <3>3
  <2>. QED  BY <2>3, <1>b, <1>t, <1>p DEF RemoveStale, clock, jobs, profile, saving, TypeOK
<1>10. ASSUME NEW r \in Runs, Visit(r) PROVE Shape'
  BY <1>10, <1>t, <1>b, ForwardShape DEF Visit, Begin, TypeOK
<1>11. ASSUME NEW r \in Runs, Advance(r) PROVE Shape'
  BY <1>11, <1>t, <1>b, BackwardShape DEF Advance, Begin, TypeOK
<1>l. \A r \in Runs :
        /\ at[r] \in Places /\ my[r] \in Locals
        /\ my[r].forward => my[r].left > 0
        /\ at[r] \in {"catchup", "head"} => my[r].forward
        /\ at[r] \in {"rows", "cursor", "first", "again"} => ~my[r].forward
        /\ (at[r] \in Holding) <=> (my[r].rows # {})
        /\ my[r].rows \subseteq {j \in Jobs : seen[j] # 0}
        /\ at[r] \in Holding /\ my[r].forward => my[r].head # 0
  BY <1>t DEF TypeOK, LocalsOK, Places, Locals
<1>12. ASSUME NEW r \in Runs, Reset(r) PROVE Shape'
  <2>1. at' \in [Runs -> Places] /\ my' \in [Runs -> Locals] /\ LocalsOK'
    <3>1. CASE my[r].forward
      BY <1>12, <1>l, <3>1, PutShape DEF Reset, Moved, jobs, Holding, Places
    <3>2. CASE ~my[r].forward
      BY <1>12, <1>l, <3>2, PutShape DEF Reset, Moved, jobs, Holding, Places
    <3>. QED  BY <3>1, <3>2
  <2>. QED  BY <2>1, <1>12, <1>t, <1>p DEF Reset, clock, jobs, saving, matches, TypeOK, Moments
<1>n. LET new == Backward(MaxBatches) IN
      new \in Locals /\ new.rows = {} /\ ~new.forward
  BY BackwardShape
<1>13. ASSUME NEW r \in Runs, CatchUp(r) PROVE Shape'
  <2>1. PICK rows \in FirstOf(Ahead(head), LAMBDA j, k : seen[j] < seen[k]) :
          IF rows = {}
          THEN Put(r, "again", Backward(MaxBatches))
          ELSE Put(r, "store", [my[r] EXCEPT !.rows = rows, !.head = head, !.version = version])
    BY <1>13 DEF CatchUp
  <2>2. rows \subseteq {j \in Jobs : seen[j] # 0}
    BY AheadBatch DEF Ahead, Listed
  <2>3. at' \in [Runs -> Places] /\ my' \in [Runs -> Locals] /\ LocalsOK'
    <3>1. CASE rows = {}
      BY <2>1, <3>1, <1>n, <1>13, PutShape DEF CatchUp, jobs, Holding, Places
    <3>2. CASE rows # {}
      <4>. DEFINE new == [my[r] EXCEPT !.rows = rows, !.head = head, !.version = version]
      <4>1. /\ new \in Locals
            /\ new.rows = rows /\ new.head = head /\ new.forward = my[r].forward /\ new.left = my[r].left
        BY <1>l, <1>t, <2>2 DEF TypeOK, Locals
      <4>2. Put(r, "store", new)
        BY <2>1, <3>2
      <4>. HIDE DEF new
      <4>. QED  BY <4>1, <4>2, <3>2, <2>2, <1>l, <1>13, PutShape DEF CatchUp, jobs, Holding, Places
    <3>. QED  BY <3>1, <3>2
  <2>. QED  BY <2>3, <1>13, <1>t, <1>p DEF CatchUp, clock, jobs, profile, saving, matches, TypeOK
<1>14. ASSUME NEW r \in Runs, WarmUp(r) PROVE Shape'
  BY <1>14, <1>b, <1>t, <1>n DEF WarmUp, TypeOK
<1>15. ASSUME NEW r \in Runs, Store(r) PROVE Shape'
  <2>1. at' \in [Runs -> Places] /\ my' \in [Runs -> Locals] /\ LocalsOK'
    <3>1. CASE my[r].forward
      BY <1>15, <1>l, <3>1, PutShape DEF Store, Moved, jobs, Holding, Places
    <3>2. CASE ~my[r].forward
      BY <1>15, <1>l, <3>2, PutShape DEF Store, Moved, jobs, Holding, Places
    <3>. QED  BY <3>1, <3>2
  <2>. QED  BY <2>1, <1>15, <1>l, <1>t, <1>p DEF Store, clock, jobs, profile, saving, TypeOK
<1>16. ASSUME NEW r \in Runs, MoveHead(r) PROVE Shape'
  <2>1. PICK newest \in Newest(my[r].rows) :
          /\ head' = IF SameHead(r) THEN newest ELSE head
          /\ IF Cardinality(my[r].rows) < Batch \/ newest = my[r].head \/ my[r].left = 1
             THEN Put(r, "again", Backward(MaxBatches))
             ELSE Put(r, "catchup", Forward(my[r].left - 1))
    BY <1>16 DEF MoveHead
  <2>2. newest \in Moments
    BY <1>t, <1>l, Bounds
  <2>3. at' \in [Runs -> Places] /\ my' \in [Runs -> Locals] /\ LocalsOK'
    <3>1. CASE Put(r, "again", Backward(MaxBatches))
      BY <3>1, <1>n, <1>16, PutShape DEF MoveHead, jobs, Holding, Places
    <3>2. CASE my[r].left # 1 /\ Put(r, "catchup", Forward(my[r].left - 1))
      <4>1. my[r].left \in 0 .. MaxBatches /\ my[r].left > 0
        BY <1>16, <1>l DEF MoveHead, Locals
      <4>2. my[r].left - 1 \in 0 .. MaxBatches /\ my[r].left - 1 > 0
        BY <4>1, <3>2
      <4>. QED  BY <4>2, <3>2, ForwardShape, <1>16, PutShape DEF MoveHead, jobs, Holding, Places
    <3>. QED  BY <2>1, <3>1, <3>2
  <2>. QED  BY <2>1, <2>2, <2>3, <1>16, <1>t, <1>p DEF MoveHead, clock, jobs, saving, matches, TypeOK
<1>17. ASSUME NEW r \in Runs, LoadRows(r) PROVE Shape'
  <2>1. PICK rows \in FirstOf(Behind, LAMBDA j, k : seen[j] > seen[k]) :
         /\ IF rows = {}
            THEN Put(r, "off", Nothing)
            ELSE Put(r, "store", [my[r] EXCEPT !.rows = rows, !.version = version])
         /\ gaps' = gaps \cup CutOff(r, rows)
    BY <1>17 DEF LoadRows
  <2>2. rows \subseteq {j \in Jobs : seen[j] # 0} /\ gaps' \subseteq Jobs
    BY <2>1, <1>t, BehindBatch DEF Behind, Listed, CutOff, TypeOK
  <2>3. at' \in [Runs -> Places] /\ my' \in [Runs -> Locals] /\ LocalsOK'
    <3>1. CASE rows = {}
      BY <2>1, <3>1, NothingShape, <1>17, PutShape DEF LoadRows, jobs, Holding, Places
    <3>2. CASE rows # {}
      <4>. DEFINE new == [my[r] EXCEPT !.rows = rows, !.version = version]
      <4>1. /\ new \in Locals
            /\ new.rows = rows /\ new.forward = my[r].forward /\ new.left = my[r].left
        BY <1>l, <1>t, <2>2 DEF TypeOK, Locals
      <4>2. Put(r, "store", new) /\ ~new.forward
        BY <2>1, <3>2, <1>17, <1>l, <4>1 DEF LoadRows
      <4>. HIDE DEF new
      <4>. QED  BY <4>1, <4>2, <3>2, <2>2, <1>l, <1>17, PutShape DEF LoadRows, jobs, Holding, Places
    <3>. QED  BY <3>1, <3>2
  <2>. QED  BY <2>2, <2>3, <1>17, <1>t, <1>p DEF LoadRows, clock, jobs, profile, saving, matches, TypeOK
<1>18. ASSUME NEW r \in Runs, MoveCursor(r) PROVE Shape'
  <2>1. cursor' \in Moments
    BY <1>18, <1>l, <1>t, Bounds DEF MoveCursor
  <2>2. at' \in [Runs -> Places] /\ my' \in [Runs -> Locals] /\ LocalsOK'
    BY <1>18, <1>l, PutShape DEF MoveCursor, Moved, jobs, Holding, Places
  <2>. QED  BY <2>1, <2>2, <1>18, <1>t, <1>p DEF MoveCursor, clock, jobs, saving, matches, TypeOK
<1>19. ASSUME NEW r \in Runs, SetHead(r) PROVE Shape'
  <2>1. head' \in Moments
    BY <1>19, <1>l, <1>t, Bounds DEF SetHead, FirstHead, TypeOK
  <2>. DEFINE new == Backward(my[r].left)
  <2>2. new \in Locals /\ new.rows = {} /\ ~new.forward
    BY <1>l, BackwardShape DEF Locals
  <2>3. Put(r, "again", new)
    BY <1>19 DEF SetHead
  <2>. HIDE DEF new
  <2>4. at' \in [Runs -> Places] /\ my' \in [Runs -> Locals] /\ LocalsOK'
    BY <1>19, <2>2, <2>3, PutShape DEF SetHead, jobs, Holding, Places
  <2>. QED  BY <2>1, <2>4, <1>19, <1>t, <1>p DEF SetHead, clock, jobs, saving, matches, TypeOK
<1>20. ASSUME NEW r \in Runs, Put(r, "off", Nothing), seen' = seen
       PROVE  at' \in [Runs -> Places] /\ my' \in [Runs -> Locals] /\ LocalsOK'
  BY NothingShape, <1>20, PutShape DEF Holding, Places
<1>21. ASSUME NEW r \in Runs, Enough(r) PROVE Shape'
  BY <1>20, <1>21, <1>t, <1>p DEF Enough, clock, jobs, profile, saving, matches, TypeOK
<1>22. ASSUME NEW r \in Runs, More(r) PROVE Shape'
  <2>1. my[r].left - 1 \in 0 .. MaxBatches
    BY <1>22, <1>l DEF More, Locals
  <2>. DEFINE new == [my[r] EXCEPT !.left = @ - 1]
  <2>2. new \in Locals /\ new.rows = {} /\ ~new.forward
    BY <1>22, <1>l, <2>1 DEF More, Holding, Locals
  <2>3. Put(r, IF dated # {} THEN "reset" ELSE "rows", new)
    BY <1>22, <2>2 DEF More, RemoveStale
  <2>. HIDE DEF new
  <2>4. at' \in [Runs -> Places] /\ my' \in [Runs -> Locals] /\ LocalsOK'
    <3>1. CASE dated # {}
      BY <2>2, <2>3, <1>22, <3>1, PutShape DEF Holding, More, RemoveStale, jobs, Places
    <3>2. CASE dated = {}
      BY <2>2, <2>3, <1>22, <3>2, PutShape DEF Holding, More, RemoveStale, jobs, Places
    <3>. QED  BY <3>1, <3>2
  <2>. QED  BY <2>4, <1>22, <1>t, <1>p DEF More, RemoveStale, clock, jobs, profile, saving, TypeOK
<1>23. ASSUME NEW r \in Runs, Die(r) PROVE Shape'
  <2>1. faults' \in 0 .. MaxFaults /\ gaps' \subseteq Jobs
    BY <1>23, <1>t DEF Die, TypeOK
  <2>. QED  BY <2>1, <1>20, <1>23, <1>t, <1>p DEF Die, clock, jobs, profile, saving, matches, TypeOK
<1>24. CASE UNCHANGED vars
  BY <1>24, <1>t DEF Shape, vars, clock, jobs, profile, saving, matches, TypeOK, LocalsOK
<1>. QED
  BY <1>1, <1>2, <1>4, <1>5, <1>6, <1>7, <1>8, <1>9, <1>10, <1>11, <1>12, <1>13, <1>14, <1>15,
     <1>16, <1>17, <1>18, <1>19, <1>21, <1>22, <1>23, <1>24 DEF Next, Match

-----------------------------------------------------------------------------
(* Progress, one kind of step at a time.                                   *)

(* What is covered stays so while its run stays where it is. *)
LEMMA CoveredGrows ==
    ASSUME NEW q \in Runs, at'[q] = at[q], my'[q] = my[q],
           fresh \subseteq fresh', gaps \subseteq gaps'
    PROVE  Covered(q) \subseteq Covered(q)'
BY DEF Covered

(* A run that lets go of its batch, or had none. *)
LEMMA LetGo ==
    ASSUME Shape, Shape', ~AnyReset, Progress, NEW r \in Runs,
           \A q \in Runs \ {r} : at'[q] = at[q] /\ my'[q] = my[q],
           at'[r] \notin Holding, ~(at[r] = "first" /\ head = 0),
           seen' = seen, hidden' = hidden, cursor' = cursor, head' = head, fresh' = fresh,
           gaps \subseteq gaps', dated # {} => dated' # {}
    PROVE  Progress'
<1>1. my'[r].rows = {}
  BY DEF Shape, LocalsOK
<1>2. \A q \in Runs \ {r} : Covered(q) \subseteq Covered(q)'
  BY CoveredGrows
<1>3. Listed' = Listed
  BY DEF Listed
<1>4. CursorOK'
  BY <1>2 DEF Progress, CursorOK, Holding
<1>5. ForwardCovers'
  BY <1>1, <1>2, <1>3 DEF Progress, ForwardCovers
<1>6. BackwardCovers'
  BY <1>1, <1>2, <1>3 DEF Progress, BackwardCovers
<1>7. WarmUpsCover'
  BY <1>1, <1>2, <1>3 DEF Progress, WarmUpsCover
<1>8. NothingSkipped'
  <2>. SUFFICES ASSUME NEW j \in Listed, j \notin fresh, j \notin gaps
                PROVE  Pending(j)'
    BY <1>3 DEF NothingSkipped
  <2>1. Pending(j)
    BY DEF Progress, NothingSkipped
  <2>. QED  BY <2>1 DEF Pending, AnyReset
<1>. QED  BY <1>4, <1>5, <1>6, <1>7, <1>8 DEF Progress

(* A job that comes in behind a watermark, or behind a batch that will set *)
(* one, is a known gap; any other is still to be evaluated.                *)
LEMMA ListingChanges ==
    ASSUME Shape, Shape', Progress, ~AnyReset,
           UNCHANGED <<cursor, head, at, my, fresh, dated>>, gaps \subseteq gaps',
           \A k \in Jobs : seen[k] # 0 => seen'[k] = seen[k],
           \A j \in Listed' : j \in Listed \/ (Passed(seen'[j]) => j \in gaps')
    PROVE  Progress'
<1>1. \A q \in Runs : Covered(q) \subseteq Covered(q)'
  BY DEF Covered
<1>2. \A q \in Runs : \A k \in my[q].rows : k \in Jobs /\ seen[k] # 0 /\ seen'[k] = seen[k] /\ seen[k] \in Nat
  BY DEF Shape, TypeOK, LocalsOK, Moments
<1>3. \A j \in Listed : j \in Jobs /\ seen[j] # 0 /\ seen'[j] = seen[j]
  BY DEF Listed
<1>4. \A j \in Listed' : seen'[j] \in Nat \ {0}
  BY DEF Listed, Shape, TypeOK, Moments
<1>5. head \in Nat /\ cursor \in Nat
  BY DEF Shape, TypeOK, Moments
<1>6. CursorOK'
  BY <1>1 DEF Progress, CursorOK, Holding
<1>7. ForwardCovers'
  <2>. SUFFICES ASSUME NEW q \in Runs, my[q].forward, NEW j \in Listed', my[q].head <= seen'[j],
                       NEW k \in my[q].rows, seen'[j] < seen'[k]
                PROVE  j \in Covered(q)'
    BY DEF ForwardCovers
  <2>1. CASE j \in Listed
    BY <2>1, <1>1, <1>2, <1>3 DEF Progress, ForwardCovers
  <2>2. CASE Passed(seen'[j]) => j \in gaps'
    BY <2>2, <1>2, <1>4 DEF Passed, Covered
  <2>. QED  BY <2>1, <2>2
<1>8. BackwardCovers'
  <2>. SUFFICES ASSUME NEW q \in Runs, ~my[q].forward, NEW j \in Listed',
                       NEW k \in my[q].rows, seen'[k] <= seen'[j]
                PROVE  \/ j \in Covered(q)'
                       \/ head # 0 /\ seen'[j] >= head
                       \/ head = 0 /\ \A l \in my[q].rows : seen'[l] <= seen'[j]
    BY DEF BackwardCovers
  <2>1. CASE j \in Listed
    BY <2>1, <1>1, <1>2, <1>3 DEF Progress, BackwardCovers
  <2>2. CASE Passed(seen'[j]) => j \in gaps'
    BY <2>2, <1>2, <1>4, <1>5 DEF Passed, Covered
  <2>. QED  BY <2>1, <2>2
<1>9. WarmUpsCover'
  <2>. SUFFICES ASSUME head = 0, NEW r \in Runs, NEW q \in Runs, r # q, ~my[r].forward, ~my[q].forward,
                       my[q].rows # {}, NEW j \in Listed', NEW k \in my[r].rows, seen'[k] <= seen'[j],
                       \A l \in my[q].rows : seen'[j] < seen'[l]
                PROVE  j \in Covered(r)'
    BY DEF WarmUpsCover
  <2>1. CASE j \in Listed
    BY <2>1, <1>1, <1>2, <1>3 DEF Progress, WarmUpsCover
  <2>2. CASE Passed(seen'[j]) => j \in gaps'
    BY <2>2, <1>2, <1>4, <1>5 DEF Passed, Covered
  <2>. QED  BY <2>1, <2>2
<1>10. NothingSkipped'
  <2>. SUFFICES ASSUME NEW j \in Listed', j \notin fresh, j \notin gaps'
                PROVE  Pending(j)'
    BY DEF NothingSkipped
  <2>1. CASE j \in Listed
    <3>1. Pending(j)
      BY <2>1 DEF Progress, NothingSkipped
    <3>. QED  BY <3>1, <2>1, <1>2, <1>3 DEF Pending
  <2>2. CASE ~Passed(seen'[j])
    <3>1. CASE head # 0
      BY <3>1, <2>2, <1>4, <1>5 DEF Passed, Pending
    <3>2. CASE head = 0
      <4>1. cursor = 0 \/ \E r \in Runs : at[r] = "first"
        BY <3>2 DEF Progress, CursorOK
      <4>2. \A r \in Runs : \A k \in my[r].rows : seen'[k] <= seen'[j]
        BY <3>2, <2>2, <1>2, <1>4 DEF Passed
      <4>. QED  BY <4>1, <4>2, <3>2 DEF Pending
    <3>. QED  BY <3>1, <3>2
  <2>. QED  BY <2>1, <2>2
<1>. QED  BY <1>6, <1>7, <1>8, <1>9, <1>10 DEF Progress

(* With nobody at work, every batch is given back. *)
LEMMA AtRest ==
    ASSUME Shape', Idle', NothingSkipped',
           (cursor' = 0 /\ head' = 0) \/ head' # 0
    PROVE  Progress'
<1>1. \A q \in Runs : at'[q] = "off" /\ my'[q].rows = {}
  BY DEF Shape, LocalsOK, Idle, Running, Holding
<1>2. CursorOK'
  BY <1>1 DEF CursorOK, Holding
<1>3. ForwardCovers' /\ BackwardCovers' /\ WarmUpsCover'
  BY <1>1 DEF ForwardCovers, BackwardCovers, WarmUpsCover
<1>. QED  BY <1>2, <1>3 DEF Progress

(* storeMatches: the batch is matched by now instead of about to be. *)
LEMMA StoreProgress ==
    ASSUME Shape, Shape', Undisturbed, ~AnyReset, Progress, NEW r \in Runs, Store(r)
    PROVE  Progress'
<1>1. /\ \A q \in Runs \ {r} : at'[q] = at[q] /\ my'[q] = my[q]
      /\ my'[r] = my[r] /\ at[r] = "store"
      /\ at'[r] = IF my[r].forward THEN "head" ELSE "cursor"
  BY DEF Store, Moved, Put, Shape, TypeOK
<1>2. /\ UNCHANGED <<seen, hidden, cursor, head, gaps>>
      /\ fresh' = fresh \cup my[r].rows /\ dated' \subseteq dated
  BY <1>1 DEF Store, clock, jobs, profile, Undisturbed
<1>3. \A q \in Runs : Covered(q) \subseteq Covered(q)'
  BY <1>1, <1>2 DEF Covered
<1>4. Listed' = Listed
  BY <1>2 DEF Listed
<1>5. dated = {}
  BY <1>1 DEF Undisturbed, Idle, Running
<1>6. CursorOK'
  <2>1. \A q \in Runs : at'[q] = "first" <=> at[q] = "first"
    BY <1>1
  <2>2. \A q \in Runs : at'[q] \in Holding => at[q] \in Holding /\ my'[q].rows = my[q].rows
    BY <1>1 DEF Holding
  <2>. QED  BY <2>1, <2>2, <1>2, <1>3 DEF Progress, CursorOK
<1>7. ForwardCovers'
  BY <1>1, <1>2, <1>3, <1>4 DEF Progress, ForwardCovers
<1>8. BackwardCovers'
  BY <1>1, <1>2, <1>3, <1>4 DEF Progress, BackwardCovers
<1>9. WarmUpsCover'
  BY <1>1, <1>2, <1>3, <1>4 DEF Progress, WarmUpsCover
<1>10. NothingSkipped'
  <2>. SUFFICES ASSUME NEW j \in Listed, j \notin fresh, j \notin gaps
                PROVE  Pending(j)'
    BY <1>2, <1>4 DEF NothingSkipped
  <2>1. Pending(j)
    BY DEF Progress, NothingSkipped
  <2>2. ~(dated # {} \/ \E q \in Runs : at[q] = "reset")
    BY <1>5 DEF AnyReset
  <2>. QED  BY <2>1, <2>2, <1>1, <1>2 DEF Pending
<1>. QED  BY <1>6, <1>7, <1>8, <1>9, <1>10 DEF Progress

(* A forward batch is read: it has the oldest jobs ahead of the watermark. *)
LEMMA CatchUpProgress ==
    ASSUME Shape, Shape', Undisturbed, ~AnyReset, Progress, NEW r \in Runs, at[r] = "catchup",
           NEW rows \in SUBSET Ahead(head), rows # {},
           \A j \in rows, k \in Ahead(head) \ rows : ~(seen[k] < seen[j]),
           Put(r, "store", [my[r] EXCEPT !.rows = rows, !.head = head, !.version = version]),
           UNCHANGED <<seen, hidden, cursor, head, fresh, dated, gaps>>
    PROVE  Progress'
<1>1. /\ \A q \in Runs \ {r} : at'[q] = at[q] /\ my'[q] = my[q]
      /\ at'[r] = "store" /\ my'[r].rows = rows /\ my'[r].head = head /\ my'[r].forward
  BY DEF Put, Shape, TypeOK, LocalsOK
<1>2. \A q \in Runs \ {r} : Covered(q) \subseteq Covered(q)'
  BY <1>1 DEF Covered
<1>3. Listed' = Listed
  BY DEF Listed
<1>4. CursorOK'
  <2>1. rows \subseteq Covered(r)'
    BY <1>1 DEF Covered
  <2>. QED  BY <2>1, <1>1, <1>2 DEF Progress, CursorOK
<1>5. ForwardCovers'
  <2>1. ASSUME NEW j \in Listed, head <= seen[j], NEW k \in rows, seen[j] < seen[k]
        PROVE  j \in rows
    BY <2>1 DEF Ahead
  <2>. QED  BY <2>1, <1>1, <1>2, <1>3 DEF Progress, ForwardCovers, Covered
<1>6. BackwardCovers'
  BY <1>1, <1>2, <1>3 DEF Progress, BackwardCovers
<1>7. WarmUpsCover'
  BY <1>1, <1>2, <1>3 DEF Progress, WarmUpsCover
<1>8. NothingSkipped'
  <2>. SUFFICES ASSUME NEW j \in Listed, j \notin fresh, j \notin gaps
                PROVE  Pending(j)'
    BY <1>3 DEF NothingSkipped
  <2>1. Pending(j)
    BY DEF Progress, NothingSkipped
  <2>. QED  BY <2>1, <1>1 DEF Pending, AnyReset
<1>. QED  BY <1>4, <1>5, <1>6, <1>7, <1>8 DEF Progress

(* A backward batch is read: it has the newest jobs behind the cursor, and  *)
(* what it cuts off, or what another first warm-up saw less of, is a gap.  *)
LEMMA LoadRowsProgress ==
    ASSUME Shape, Shape', Undisturbed, ~AnyReset, Progress, NEW r \in Runs, at[r] = "rows",
           NEW rows \in SUBSET Behind, rows # {},
           \A j \in rows, k \in Behind \ rows : ~(seen[k] > seen[j]),
           Put(r, "store", [my[r] EXCEPT !.rows = rows, !.version = version]),
           UNCHANGED <<seen, hidden, cursor, head, fresh, dated>>,
           gaps' = gaps \cup CutOff(r, rows)
    PROVE  Progress'
<1>1. /\ \A q \in Runs \ {r} : at'[q] = at[q] /\ my'[q] = my[q]
      /\ at'[r] = "store" /\ my'[r].rows = rows /\ ~my'[r].forward
  BY DEF Put, Shape, TypeOK, LocalsOK
<1>2. \A q \in Runs \ {r} : Covered(q) \subseteq Covered(q)'
  BY <1>1 DEF Covered
<1>3. Listed' = Listed
  BY DEF Listed
<1>4. rows \cup gaps' \subseteq Covered(r)' /\ Covered(r)' = rows \cup fresh \cup gaps'
  BY <1>1 DEF Covered
<1>5. /\ rows \subseteq Behind
      /\ \A k \in rows, j \in Behind \ rows : seen[j] <= seen[k]
      /\ \A j \in Listed : seen[j] \in Nat \ {0}
      /\ cursor \in Nat /\ head \in Nat
  <2>1. (\A j \in Listed : seen[j] \in Nat \ {0}) /\ cursor \in Nat /\ head \in Nat
    BY DEF Listed, Shape, TypeOK, Moments
  <2>. QED  BY <2>1 DEF Behind
<1>6. dated = {}
  BY DEF Undisturbed, Idle, Running
<1>7. \A j \in Listed : j \in fresh \/ j \in gaps \/
            \/ cursor = 0 \/ seen[j] < cursor
            \/ head # 0 /\ seen[j] >= head
            \/ \E p \in Runs : at[p] = "first" /\ head = 0 /\ \A k \in my[p].rows : seen[k] <= seen[j]
  <2>. SUFFICES ASSUME NEW j \in Listed, j \notin fresh, j \notin gaps
                PROVE  \/ cursor = 0 \/ seen[j] < cursor
                       \/ head # 0 /\ seen[j] >= head
                       \/ \E p \in Runs : at[p] = "first" /\ head = 0 /\ \A k \in my[p].rows : seen[k] <= seen[j]
    OBVIOUS
  <2>1. Pending(j)
    BY DEF Progress, NothingSkipped
  <2>. QED  BY <2>1, <1>6 DEF Pending, AnyReset
<1>8. CursorOK'
  BY <1>1, <1>2, <1>4 DEF Progress, CursorOK
<1>9. ForwardCovers'
  BY <1>1, <1>2, <1>3 DEF Progress, ForwardCovers
<1>10. BackwardCovers'
  <2>1. ASSUME NEW j \in Listed, NEW k \in rows, seen[k] <= seen[j], j \notin rows \cup fresh \cup gaps'
        PROVE  (head # 0 /\ seen[j] >= head) \/ (head = 0 /\ \A l \in rows : seen[l] <= seen[j])
    <3>1. CASE j \in Behind
      <4>1. seen[k] = seen[j]
        BY <2>1, <3>1, <1>5 DEF Behind
      <4>. QED  BY <4>1, <2>1, <3>1 DEF CutOff
    <3>2. CASE j \notin Behind
      <4>1. cursor # 0 /\ seen[j] >= cursor
        BY <3>2, <1>5 DEF Behind
      <4>2. \A l \in rows : seen[l] < cursor
        BY <4>1, <1>5 DEF Behind
      <4>3. j \notin gaps
        BY <2>1
      <4>4. CASE head # 0
        BY <4>1, <4>3, <4>4, <2>1, <1>7, <1>5
      <4>5. CASE head = 0
        BY <4>1, <4>2, <4>5, <1>5 DEF Behind
      <4>. QED  BY <4>4, <4>5
    <3>. QED  BY <3>1, <3>2
  <2>. QED  BY <2>1, <1>1, <1>2, <1>3, <1>4 DEF Progress, BackwardCovers
<1>11. WarmUpsCover'
  <2>. SUFFICES ASSUME head = 0
                PROVE  WarmUpsCover'
    BY DEF WarmUpsCover
  <2>1. ASSUME NEW q \in Runs \ {r}, ~my[q].forward, NEW j \in Listed, NEW k \in my[q].rows,
               seen[k] <= seen[j], \A l \in rows : seen[j] < seen[l]
        PROVE  j \in Covered(q)'
    <3>1. j \in Behind
      BY <2>1, <1>5 DEF Behind
    <3>2. j \notin rows
      BY <2>1, <1>5
    <3>3. CASE j \in my[q].rows
      <4>1. at[q] \in Holding
        BY <2>1 DEF Shape, LocalsOK
      <4>2. j \in Covered(q)
        BY <4>1, <3>3 DEF Progress, CursorOK
      <4>. QED  BY <4>2, <1>2
    <3>4. CASE j \notin my[q].rows
      <4>1. j \in CutOff(r, rows)
        BY <3>1, <3>2, <3>4, <2>1 DEF CutOff
      <4>. QED  BY <4>1 DEF Covered
    <3>. QED  BY <3>3, <3>4
  <2>2. ASSUME NEW q \in Runs \ {r}, ~my[q].forward, my[q].rows # {}, NEW j \in Listed, NEW k \in rows,
               seen[k] <= seen[j], \A l \in my[q].rows : seen[j] < seen[l]
        PROVE  j \in Covered(r)'
    <3>1. CASE j \in Behind
      <4>1. CASE j \notin rows
        <5>1. seen[k] = seen[j]
          BY <2>2, <3>1, <4>1, <1>5 DEF Behind
        <5>2. j \in CutOff(r, rows)
          BY <5>1, <3>1, <4>1 DEF CutOff
        <5>. QED  BY <5>2, <1>4
      <4>. QED  BY <4>1, <1>4
    <3>2. CASE j \notin Behind
      <4>1. cursor # 0 /\ seen[j] >= cursor
        BY <3>2, <1>5 DEF Behind
      <4>2. CASE j \in fresh \cup gaps
        BY <4>2, <1>4
      <4>3. CASE \E p \in Runs : at[p] = "first" /\ \A l \in my[p].rows : seen[l] <= seen[j]
        <5>1. PICK p \in Runs : at[p] = "first" /\ \A l \in my[p].rows : seen[l] <= seen[j]
          BY <4>3
        <5>2. my[p].rows # {} /\ ~my[p].forward /\ p # r
          BY <5>1 DEF Shape, LocalsOK, Holding
        <5>3. \A l \in my[p].rows \cup my[q].rows : l \in Jobs /\ seen[l] \in Nat
          BY DEF Shape, LocalsOK, TypeOK, Moments
        <5>4. p # q
          BY <5>1, <5>2, <5>3, <2>2, <1>5
        <5>5. j \in Covered(p)
          BY <5>1, <5>2, <5>4, <2>2 DEF Progress, WarmUpsCover
        <5>6. j \in fresh \cup gaps
          BY <5>5, <5>1 DEF Covered
        <5>. QED  BY <5>6, <1>4
      <4>. QED  BY <4>1, <4>2, <4>3, <1>7, <1>5
    <3>. QED  BY <3>1, <3>2
  <2>. QED  BY <2>1, <2>2, <1>1, <1>2, <1>3 DEF Progress, WarmUpsCover
<1>12. NothingSkipped'
  <2>. SUFFICES ASSUME NEW j \in Listed, j \notin fresh, j \notin gaps
                PROVE  Pending(j)'
    BY <1>3 DEF NothingSkipped
  <2>1. Pending(j)
    BY DEF Progress, NothingSkipped
  <2>. QED  BY <2>1, <1>1 DEF Pending, AnyReset
<1>. QED  BY <1>8, <1>9, <1>10, <1>11, <1>12 DEF Progress

(* The cursor moves back to the oldest job of a batch that is stored. *)
LEMMA MoveCursorProgress ==
    ASSUME Shape, Shape', Undisturbed, ~AnyReset, Progress, NEW r \in Runs, MoveCursor(r)
    PROVE  Progress'
<1>1. /\ \A q \in Runs \ {r} : at'[q] = at[q] /\ my'[q] = my[q]
      /\ my'[r] = my[r] /\ at[r] = "cursor" /\ at'[r] = "first" /\ ~my[r].forward
      /\ UNCHANGED <<seen, hidden, head, fresh, stale, dated, gaps>>
  BY DEF MoveCursor, Moved, Put, Shape, TypeOK, LocalsOK, jobs, matches
<1>2. /\ cursor' \in Moments \ {0}
      /\ \E k \in my[r].rows : seen[k] = cursor'
  <2>1. my[r].rows \in SUBSET {j \in Jobs : seen[j] # 0} /\ cursor' \in Oldest(my[r].rows)
    BY DEF MoveCursor, Shape, LocalsOK
  <2>. QED  BY <2>1, Bounds DEF Shape
<1>3. \A q \in Runs : Covered(q)' = Covered(q)
  BY <1>1 DEF Covered
<1>4. Listed' = Listed
  BY <1>1 DEF Listed
<1>5. dated = {}
  BY <1>1 DEF Undisturbed, Idle, Running
<1>6. CursorOK'
  <2>1. \A q \in Runs : at'[q] \in Holding => at[q] \in Holding /\ my'[q].rows = my[q].rows
    BY <1>1 DEF Holding
  <2>. QED  BY <2>1, <1>1, <1>2, <1>3 DEF Progress, CursorOK
<1>7. ForwardCovers'
  BY <1>1, <1>3, <1>4 DEF Progress, ForwardCovers
<1>8. BackwardCovers'
  BY <1>1, <1>3, <1>4 DEF Progress, BackwardCovers
<1>9. WarmUpsCover'
  BY <1>1, <1>3, <1>4 DEF Progress, WarmUpsCover
<1>10. NothingSkipped'
  <2>. SUFFICES ASSUME NEW j \in Listed, j \notin fresh, j \notin gaps
                PROVE  Pending(j)'
    BY <1>1, <1>4 DEF NothingSkipped
  <2>1. seen[j] \in Nat /\ cursor' \in Nat
    BY <1>2 DEF Listed, Shape, TypeOK, Moments
  <2>2. CASE seen[j] < cursor'
    BY <2>2, <1>1 DEF Pending
  <2>3. CASE cursor' <= seen[j]
    <3>1. \/ head # 0 /\ seen[j] >= head
          \/ head = 0 /\ \A k \in my[r].rows : seen[k] <= seen[j]
      BY <2>3, <1>1, <1>2 DEF Progress, BackwardCovers, Covered
    <3>. QED  BY <3>1, <1>1 DEF Pending
  <2>. QED  BY <2>1, <2>2, <2>3
<1>. QED  BY <1>6, <1>7, <1>8, <1>9, <1>10 DEF Progress

(* Below the newest job of a batch that sets the first watermark, what any *)
(* batch at hand reaches down to is covered.                               *)
LEMMA BelowFirstHead ==
    ASSUME Shape, Progress, head = 0, NEW r \in Runs, at[r] = "first",
           NEW h \in Nat, NEW l \in my[r].rows, seen[l] = h,
           NEW q \in Runs, ~my[q].forward, NEW j \in Listed, seen[j] < h,
           NEW k \in my[q].rows, seen[k] <= seen[j]
    PROVE  j \in Covered(q) \/ j \in fresh \cup gaps
<1>1. ~my[r].forward /\ my[r].rows # {} /\ my[r].rows \subseteq Jobs
  BY DEF Shape, LocalsOK
<1>2. \A i \in Jobs : seen[i] \in Nat
  BY DEF Shape, TypeOK, Moments
<1>3. j \in Jobs
  BY DEF Listed
<1>4. CASE \E i \in my[r].rows : seen[i] <= seen[j]
  <2>1. ~(\A i \in my[r].rows : seen[i] <= seen[j])
    BY <1>2, <1>3, <1>1
  <2>2. j \in Covered(r)
    BY <1>4, <1>1, <2>1 DEF Progress, BackwardCovers
  <2>. QED  BY <2>2 DEF Covered
<1>5. CASE \A i \in my[r].rows : seen[j] < seen[i]
  <2>1. CASE q = r
    <3>1. seen[k] \in Nat /\ seen[j] \in Nat
      BY <1>1, <1>2, <1>3, <2>1
    <3>. QED  BY <3>1, <1>5, <2>1
  <2>2. CASE q # r
    BY <2>2, <1>1, <1>5 DEF Progress, WarmUpsCover
  <2>. QED  BY <2>1, <2>2
<1>. QED  BY <1>1, <1>2, <1>3, <1>4, <1>5

(* A first warm-up sets the watermark. *)
LEMMA SetHeadProgress ==
    ASSUME Shape, Shape', Undisturbed, ~AnyReset, Progress, NEW r \in Runs, SetHead(r), head = 0
    PROVE  Progress'
<1>1. /\ \A q \in Runs \ {r} : at'[q] = at[q] /\ my'[q] = my[q]
      /\ at[r] = "first" /\ at'[r] = "again"
      /\ UNCHANGED <<seen, hidden, cursor, fresh, stale, dated, gaps>>
  BY DEF SetHead, Put, Shape, TypeOK, jobs, matches
<1>2. head' \in Nat \ {0} /\ \E l \in my[r].rows : seen[l] = head'
  <2>1. my[r].rows \in SUBSET {j \in Jobs : seen[j] # 0} /\ head' \in Newest(my[r].rows)
    BY DEF SetHead, FirstHead, Shape, LocalsOK
  <2>. QED  BY <2>1, Bounds DEF Shape, Moments
<1>3. \A q \in Runs \ {r} : Covered(q)' = Covered(q)
  BY <1>1 DEF Covered
<1>4. Listed' = Listed
  BY <1>1 DEF Listed
<1>5. my'[r].rows = {} /\ ~my'[r].forward
  BY <1>1 DEF Shape, LocalsOK, Holding
<1>6. CursorOK'
  BY <1>1, <1>2, <1>3 DEF Progress, CursorOK, Holding
<1>7. ForwardCovers'
  BY <1>1, <1>3, <1>4, <1>5 DEF Progress, ForwardCovers
<1>8. BackwardCovers'
  <2>. SUFFICES ASSUME NEW q \in Runs \ {r}, ~my[q].forward, NEW j \in Listed, NEW k \in my[q].rows,
                       seen[k] <= seen[j], j \notin Covered(q)
                PROVE  seen[j] >= head'
    BY <1>1, <1>2, <1>3, <1>4, <1>5 DEF BackwardCovers
  <2>1. seen[j] \in Nat
    BY DEF Listed, Shape, TypeOK, Moments
  <2>2. CASE seen[j] < head'
    BY <2>2, <1>1, <1>2, BelowFirstHead DEF Covered
  <2>. QED  BY <2>1, <2>2, <1>2
<1>9. WarmUpsCover'
  BY <1>2 DEF WarmUpsCover
<1>10. NothingSkipped'
  <2>. SUFFICES ASSUME NEW j \in Listed, j \notin fresh, j \notin gaps
                PROVE  Pending(j)'
    BY <1>1, <1>4 DEF NothingSkipped
  <2>1. seen[j] \in Nat /\ cursor # 0 /\ dated = {}
    BY <1>1 DEF Listed, Shape, TypeOK, Moments, Progress, CursorOK, Undisturbed, Idle, Running
  <2>2. Pending(j)
    BY DEF Progress, NothingSkipped
  <2>3. CASE seen[j] < cursor
    BY <2>3, <1>1 DEF Pending
  <2>4. CASE seen[j] >= head'
    BY <2>4, <1>1, <1>2 DEF Pending
  <2>5. CASE seen[j] < head' /\ \E p \in Runs : at[p] = "first" /\ \A k \in my[p].rows : seen[k] <= seen[j]
    <3>1. PICK p \in Runs : at[p] = "first" /\ \A k \in my[p].rows : seen[k] <= seen[j]
      BY <2>5
    <3>2. PICK k \in my[p].rows : seen[k] <= seen[j]
      BY <3>1 DEF Shape, LocalsOK, Holding
    <3>3. ~my[p].forward /\ Covered(p) = fresh \cup gaps
      BY <3>1 DEF Shape, LocalsOK, Covered
    <3>. QED  BY <2>5, <3>1, <3>2, <3>3, <1>1, <1>2, BelowFirstHead
  <2>6. seen[j] < cursor \/ \E p \in Runs : at[p] = "first" /\ \A k \in my[p].rows : seen[k] <= seen[j]
    BY <2>1, <2>2 DEF Pending, AnyReset
  <2>. QED  BY <2>1, <2>3, <2>4, <2>5, <2>6, <1>2
<1>. QED  BY <1>6, <1>7, <1>8, <1>9, <1>10 DEF Progress

(* The watermark moves over a forward batch. *)
LEMMA MoveHeadProgress ==
    ASSUME Shape, Shape', Undisturbed, ~AnyReset, Progress, NEW r \in Runs, MoveHead(r), SameHead(r)
    PROVE  Progress'
<1>0. PICK newest \in Newest(my[r].rows) :
          /\ head' = newest
          /\ \/ Put(r, "again", Backward(MaxBatches))
             \/ Put(r, "catchup", Forward(my[r].left - 1))
  BY DEF MoveHead
<1>1. /\ \A q \in Runs \ {r} : at'[q] = at[q] /\ my'[q] = my[q]
      /\ at[r] = "head" /\ at'[r] \in {"again", "catchup"} /\ my[r].forward
      /\ head # 0 /\ my[r].head = head
      /\ UNCHANGED <<seen, hidden, cursor, fresh, stale, dated, gaps>>
  BY <1>0 DEF MoveHead, SameHead, Put, Shape, TypeOK, LocalsOK, Holding, jobs, matches
<1>2. head' \in Nat \ {0} /\ head \in Nat /\ \E l \in my[r].rows : seen[l] = head'
  <2>1. my[r].rows \in SUBSET {j \in Jobs : seen[j] # 0}
    BY DEF Shape, LocalsOK
  <2>. QED  BY <2>1, <1>0, Bounds DEF Shape, TypeOK, Moments
<1>3. \A q \in Runs \ {r} : Covered(q)' = Covered(q)
  BY <1>1 DEF Covered
<1>4. Listed' = Listed /\ \A j \in Listed : seen[j] \in Nat
  BY <1>1 DEF Listed, Shape, TypeOK, Moments
<1>5. my'[r].rows = {}
  BY <1>1 DEF Shape, LocalsOK, Holding
<1>s. ASSUME NEW j \in Listed, seen[j] >= head
      PROVE  seen[j] >= head' \/ j \in fresh \cup gaps
  <2>1. CASE seen[j] < head'
    BY <2>1, <1>s, <1>1, <1>2, <1>4 DEF Progress, ForwardCovers, Covered
  <2>. QED  BY <2>1, <1>2, <1>4
<1>6. CursorOK'
  BY <1>1, <1>2, <1>3 DEF Progress, CursorOK, Holding
<1>7. ForwardCovers'
  BY <1>1, <1>3, <1>4, <1>5 DEF Progress, ForwardCovers
<1>8. BackwardCovers'
  <2>. SUFFICES ASSUME NEW q \in Runs \ {r}, ~my[q].forward, NEW j \in Listed, NEW k \in my[q].rows,
                       seen[k] <= seen[j], j \notin Covered(q)
                PROVE  seen[j] >= head'
    BY <1>1, <1>2, <1>3, <1>4, <1>5 DEF BackwardCovers
  <2>1. seen[j] >= head
    BY <1>1 DEF Progress, BackwardCovers
  <2>. QED  BY <2>1, <1>s DEF Covered
<1>9. WarmUpsCover'
  BY <1>2 DEF WarmUpsCover
<1>10. NothingSkipped'
  <2>. SUFFICES ASSUME NEW j \in Listed, j \notin fresh, j \notin gaps
                PROVE  Pending(j)'
    BY <1>1, <1>4 DEF NothingSkipped
  <2>1. Pending(j) /\ dated = {}
    BY <1>1 DEF Progress, NothingSkipped, Undisturbed, Idle, Running
  <2>2. seen[j] < cursor \/ seen[j] >= head
    BY <2>1, <1>1 DEF Pending, AnyReset
  <2>. QED  BY <2>2, <1>s, <1>1, <1>2 DEF Pending
<1>. QED  BY <1>6, <1>7, <1>8, <1>9, <1>10 DEF Progress

-----------------------------------------------------------------------------
(* The invariant.                                                          *)

LEMMA InitInv == Init => IInv
<1>. SUFFICES ASSUME Init PROVE IInv
  OBVIOUS
<1>1. \A r \in Runs : my[r] \in Locals /\ my[r].rows = {} /\ ~my[r].forward /\ at[r] = "off"
  BY NothingShape DEF Init
<1>2. TypeOK
  <2>1. /\ at \in [Runs -> {"off", "reset", "catchup", "rows", "store", "head", "cursor", "first", "again"}]
        /\ my \in [Runs -> Locals]
    BY NothingShape DEF Init
  <2>2. /\ 1 \in 1 .. MaxTime /\ 0 \in Moments /\ 1 \in Moments
        /\ 0 \in 0 .. MaxSaves /\ 0 \in 0 .. MaxHides /\ 0 \in 0 .. MaxFaults
    BY MatchingAssumption DEF Moments
  <2>3. seen \in [Jobs -> Moments] /\ stamp \in [Pollers -> Moments]
    BY <2>2 DEF Init
  <2>4. save \in [Saves -> [place : {"off", "persist", "delete"}, version : Nat, changed : BOOLEAN]]
    BY DEF Init, NoSave
  <2>. QED  BY <2>1, <2>2, <2>3, <2>4 DEF Init, TypeOK, Locals
<1>3. LocalsOK
  BY <1>1 DEF LocalsOK, Holding
<1>4. Undisturbed
  BY <1>1 DEF Init, Undisturbed, Deleting, NoSave
<1>o. OfProfile
  BY <1>1 DEF Init, OfProfile, HeldOver, FeedIsOfProfile
<1>5. Progress
  BY <1>1 DEF Init, Progress, CursorOK, Holding, ForwardCovers, BackwardCovers, WarmUpsCover,
              NothingSkipped, Pending
<1>. QED  BY <1>2, <1>3, <1>4, <1>o, <1>5 DEF IInv, Shape

(* What is given up stays so. *)
LEMMA LostStays ==
    ASSUME Shape, Shape', Lost, [Next]_vars, ~\E s \in Saves : SaveWrites(s)
    PROVE  Lost'
<1>1. gaps = Jobs /\ gaps' \subseteq Jobs
  BY DEF Lost, Shape, TypeOK
<1>2. gaps \subseteq gaps'
  <2>1. CASE \/ Tick \/ Deploy \/ UNCHANGED vars
             \/ \E s \in Saves : SaveLoads(s) \/ SaveDeletes(s) \/ SaveDies(s)
    BY <2>1, <1>1 DEF Tick, SaveLoads, SaveDeletes, SaveDies, Deploy, Raced, vars
  <2>2. CASE \E p \in Pollers : PollBegins(p) \/ PollCommits(p) \/ PollEnds(p)
    BY <2>2, <1>1 DEF PollBegins, PollCommits, PollEnds
  <2>3. CASE \E j \in Jobs : Hide(j) \/ Show(j)
    BY <2>3, <1>1 DEF Hide, Show
  <2>4. CASE \E r \in Runs : Visit(r) \/ Advance(r) \/ Enough(r) \/ More(r) \/ Die(r)
    BY <2>4, <1>1 DEF Visit, Advance, Begin, Enough, More, Die
  <2>5. CASE \E r \in Runs : Match(r)
    BY <2>5, <1>1 DEF Match, Reset, CatchUp, WarmUp, Store, MoveHead, LoadRows, MoveCursor, SetHead
  <2>. QED  BY <2>1, <2>2, <2>3, <2>4, <2>5 DEF Next
<1>. QED  BY <1>1, <1>2 DEF Lost

(* A step of one run leaves the others where they are. *)
LEMMA Others ==
    ASSUME Shape, NEW r \in Runs, NEW place, NEW locals, Put(r, place, locals)
    PROVE  /\ \A q \in Runs \ {r} : at'[q] = at[q] /\ my'[q] = my[q]
           /\ at'[r] = place /\ my'[r] = locals
           /\ at[r] # "reset" => (AnyReset => AnyReset')
BY DEF Put, Shape, TypeOK, AnyReset

(* A run at work means that no save and no release is. *)
LEMMA AtWork ==
    ASSUME Undisturbed, NEW r \in Runs, Running(r)
    PROVE  ~Deleting /\ dated = {}
BY DEF Undisturbed, Idle

(* The steps of a run that begins, ends or goes on to its next batch. *)
LEMMA BetweenBatches ==
    ASSUME Shape, Shape', Undisturbed, AnyReset \/ Progress, NEW r \in Runs, NEW place, NEW locals,
           Put(r, place, locals), place \notin Holding, at[r] # "reset", ~(at[r] = "first" /\ head = 0),
           UNCHANGED <<seen, hidden, cursor, head, fresh, stale, version, saving>>, gaps \subseteq gaps',
           Deleting => ~Running(r) /\ place = "off",
           \/ dated' = dated /\ (dated # {} => place = "off")
           \/ dated' = {} /\ (dated # {} => place = "reset")
    PROVE  Undisturbed' /\ (AnyReset' \/ Progress')
<1>1. /\ \A q \in Runs \ {r} : at'[q] = at[q] /\ my'[q] = my[q]
      /\ at'[r] = place /\ (AnyReset => AnyReset')
  BY Others
<1>2. Undisturbed'
  BY <1>1 DEF Undisturbed, Idle, Running, Holding, Deleting, saving
<1>3. CASE place = "reset"
  BY <1>1, <1>2, <1>3 DEF AnyReset
<1>4. CASE place # "reset" /\ ~AnyReset
  BY <1>1, <1>2, <1>4, LetGo
<1>. QED  BY <1>1, <1>2, <1>3, <1>4

(* The steps of nobody's run. *)
LEMMA OutsideStep ==
    ASSUME Shape, Shape', ~Lost', Undisturbed, AnyReset \/ Progress,
           \/ Tick \/ Deploy \/ UNCHANGED vars
           \/ \E s \in Saves : SaveLoads(s) \/ SaveDeletes(s) \/ SaveDies(s)
           \/ \E p \in Pollers : PollBegins(p) \/ PollCommits(p) \/ PollEnds(p)
           \/ \E j \in Jobs : Hide(j) \/ Show(j)
    PROVE  Undisturbed' /\ (AnyReset' \/ Progress')
<1>1. CASE UNCHANGED <<cursor, head, at, my, fresh, dated, version>> /\ (Deleting' => Deleting) /\ gaps \subseteq gaps'
           /\ (\A k \in Jobs : seen[k] # 0 => seen'[k] = seen[k])
           /\ \A j \in Listed' : j \in Listed \/ (Passed(seen'[j]) => j \in gaps')
  <2>1. Undisturbed'
    BY <1>1 DEF Undisturbed, Idle, Running
  <2>2. AnyReset => AnyReset'
    BY <1>1 DEF AnyReset
  <2>. QED  BY <2>1, <2>2, <1>1, ListingChanges
<1>d. UNCHANGED profile => (Deleting' => Deleting)
  BY DEF profile, saving, Deleting
<1>2. CASE \E p \in Pollers : PollCommits(p)
  <2>1. PICK p \in Pollers, S \in SUBSET {j \in Jobs : seen[j] = 0} :
          /\ stamp[p] # 0
          /\ seen' = [j \in Jobs |-> IF j \in S THEN stamp[p] ELSE seen[j]]
          /\ gaps' = IF Passed(stamp[p]) THEN gaps \cup S ELSE gaps
          /\ UNCHANGED <<clock, hidden, profile, matches, at, my, faults>>
    BY <1>2 DEF PollCommits
  <2>2. \A j \in Listed' : j \in Listed \/ j \in S
    BY <2>1 DEF Listed
  <2>3. \A j \in S : seen'[j] = stamp[p]
    BY <2>1
  <2>. QED  BY <2>1, <2>2, <2>3, <1>1, <1>d DEF profile, matches
<1>3. CASE \E j \in Jobs : Show(j)
  <2>1. PICK i \in Jobs : Show(i)
    BY <1>3
  <2>2. \A j \in Listed' : j \in Listed \/ j = i
    BY <2>1 DEF Listed, Show
  <2>. QED  BY <2>1, <2>2, <1>1, <1>d DEF Show, profile, matches
<1>4. CASE \E j \in Jobs : Hide(j)
  BY <1>4, <1>1, <1>d DEF Hide, Listed, profile, matches
<1>5. CASE Tick \/ (\E p \in Pollers : PollBegins(p) \/ PollEnds(p)) \/ UNCHANGED vars
  BY <1>5, <1>1, <1>d DEF Tick, PollBegins, PollEnds, vars, jobs, profile, matches, Listed
<1>6. CASE \E s \in Saves : SaveLoads(s) \/ SaveDies(s)
  <2>1. PICK s \in Saves : SaveLoads(s) \/ SaveDies(s)
    BY <1>6
  <2>2. /\ UNCHANGED <<clock, jobs, cursor, head, version, matches, at, my, gaps>>
        /\ \A q \in Saves : save'[q].place = "delete" => save[q].place = "delete"
    BY <2>1 DEF SaveLoads, SaveDies, Shape, TypeOK, NoSave
  <2>. QED  BY <2>2, <1>1 DEF Deleting, Listed, jobs, matches
<1>7. CASE \E s \in Saves : SaveDeletes(s)
  <2>1. PICK s \in Saves : SaveDeletes(s)
    BY <1>7
  <2>2. Deleting /\ dated' = {} /\ gaps' = Raced /\ UNCHANGED <<at, my, cursor, head>>
    BY <2>1 DEF SaveDeletes, Deleting
  <2>3. Idle /\ cursor = 0 /\ head = 0
    BY <2>2 DEF Undisturbed
  <2>4. Idle'
    BY <2>2, <2>3 DEF Idle, Running
  <2>5. Undisturbed'
    BY <2>2, <2>3, <2>4 DEF Undisturbed, Idle, Running
  <2>6. NothingSkipped'
    BY <2>2, <2>3 DEF NothingSkipped, Pending
  <2>. QED  BY <2>2, <2>3, <2>4, <2>5, <2>6, AtRest
<1>8. CASE Deploy
  <2>1. Idle /\ gaps' = gaps /\ UNCHANGED <<at, my, cursor, head, seen, hidden, save>>
    BY <1>8 DEF Deploy, Raced, Idle, Lost, jobs
  <2>2. Idle' /\ ~AnyReset
    BY <2>1 DEF Idle, Running, AnyReset
  <2>3. Undisturbed'
    BY <2>1, <2>2 DEF Undisturbed, Idle, Running, Deleting
  <2>4. NothingSkipped'
    <3>. SUFFICES ASSUME NEW j \in Listed, j \notin gaps
                  PROVE  Pending(j)'
      BY <2>1 DEF NothingSkipped, Listed
    <3>1. CASE j \in fresh
      BY <3>1, <1>8 DEF Deploy, Pending
    <3>2. CASE j \notin fresh
      <4>1. Pending(j)
        BY <3>2, <2>2 DEF Progress, NothingSkipped
      <4>. QED  BY <4>1, <2>1, <1>8 DEF Deploy, Pending
    <3>. QED  BY <3>1, <3>2
  <2>5. (cursor' = 0 /\ head' = 0) \/ head' # 0
    BY <2>1, <2>2 DEF Progress, CursorOK, Idle, Running
  <2>. QED  BY <2>2, <2>3, <2>4, <2>5, AtRest
<1>. QED  BY <1>2, <1>3, <1>4, <1>5, <1>6, <1>7, <1>8

(* A run begins, ends, dies, or looks for its next batch. *)
LEMMA TurnStep ==
    ASSUME Shape, Shape', ~Lost, ~Lost', Undisturbed, AnyReset \/ Progress, NEW r \in Runs,
           Visit(r) \/ Advance(r) \/ WarmUp(r) \/ Enough(r) \/ More(r) \/ Die(r)
    PROVE  Undisturbed' /\ (AnyReset' \/ Progress')
<1>1. ASSUME NEW locals, RemoveStale(r, locals),
             \/ at[r] = "off" /\ gaps' = IF Deleting THEN Jobs ELSE gaps
             \/ at[r] \in {"catchup", "again"} /\ gaps' = gaps
      PROVE  Undisturbed' /\ (AnyReset' \/ Progress')
  <2>. DEFINE place == IF dated # {} THEN "reset" ELSE IF locals.forward THEN "catchup" ELSE "rows"
  <2>1. Put(r, place, locals) /\ dated' = {}
    BY <1>1 DEF RemoveStale
  <2>2. place \notin Holding /\ (dated # {} => place = "reset")
    BY DEF Holding
  <2>3. ~Deleting /\ gaps' = gaps /\ at[r] \in {"off", "catchup", "again"}
    <3>1. CASE at[r] = "off"
      BY <1>1, <3>1 DEF Lost
    <3>2. CASE at[r] # "off"
      BY <1>1, <3>2, AtWork DEF Running
    <3>. QED  BY <3>1, <3>2
  <2>. HIDE DEF place
  <2>. QED  BY <1>1, <2>1, <2>2, <2>3, BetweenBatches DEF RemoveStale, jobs, profile
<1>2. CASE Visit(r) \/ Advance(r)
  BY <1>1, <1>2 DEF Visit, Advance, Begin
<1>3. CASE WarmUp(r) \/ More(r)
  BY <1>1, <1>3 DEF WarmUp, More
<1>4. CASE Enough(r)
  <2>1. ~Deleting /\ dated = {}
    BY <1>4, AtWork DEF Enough, Running
  <2>. QED  BY <1>4, <2>1, BetweenBatches DEF Enough, jobs, profile, matches, Holding
<1>5. CASE Die(r)
  <2>1. ~Deleting /\ dated = {}
    BY <1>5, AtWork DEF Die
  <2>2. at[r] # "reset" /\ ~(at[r] = "first" /\ head = 0) /\ gaps' = gaps
    BY <1>5 DEF Die, Lost
  <2>. QED  BY <1>5, <2>1, <2>2, BetweenBatches DEF Die, jobs, profile, matches, Holding
<1>. QED  BY <1>2, <1>3, <1>4, <1>5

(* A run reads a batch, stores it and moves the watermark or the cursor. *)
LEMMA MatchStep ==
    ASSUME Shape, Shape', ~Lost, ~Lost', Undisturbed, AnyReset \/ Progress, NEW r \in Runs,
           Match(r), ~WarmUp(r)
    PROVE  Undisturbed' /\ (AnyReset' \/ Progress')
<1>0. Running(r)
  BY DEF Match, Running, Reset, CatchUp, WarmUp, Store, MoveHead, LoadRows, MoveCursor, SetHead, Moved
<1>w. ~Deleting /\ dated = {}
  BY <1>0, AtWork
<1>1. CASE Reset(r)
  <2>1. \A q \in Runs \ {r} : ~Running(q)
    BY <1>1 DEF Reset, Lost
  <2>2. /\ \A q \in Runs \ {r} : at'[q] = at[q] /\ my'[q] = my[q]
        /\ at'[r] \in {"catchup", "rows"} /\ cursor' = 0 /\ head' = 0
        /\ UNCHANGED <<saving, dated>>
    BY <1>1, Others DEF Reset, Moved, matches
  <2>3. Undisturbed'
    BY <2>1, <2>2, <1>w DEF Undisturbed, Running, Deleting, saving
  <2>4. \A q \in Runs : my'[q].rows = {} /\ at'[q] \notin Holding
    BY <2>1, <2>2 DEF Shape, LocalsOK, Holding, Running
  <2>5. Progress'
    BY <2>2, <2>4 DEF Progress, CursorOK, Holding, ForwardCovers, BackwardCovers, WarmUpsCover,
                      NothingSkipped, Pending
  <2>. QED  BY <2>3, <2>5
<1>2. CASE CatchUp(r)
  <2>1. PICK rows \in FirstOf(Ahead(head), LAMBDA j, k : seen[j] < seen[k]) :
          IF rows = {}
          THEN Put(r, "again", Backward(MaxBatches))
          ELSE Put(r, "store", [my[r] EXCEPT !.rows = rows, !.head = head, !.version = version])
    BY <1>2 DEF CatchUp
  <2>2. /\ rows \in SUBSET Ahead(head)
        /\ \A j \in rows, k \in Ahead(head) \ rows : ~(seen[k] < seen[j])
    BY AheadBatch
  <2>3. /\ UNCHANGED <<seen, hidden, cursor, head, version, saving, fresh, stale, dated, gaps>>
        /\ at[r] = "catchup"
    BY <1>2 DEF CatchUp, jobs, profile, matches
  <2>. HIDE DEF FirstOf
  <2>4. CASE rows = {}
    BY <2>1, <2>3, <2>4, <1>w, BetweenBatches DEF Holding
  <2>5. CASE rows # {}
    <3>. DEFINE new == [my[r] EXCEPT !.rows = rows, !.head = head, !.version = version]
    <3>1. Put(r, "store", new) /\ new.version = version
      BY <2>1, <2>5 DEF Shape, TypeOK
    <3>2. /\ \A q \in Runs \ {r} : at'[q] = at[q] /\ my'[q] = my[q]
          /\ at'[r] = "store" /\ my'[r].version = version /\ (AnyReset => AnyReset')
      BY <3>1, <2>3, Others
    <3>3. Undisturbed'
      BY <3>2, <2>3, <1>w DEF Undisturbed, Deleting, saving
    <3>4. ~AnyReset => Progress'
      BY <2>1, <2>2, <2>3, <2>5, CatchUpProgress
    <3>. QED  BY <3>2, <3>3, <3>4
  <2>. QED  BY <2>4, <2>5
<1>3. CASE LoadRows(r)
  <2>1. PICK rows \in FirstOf(Behind, LAMBDA j, k : seen[j] > seen[k]) :
          /\ IF rows = {}
             THEN Put(r, "off", Nothing)
             ELSE Put(r, "store", [my[r] EXCEPT !.rows = rows, !.version = version])
          /\ gaps' = gaps \cup CutOff(r, rows)
    BY <1>3 DEF LoadRows
  <2>2. /\ rows \in SUBSET Behind
        /\ \A j \in rows, k \in Behind \ rows : ~(seen[k] > seen[j])
    BY BehindBatch
  <2>3. /\ UNCHANGED <<seen, hidden, cursor, head, version, saving, fresh, stale, dated>>
        /\ at[r] = "rows"
    BY <1>3 DEF LoadRows, jobs, profile, matches
  <2>4. CASE rows = {}
    BY <2>1, <2>3, <2>4, <1>w, BetweenBatches DEF Holding
  <2>5. CASE rows # {}
    <3>. DEFINE new == [my[r] EXCEPT !.rows = rows, !.version = version]
    <3>1. Put(r, "store", new) /\ new.version = version
      BY <2>1, <2>5 DEF Shape, TypeOK
    <3>2. /\ \A q \in Runs \ {r} : at'[q] = at[q] /\ my'[q] = my[q]
          /\ at'[r] = "store" /\ my'[r].version = version /\ (AnyReset => AnyReset')
      BY <3>1, <2>3, Others
    <3>3. Undisturbed'
      BY <3>2, <2>3, <1>w DEF Undisturbed, Deleting, saving
    <3>4. ~AnyReset => Progress'
      BY <2>1, <2>2, <2>3, <2>5, LoadRowsProgress
    <3>. QED  BY <3>2, <3>3, <3>4
  <2>. QED  BY <2>4, <2>5
<1>4. CASE Store(r)
  <2>1. /\ \A q \in Runs \ {r} : at'[q] = at[q] /\ my'[q] = my[q]
        /\ at'[r] \in {"head", "cursor"} /\ my'[r] = my[r] /\ (AnyReset => AnyReset')
    BY <1>4, Others DEF Store, Moved
  <2>2. Undisturbed'
    BY <2>1, <1>4, <1>w DEF Undisturbed, Store, profile, Deleting, saving, Moved
  <2>. QED  BY <2>1, <2>2, <1>4, StoreProgress
<1>5. CASE MoveCursor(r)
  <2>1. /\ \A q \in Runs \ {r} : at'[q] = at[q] /\ my'[q] = my[q]
        /\ at'[r] = "first" /\ (AnyReset => AnyReset')
    BY <1>5, Others DEF MoveCursor, Moved
  <2>2. Undisturbed'
    BY <2>1, <1>5, <1>w DEF Undisturbed, MoveCursor, matches, Deleting, saving
  <2>. QED  BY <2>1, <2>2, <1>5, MoveCursorProgress
<1>6. CASE SetHead(r)
  <2>1. /\ \A q \in Runs \ {r} : at'[q] = at[q] /\ my'[q] = my[q]
        /\ at'[r] = "again" /\ (AnyReset => AnyReset')
    BY <1>6, Others DEF SetHead
  <2>2. Undisturbed'
    BY <2>1, <1>6, <1>w DEF Undisturbed, SetHead, matches, Deleting, saving
  <2>3. CASE head = 0
    BY <2>1, <2>2, <2>3, <1>6, SetHeadProgress
  <2>4. CASE head # 0
    BY <2>4, <1>6, <1>w, BetweenBatches DEF SetHead, FirstHead, jobs, matches, Holding
  <2>. QED  BY <2>3, <2>4
<1>7. CASE MoveHead(r)
  <2>1. PICK newest \in Newest(my[r].rows), place \in {"again", "catchup"}, locals \in {Backward(MaxBatches), Forward(my[r].left - 1)} :
          head' = (IF SameHead(r) THEN newest ELSE head) /\ Put(r, place, locals)
    BY <1>7 DEF MoveHead
  <2>2. /\ \A q \in Runs \ {r} : at'[q] = at[q] /\ my'[q] = my[q]
        /\ at'[r] = place /\ (AnyReset => AnyReset')
    BY <1>7, <2>1, Others DEF MoveHead
  <2>3. Undisturbed'
    BY <2>2, <1>7, <1>w DEF Undisturbed, MoveHead, matches, Deleting, saving
  <2>4. CASE SameHead(r)
    BY <2>2, <2>3, <2>4, <1>7, MoveHeadProgress
  <2>5. CASE ~SameHead(r)
    BY <2>1, <2>5, <1>7, <1>w, BetweenBatches DEF MoveHead, jobs, matches, Holding
  <2>. QED  BY <2>4, <2>5
<1>. QED  BY <1>1, <1>2, <1>3, <1>4, <1>5, <1>6, <1>7 DEF Match

(* A save that writes the profile with nobody at work makes a new start,   *)
(* whatever was lost before.                                               *)
LEMMA NewStart ==
    ASSUME Shape, Shape', ~Lost', NEW s \in Saves, SaveWrites(s)
    PROVE  Undisturbed' /\ Progress'
<1>1. Idle /\ UNCHANGED <<at, my>> /\ cursor' = 0 /\ head' = 0
  BY DEF SaveWrites, Idle, Lost
<1>2. Idle'
  BY <1>1 DEF Idle, Running
<1>3. Undisturbed'
  BY <1>1, <1>2 DEF Undisturbed, Idle, Running
<1>4. NothingSkipped'
  BY <1>1 DEF NothingSkipped, Pending
<1>. QED  BY <1>1, <1>2, <1>3, <1>4, AtRest

(* Whoever races whom: an old match is late for a known cause, or about to *)
(* be deleted.                                                             *)
LEMMA ProfileStep ==
    ASSUME Shape, Shape', OfProfile, [Next]_vars
    PROVE  OfProfile'
<1>1. ASSUME UNCHANGED <<version, stale, saving>>, NEW r \in Runs,
             \A q \in Runs \ {r} : at'[q] = at[q] /\ my'[q] = my[q],
             at'[r] # "store" \/ my'[r].version = version
      PROVE  OfProfile'
  BY <1>1 DEF OfProfile, HeldOver, FeedIsOfProfile, Deleting, saving
<1>2. CASE \/ Tick \/ (\E p \in Pollers : PollBegins(p) \/ PollCommits(p) \/ PollEnds(p))
           \/ (\E j \in Jobs : Hide(j) \/ Show(j)) \/ UNCHANGED vars
  <2>1. UNCHANGED <<profile, matches, at, my>>
    BY <1>2 DEF Tick, PollBegins, PollCommits, PollEnds, Hide, Show, vars
  <2>. QED  BY <2>1 DEF profile, matches, OfProfile, HeldOver, FeedIsOfProfile, Deleting, saving
<1>3. CASE Deploy
  BY <1>3 DEF Deploy, OfProfile, HeldOver, FeedIsOfProfile, InHand
<1>4. ASSUME NEW s \in Saves, SaveLoads(s) \/ SaveWrites(s) \/ SaveDeletes(s) \/ SaveDies(s)
      PROVE  OfProfile'
  <2>0. save \in [Saves -> [place : {"off", "persist", "delete"}, version : Nat, changed : BOOLEAN]]
    BY DEF Shape, TypeOK
  <2>1. CASE SaveLoads(s)
    <3>1. UNCHANGED <<version, late, matches, at, my>> /\ save[s].place = "off"
          /\ \A q \in Saves \ {s} : save'[q] = save[q]
      BY <2>1, <2>0 DEF SaveLoads
    <3>. QED  BY <3>1 DEF matches, OfProfile, HeldOver, FeedIsOfProfile, Deleting
  <2>2. CASE SaveWrites(s)
    <3>1. UNCHANGED <<at, my>> /\ save[s].place = "persist" /\ \A q \in Saves \ {s} : save'[q] = save[q]
      BY <2>2, <2>0 DEF SaveWrites
    <3>2. Deleting => Deleting'
      BY <3>1 DEF Deleting
    <3>3. CASE save[s].changed \/ save[s].version # version
      <4>1. InHand(Runs) \subseteq late'
        BY <2>2, <3>3 DEF SaveWrites
      <4>2. HeldOver'
        BY <3>1, <4>1 DEF HeldOver, InHand
      <4>3. CASE save[s].changed
        <5>1. save'[s].place = "delete"
          BY <2>2, <2>0, <4>3 DEF SaveWrites, Deletes
        <5>. QED  BY <5>1, <4>2 DEF OfProfile, FeedIsOfProfile, Deleting
      <4>4. CASE ~save[s].changed
        BY <2>2, <3>3, <4>2, <4>4 DEF SaveWrites, OfProfile, FeedIsOfProfile
      <4>. QED  BY <4>3, <4>4
    <3>4. CASE ~(save[s].changed \/ save[s].version # version)
      BY <2>2, <3>1, <3>2, <3>4 DEF SaveWrites, OfProfile, HeldOver, FeedIsOfProfile
    <3>. QED  BY <3>3, <3>4
  <2>3. CASE SaveDeletes(s)
    BY <2>3 DEF SaveDeletes, OfProfile, HeldOver, FeedIsOfProfile, InHand
  <2>4. CASE SaveDies(s)
    <3>1. UNCHANGED <<version, matches, at, my>> /\ (\A q \in Saves \ {s} : save'[q] = save[q])
          /\ late' = IF save[s].place = "delete" THEN late \cup stale ELSE late
      BY <2>4, <2>0 DEF SaveDies
    <3>. QED  BY <3>1 DEF matches, OfProfile, HeldOver, FeedIsOfProfile, Deleting
  <2>. QED  BY <1>4, <2>1, <2>2, <2>3, <2>4
<1>5. ASSUME NEW r \in Runs, Visit(r) \/ Advance(r) \/ WarmUp(r) \/ More(r) PROVE OfProfile'
  <2>1. PICK locals : RemoveStale(r, locals)
    BY <1>5 DEF Visit, Advance, Begin, WarmUp, More
  <2>2. PICK place \in {"reset", "catchup", "rows"} : Put(r, place, locals)
    BY <2>1 DEF RemoveStale
  <2>. QED  BY <2>1, <2>2, <1>1, Others DEF RemoveStale, profile
<1>6. ASSUME NEW r \in Runs, Enough(r) \/ Die(r) PROVE OfProfile'
  BY <1>6, <1>1, Others DEF Enough, Die, profile, matches
<1>7. ASSUME NEW r \in Runs, CatchUp(r) \/ LoadRows(r) PROVE OfProfile'
  <2>1. PICK place, locals : Put(r, place, locals) /\ (place # "store" \/ locals.version = version)
    <3>1. CASE CatchUp(r)
      <4>1. PICK rows \in FirstOf(Ahead(head), LAMBDA j, k : seen[j] < seen[k]) :
              IF rows = {}
              THEN Put(r, "again", Backward(MaxBatches))
              ELSE Put(r, "store", [my[r] EXCEPT !.rows = rows, !.head = head, !.version = version])
        BY <3>1 DEF CatchUp
      <4>2. CASE rows = {}
        <5>1. Put(r, "again", Backward(MaxBatches)) /\ "again" # "store"
          BY <4>1, <4>2
        <5>. QED  BY <5>1
      <4>3. CASE rows # {}
        <5>. DEFINE new == [my[r] EXCEPT !.rows = rows, !.head = head, !.version = version]
        <5>1. Put(r, "store", new) /\ new.version = version
          BY <4>1, <4>3 DEF Shape, TypeOK
        <5>. QED  BY <5>1
      <4>. QED  BY <4>2, <4>3
    <3>2. CASE LoadRows(r)
      <4>1. PICK rows \in FirstOf(Behind, LAMBDA j, k : seen[j] > seen[k]) :
              IF rows = {}
              THEN Put(r, "off", Nothing)
              ELSE Put(r, "store", [my[r] EXCEPT !.rows = rows, !.version = version])
        BY <3>2 DEF LoadRows
      <4>2. CASE rows = {}
        <5>1. Put(r, "off", Nothing) /\ "off" # "store"
          BY <4>1, <4>2
        <5>. QED  BY <5>1
      <4>3. CASE rows # {}
        <5>. DEFINE new == [my[r] EXCEPT !.rows = rows, !.version = version]
        <5>1. Put(r, "store", new) /\ new.version = version
          BY <4>1, <4>3 DEF Shape, TypeOK
        <5>. QED  BY <5>1
      <4>. QED  BY <4>2, <4>3
    <3>. QED  BY <1>7, <3>1, <3>2
  <2>2. UNCHANGED <<profile, matches>>
    BY <1>7 DEF CatchUp, LoadRows
  <2>. QED  BY <2>1, <2>2, <1>1, Others DEF profile, matches
<1>8. ASSUME NEW r \in Runs, Store(r) PROVE OfProfile'
  <2>1. /\ \A q \in Runs \ {r} : at'[q] = at[q] /\ my'[q] = my[q]
        /\ at'[r] # "store" /\ at[r] = "store" /\ UNCHANGED <<version, saving>>
    BY <1>8, Others DEF Store, Moved, profile
  <2>2. HeldOver'
    BY <2>1 DEF OfProfile, HeldOver, saving
  <2>3. stale' \subseteq stale \/ (stale' = stale \cup my[r].rows /\ my[r].version # version)
    BY <1>8 DEF Store
  <2>4. FeedIsOfProfile'
    BY <2>1, <2>3 DEF OfProfile, HeldOver, FeedIsOfProfile, Deleting, saving
  <2>. QED  BY <2>2, <2>4 DEF OfProfile
<1>9. ASSUME NEW r \in Runs, Reset(r) \/ MoveCursor(r) \/ SetHead(r) \/ MoveHead(r) PROVE OfProfile'
  <2>1. PICK place, locals : Put(r, place, locals) /\ place # "store"
    BY <1>9 DEF Reset, MoveCursor, SetHead, MoveHead, Moved
  <2>2. UNCHANGED <<version, saving, matches>>
    BY <1>9 DEF Reset, MoveCursor, SetHead, MoveHead
  <2>. QED  BY <2>1, <2>2, <1>1, Others DEF matches
<1>. QED  BY <1>2, <1>3, <1>4, <1>5, <1>6, <1>7, <1>8, <1>9 DEF Next, Match

LEMMA NextInv == IInv /\ [Next]_vars => IInv'
<1>. SUFFICES ASSUME IInv, [Next]_vars PROVE IInv'
  OBVIOUS
<1>1. Shape /\ Shape' /\ OfProfile'
  BY ShapeStep, ProfileStep DEF IInv
<1>2. CASE Lost'
  BY <1>1, <1>2 DEF IInv
<1>3. CASE ~Lost' /\ \E s \in Saves : SaveWrites(s)
  BY <1>1, <1>3, NewStart DEF IInv
<1>4. CASE ~Lost' /\ ~\E s \in Saves : SaveWrites(s)
  <2>1. ~Lost /\ Undisturbed /\ (AnyReset \/ Progress)
    BY <1>1, <1>4, LostStays DEF IInv
  <2>2. Undisturbed' /\ (AnyReset' \/ Progress')
    <3>1. CASE \E r \in Runs : Visit(r) \/ Advance(r) \/ WarmUp(r) \/ Enough(r) \/ More(r) \/ Die(r)
      BY <3>1, <2>1, <1>1, <1>4, TurnStep
    <3>2. CASE \E r \in Runs : Match(r) /\ ~WarmUp(r)
      BY <3>2, <2>1, <1>1, <1>4, MatchStep
    <3>3. CASE \/ Tick \/ Deploy \/ UNCHANGED vars
               \/ \E s \in Saves : SaveLoads(s) \/ SaveDeletes(s) \/ SaveDies(s)
               \/ \E p \in Pollers : PollBegins(p) \/ PollCommits(p) \/ PollEnds(p)
               \/ \E j \in Jobs : Hide(j) \/ Show(j)
      BY <3>3, <2>1, <1>1, <1>4, OutsideStep
    <3>. QED  BY <1>4, <3>1, <3>2, <3>3 DEF Next
  <2>. QED  BY <1>1, <2>2 DEF IInv
<1>. QED  BY <1>2, <1>3, <1>4

THEOREM InvariantHolds == Spec => []IInv
<1>. QED  BY InitInv, NextInv, PTL DEF Spec

-----------------------------------------------------------------------------
(* Results.                                                                *)

(* The watermark, the cursor and what runs hold stay well typed. *)
THEOREM TypeCorrect == Spec => []TypeOK
<1>1. IInv => TypeOK
  BY DEF IInv, Shape
<1>. QED  BY <1>1, InvariantHolds, PTL

(* However many visits, cron advances, polls, saves and releases overlap,  *)
(* and whatever the size of a batch, a listed job is matched or still to   *)
(* be evaluated, but for the known gaps.                                   *)
THEOREM NoJobIsSkipped == Spec => []NothingSkipped
<1>1. IInv => NothingSkipped
  BY DEF IInv, Lost, AnyReset, Progress, NothingSkipped, Pending, Listed
<1>. QED  BY <1>1, InvariantHolds, PTL

(* However many saves, visits, cron advances and releases overlap or die,  *)
(* and whatever the size of a batch: unless a save is about to delete      *)
(* them, the matches are of the profile there is, but for those late for a *)
(* known cause.                                                            *)
THEOREM MatchesAreOfTheProfile == Spec => []FeedIsOfProfile
<1>1. IInv => FeedIsOfProfile
  BY DEF IInv, OfProfile
<1>. QED  BY <1>1, InvariantHolds, PTL
=============================================================================
