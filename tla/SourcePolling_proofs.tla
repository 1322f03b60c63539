------------------------ MODULE SourcePolling_proofs ------------------------
(***************************************************************************)
(* Proofs about SourcePolling, for any number of pollers, claims and jobs, *)
(* any thresholds and any number of faults: a second poll of one message's *)
(* source takes a mishap, and a job the board lists all along is closed    *)
(* only after as many answers that lack it.                                *)
(***************************************************************************)
EXTENDS SourcePolling, FiniteSetTheorems, TLAPS

-----------------------------------------------------------------------------
(* The inductive invariant.                                                *)

Locals == [mode : Modes \cup {"none"}, claim : Claims \cup {None}, age : 0 .. 2,
           failures : 0 .. QuarantineAfter, quarantined : BOOLEAN,
           empty : {"never", "recent", "day"}, snap : SUBSET Jobs, hit : SUBSET Jobs,
           miss : SUBSET Jobs, fresh : SUBSET Jobs, forget : SUBSET Jobs, ok : BOOLEAN]

(* Polls of a message that have not reported yet, those about to drop it   *)
(* among them; and those of a claim that is not the source's any more.     *)
Holding == {p \in Pollers : my[p].mode = "queue" /\ at[p] \notin {"off", "ack"}}

Behind == {p \in Holding : my[p].claim # claim}

(* The claim's sending was reported to have failed, and yet its message is *)
(* there: the claim will be released under it.                             *)
Doubtful == claim \in failing /\ (claim \in queue \/ Holding # Behind)

Credit == IF Doubtful THEN 1 ELSE 0

(* A claim still to be sent is in no message and no poll; one that expired *)
(* is not the dispatcher's any more; a message's poll has its claim.       *)
Claiming ==
    /\ \A c \in sending : c \notin failing \cup queue /\ \A p \in Pollers : my[p].claim # c
    /\ old => claim \notin sending \cup failing
    /\ \A p \in Pollers : my[p].mode = "queue" <=> my[p].claim # None
    /\ None \notin sending \cup failing \cup queue

Counted ==
    /\ Cardinality(Holding) + Credit <= 1 + mishaps
    /\ Cardinality(Behind) + Credit <= mishaps

IInv == TypeOK /\ Claiming /\ Counted
-----------------------------------------------------------------------------
(* Types.                                                                  *)

LEMMA NothingType == Nothing \in Locals
BY PollingAssumption DEF Nothing, Locals

(* A change of a field other than the mode and the claim. *)
Same(m, n) ==
    /\ n \in [Pollers -> Locals]
    /\ \A q \in Pollers : n[q].mode = m[q].mode /\ n[q].claim = m[q].claim

LEMMA FieldType ==
    ASSUME NEW k, NEW m, Same(k, m), NEW p \in Pollers, NEW S \in SUBSET Jobs
    PROVE  /\ Same(k, [m EXCEPT ![p].snap = S])
           /\ Same(k, [m EXCEPT ![p].hit = S])
           /\ Same(k, [m EXCEPT ![p].miss = S])
           /\ Same(k, [m EXCEPT ![p].fresh = S])
           /\ Same(k, [m EXCEPT ![p].forget = S])
           /\ Same(k, [m EXCEPT ![p].ok = FALSE])
<1>1. m[p] \in Locals /\ m \in [Pollers -> Locals]
  BY DEF Same
<1>2. Same(k, [m EXCEPT ![p].snap = S])
  <2>. DEFINE r == [m[p] EXCEPT !.snap = S]
  <2>1. r \in Locals /\ r.mode = m[p].mode /\ r.claim = m[p].claim
    BY <1>1 DEF Locals
  <2>2. [m EXCEPT ![p].snap = S] = [m EXCEPT ![p] = r]
    OBVIOUS
  <2>. HIDE DEF r
  <2>. QED  BY <1>1, <2>1, <2>2 DEF Same
<1>3. Same(k, [m EXCEPT ![p].hit = S])
  <2>. DEFINE r == [m[p] EXCEPT !.hit = S]
  <2>1. r \in Locals /\ r.mode = m[p].mode /\ r.claim = m[p].claim
    BY <1>1 DEF Locals
  <2>2. [m EXCEPT ![p].hit = S] = [m EXCEPT ![p] = r]
    OBVIOUS
  <2>. HIDE DEF r
  <2>. QED  BY <1>1, <2>1, <2>2 DEF Same
<1>4. Same(k, [m EXCEPT ![p].miss = S])
  <2>. DEFINE r == [m[p] EXCEPT !.miss = S]
  <2>1. r \in Locals /\ r.mode = m[p].mode /\ r.claim = m[p].claim
    BY <1>1 DEF Locals
  <2>2. [m EXCEPT ![p].miss = S] = [m EXCEPT ![p] = r]
    OBVIOUS
  <2>. HIDE DEF r
  <2>. QED  BY <1>1, <2>1, <2>2 DEF Same
<1>5. Same(k, [m EXCEPT ![p].fresh = S])
  <2>. DEFINE r == [m[p] EXCEPT !.fresh = S]
  <2>1. r \in Locals /\ r.mode = m[p].mode /\ r.claim = m[p].claim
    BY <1>1 DEF Locals
  <2>2. [m EXCEPT ![p].fresh = S] = [m EXCEPT ![p] = r]
    OBVIOUS
  <2>. HIDE DEF r
  <2>. QED  BY <1>1, <2>1, <2>2 DEF Same
<1>6. Same(k, [m EXCEPT ![p].forget = S])
  <2>. DEFINE r == [m[p] EXCEPT !.forget = S]
  <2>1. r \in Locals /\ r.mode = m[p].mode /\ r.claim = m[p].claim
    BY <1>1 DEF Locals
  <2>2. [m EXCEPT ![p].forget = S] = [m EXCEPT ![p] = r]
    OBVIOUS
  <2>. HIDE DEF r
  <2>. QED  BY <1>1, <2>1, <2>2 DEF Same
<1>7. Same(k, [m EXCEPT ![p].ok = FALSE])
  <2>. DEFINE r == [m[p] EXCEPT !.ok = FALSE]
  <2>1. r \in Locals /\ r.mode = m[p].mode /\ r.claim = m[p].claim
    BY <1>1 DEF Locals
  <2>2. [m EXCEPT ![p].ok = FALSE] = [m EXCEPT ![p] = r]
    OBVIOUS
  <2>. HIDE DEF r
  <2>. QED  BY <1>1, <2>1, <2>2 DEF Same
<1>. QED  BY <1>2, <1>3, <1>4, <1>5, <1>6, <1>7

LEMMA SameMy == ASSUME TypeOK  PROVE Same(my, my)
BY DEF TypeOK, Same, Locals

(* What a poll has in hand keeps its type. *)
LEMMA FailedType ==
    ASSUME TypeOK, NEW p \in Pollers, Failed(p)
    PROVE  Same(my, my')
<1>. DEFINE m1 == [my EXCEPT ![p].ok = FALSE]
            m2 == [m1 EXCEPT ![p].snap = {}]
            m3 == [m2 EXCEPT ![p].hit = {}]
            m4 == [m3 EXCEPT ![p].miss = {}]
            m5 == [m4 EXCEPT ![p].fresh = {}]
            m6 == [m5 EXCEPT ![p].forget = {}]
<1>1. Same(my, m1)
  BY FieldType, SameMy
<1>2. Same(my, m6)
  <2>. HIDE DEF m1
  <2>1. Same(my, m2)
    BY <1>1, FieldType
  <2>. HIDE DEF m2
  <2>2. Same(my, m3)
    BY <2>1, FieldType
  <2>. HIDE DEF m3
  <2>3. Same(my, m4)
    BY <2>2, FieldType
  <2>. HIDE DEF m4
  <2>4. Same(my, m5)
    BY <2>3, FieldType
  <2>. HIDE DEF m5
  <2>. QED  BY <2>4, FieldType
<1>3. my' = m6
  BY DEF Failed
<1>. QED  BY <1>2, <1>3

LEMMA JudgedType ==
    ASSUME TypeOK, NEW p \in Pollers, NEW hit \in SUBSET Jobs, NEW miss \in SUBSET Jobs,
           NEW fresh \in SUBSET Jobs, NEW forget \in SUBSET Jobs, Judged(p, hit, miss, fresh, forget)
    PROVE  Same(my, my')
<1>. DEFINE m1 == [my EXCEPT ![p].hit = hit]
            m2 == [m1 EXCEPT ![p].miss = miss]
            m3 == [m2 EXCEPT ![p].fresh = fresh]
            m4 == [m3 EXCEPT ![p].forget = forget]
<1>1. Same(my, m1)
  BY FieldType, SameMy
<1>2. Same(my, m4)
  <2>. HIDE DEF m1
  <2>1. Same(my, m2)
    BY <1>1, FieldType
  <2>. HIDE DEF m2
  <2>2. Same(my, m3)
    BY <2>1, FieldType
  <2>. HIDE DEF m3
  <2>. QED  BY <2>2, FieldType
<1>3. my' = m4
  BY DEF Judged
<1>. QED  BY <1>2, <1>3

LEMMA GoType ==
    ASSUME TypeOK, NEW p \in Pollers, NEW from, NEW to \in Places, Go(p, from, to)
    PROVE  at' \in [Pollers -> Places]
BY DEF TypeOK, Go

LEMMA MissesType ==
    ASSUME TypeOK, NEW hit, NEW miss, Missed(hit, miss)
    PROVE  missed' \in [Jobs -> 0 .. CloseAfter]
<1>1. \A n \in 0 .. CloseAfter : Misses(n) \in 0 .. CloseAfter
  BY PollingAssumption DEF Misses
<1>. QED  BY <1>1, PollingAssumption DEF TypeOK, Missed

LEMMA LoadedType ==
    ASSUME TypeOK, NEW mode \in Modes, NEW c \in Claims \cup {None}
    PROVE  Loaded(mode, c) \in Locals
<1>1. failures \in 0 .. QuarantineAfter /\ quarantined \in BOOLEAN
      /\ empty \in {"never", "recent", "day"}
  BY DEF TypeOK
<1>. DEFINE r1 == [Nothing EXCEPT !.mode = mode]
            r2 == [r1 EXCEPT !.claim = c]
            r3 == [r2 EXCEPT !.failures = failures]
            r4 == [r3 EXCEPT !.quarantined = quarantined]
            r5 == [r4 EXCEPT !.empty = empty]
<1>2. r1 \in Locals
  BY NothingType DEF Locals
<1>3. r5 \in Locals
  <2>. HIDE DEF r1
  <2>1. r2 \in Locals
    BY <1>2 DEF Locals
  <2>. HIDE DEF r2
  <2>2. r3 \in Locals
    BY <1>1, <2>1 DEF Locals
  <2>. HIDE DEF r3
  <2>3. r4 \in Locals
    BY <1>1, <2>2 DEF Locals
  <2>. HIDE DEF r4
  <2>. QED  BY <1>1, <2>3 DEF Locals
<1>. QED  BY <1>3 DEF Loaded

LEMMA ClaimDueTypes ==
    ASSUME TypeOK, ClaimDue
    PROVE  TypeOK'
<1>. DEFINE free == Claims \ InUse
            drawn == CHOOSE d \in free : TRUE
<1>1. drawn \in Claims
  BY DEF ClaimDue
<1>2. /\ claim' = drawn /\ sending' = sending \cup {drawn} /\ old' = FALSE
      /\ UNCHANGED <<enabled, queued, age, failures, quarantined, empty, catalog, failing, queue,
                      world, bad, at, my>>
  BY DEF ClaimDue
<1>3. mishaps' \in 0 .. faults' /\ faults' \in 0 .. MaxFaults
  BY PollingAssumption DEF ClaimDue, Fault, TypeOK
<1>. HIDE DEF drawn
<1>. QED  BY <1>1, <1>2, <1>3 DEF TypeOK, catalog, world

LEMMA SendBatchTypes ==
    ASSUME TypeOK, NEW c \in Claims, SendBatch(c)
    PROVE  TypeOK'
BY PollingAssumption, NothingType
DEF TypeOK, Locals, Places, SendBatch, Fault, source, catalog, dispatch, world, mishap

LEMMA SendFailsTypes ==
    ASSUME TypeOK, NEW c \in Claims, SendFails(c)
    PROVE  TypeOK'
BY PollingAssumption, NothingType
DEF TypeOK, Locals, Places, SendFails, Fault, source, catalog, dispatch, world, mishap

LEMMA ReleaseTypes ==
    ASSUME TypeOK, NEW c \in Claims, Release(c)
    PROVE  TypeOK'
<1>1. claim' \in Claims \cup {None} /\ old' \in BOOLEAN
  BY DEF Release, Released, TypeOK
<1>2. failing' \subseteq Claims /\ mishaps' \in 0 .. faults' /\ faults' \in 0 .. MaxFaults
  BY PollingAssumption DEF Release, Fault, TypeOK
<1>3. UNCHANGED <<enabled, queued, age, failures, quarantined, empty, catalog, sending, queue,
                  world, bad, at, my>>
  BY DEF Release
<1>. QED  BY <1>1, <1>2, <1>3 DEF TypeOK, catalog, world

LEMMA DispatcherDiesTypes ==
    ASSUME TypeOK, NEW c \in Claims, DispatcherDies(c)
    PROVE  TypeOK'
BY PollingAssumption, NothingType
DEF TypeOK, Locals, Places, DispatcherDies, Fault, source, catalog, dispatch, world, mishap

LEMMA DeliverTypes ==
    ASSUME TypeOK, NEW p \in Pollers, NEW c \in Claims, Deliver(p, c)
    PROVE  TypeOK'
<1>1. Loaded("queue", c) \in Locals
  BY LoadedType DEF Deliver
<1>2. my' \in [Pollers -> Locals] /\ at' \in [Pollers -> Places]
  BY <1>1 DEF Deliver, TypeOK, Locals, Places
<1>3. mishaps' \in 0 .. faults' /\ faults' \in 0 .. MaxFaults
  BY PollingAssumption DEF Deliver, Fault, TypeOK
<1>4. UNCHANGED <<source, catalog, dispatch, world, bad>>
  BY DEF Deliver
<1>. QED  BY <1>2, <1>3, <1>4 DEF TypeOK, Locals, source, catalog, dispatch, world

LEMMA DropTypes ==
    ASSUME TypeOK, NEW p \in Pollers, Drop(p)
    PROVE  TypeOK'
BY PollingAssumption, NothingType
DEF TypeOK, Locals, Places, Drop, Fault, source, catalog, dispatch, world, mishap, Go, Released

LEMMA StartCronTypes ==
    ASSUME TypeOK, NEW p \in Pollers, StartCron(p)
    PROVE  TypeOK'
BY PollingAssumption, NothingType
DEF TypeOK, Locals, Places, StartCron, Fault, source, catalog, dispatch, world, mishap, Running, Loaded, Nothing

LEMMA StartAdminTypes ==
    ASSUME TypeOK, NEW p \in Pollers, StartAdmin(p)
    PROVE  TypeOK'
<1>1. Loaded("admin", None) \in Locals
  BY LoadedType DEF StartAdmin
<1>2. my' \in [Pollers -> Locals] /\ at' \in [Pollers -> Places]
  BY <1>1 DEF StartAdmin, TypeOK, Locals, Places
<1>3. changes' \in 0 .. MaxChanges
  BY PollingAssumption DEF StartAdmin, TypeOK
<1>4. UNCHANGED <<source, catalog, dispatch, kind, board, left, mishap>>
  BY DEF StartAdmin
<1>. QED  BY <1>2, <1>3, <1>4 DEF TypeOK, Locals, source, catalog, dispatch, mishap

LEMMA FetchTypes ==
    ASSUME TypeOK, NEW p \in Pollers, Fetch(p)
    PROVE  TypeOK' /\ Same(my, my')
<1>1. at' \in [Pollers -> Places]
  BY GoType DEF Fetch, Places
<1>2. Same(my, my')
  <2>1. CASE Failed(p)
    BY <2>1, FailedType
  <2>2. ASSUME NEW S \in SUBSET Jobs, my' = [my EXCEPT ![p].snap = S]  PROVE Same(my, my')
    BY <2>2, SameMy, FieldType
  <2>3. board \in SUBSET Jobs /\ \A S \in SUBSET board : S \in SUBSET Jobs
    BY DEF TypeOK
  <2>. QED  BY <2>1, <2>2, <2>3 DEF Fetch
<1>3. faults' \in 0 .. MaxFaults /\ mishaps' \in 0 .. faults' /\ bad' \in Nat
  BY PollingAssumption DEF Fetch, Fault, mishap, TypeOK
<1>4. UNCHANGED <<source, catalog, dispatch, world>>
  BY DEF Fetch
<1>. QED  BY <1>1, <1>2, <1>3, <1>4 DEF TypeOK, Same, Locals, source, catalog, dispatch, world

LEMMA ReadReferencesTypes ==
    ASSUME TypeOK, NEW p \in Pollers, ReadReferences(p)
    PROVE  TypeOK' /\ Same(my, my')
<1>1. at' \in [Pollers -> Places]
  BY GoType DEF ReadReferences, Places
<1>2. Same(my, my')
  <2>1. CASE Failed(p)
    BY <2>1, FailedType
  <2>2. CASE ~Failed(p)
    <3>. DEFINE snap == my[p].snap
    <3>1. snap \in SUBSET Jobs /\ Open \in SUBSET Jobs /\ ledger \in SUBSET Jobs
      BY DEF TypeOK, Open
    <3>2. Judged(p, {j \in snap \cap Known : missed[j] # 0}, Open \ snap, snap \ (Known \cup ledger),
                 ledger \ snap)
      BY <2>2 DEF ReadReferences
    <3>. QED  BY <3>1, <3>2, JudgedType
  <2>. QED  BY <2>1, <2>2
<1>3. UNCHANGED <<source, catalog, dispatch, world, mishap>>
  BY DEF ReadReferences
<1>. QED  BY <1>1, <1>2, <1>3 DEF TypeOK, Same, Locals, source, catalog, dispatch, world, mishap

LEMMA ReadListingsTypes ==
    ASSUME TypeOK, NEW p \in Pollers, ReadListings(p)
    PROVE  TypeOK' /\ Same(my, my')
<1>1. at' \in [Pollers -> Places]
  BY GoType DEF ReadListings, Places
<1>2. Same(my, my')
  <2>1. CASE Failed(p)
    BY <2>1, FailedType
  <2>2. CASE ~Failed(p)
    <3>. DEFINE snap == my[p].snap
    <3>1. snap \in SUBSET Jobs /\ Known \in SUBSET Jobs
      BY DEF TypeOK, Known
    <3>2. PICK miss \in {{}, Known \ snap} : Judged(p, snap \cap Known, miss, snap \ Known, {})
      BY <2>2 DEF ReadListings
    <3>. QED  BY <3>1, <3>2, JudgedType
  <2>. QED  BY <2>1, <2>2
<1>3. UNCHANGED <<source, catalog, dispatch, world, mishap>>
  BY DEF ReadListings
<1>. QED  BY <1>1, <1>2, <1>3 DEF TypeOK, Same, Locals, source, catalog, dispatch, world, mishap

LEMMA NoteEmptyTypes ==
    ASSUME TypeOK, NEW p \in Pollers, NoteEmpty(p)
    PROVE  TypeOK'
BY PollingAssumption, NothingType
DEF TypeOK, Locals, Places, NoteEmpty, Fault, source, catalog, dispatch, world, mishap, Empty, Go

LEMMA ClearEmptyTypes ==
    ASSUME TypeOK, NEW p \in Pollers, ClearEmpty(p)
    PROVE  TypeOK'
BY PollingAssumption, NothingType
DEF TypeOK, Locals, Places, ClearEmpty, Fault, source, catalog, dispatch, world, mishap, Empty, Go

LEMMA ApplyListingsTypes ==
    ASSUME TypeOK, NEW p \in Pollers, ApplyListings(p)
    PROVE  TypeOK' /\ Same(my, my')
<1>1. at' \in [Pollers -> Places]
  BY GoType DEF ApplyListings, Places
<1>2. Same(my, my')
  <2>. DEFINE m1 == [my EXCEPT ![p].snap = {}]
              m2 == [m1 EXCEPT ![p].hit = {}]
              m3 == [m2 EXCEPT ![p].miss = {}]
  <2>1. Same(my, m1)
    BY FieldType, SameMy
  <2>2. Same(my, m3)
    <3>. HIDE DEF m1
    <3>1. Same(my, m2)
      BY <2>1, FieldType
    <3>. HIDE DEF m2
    <3>. QED  BY <3>1, FieldType
  <2>. QED  BY <2>2 DEF ApplyListings
<1>3. missed' \in [Jobs -> 0 .. CloseAfter]
  BY MissesType DEF ApplyListings
<1>4. row' \in [Jobs -> {"none", "open", "closed"}]
  BY DEF ApplyListings, TypeOK
<1>5. UNCHANGED <<source, ledger, dispatch, world, mishap>>
  BY DEF ApplyListings
<1>. QED  BY <1>1, <1>2, <1>3, <1>4, <1>5 DEF TypeOK, Same, Locals, source, dispatch, world, mishap

LEMMA ReconcileTypes ==
    ASSUME TypeOK, NEW p \in Pollers, Reconcile(p)
    PROVE  TypeOK' /\ Same(my, my')
<1>1. at' \in [Pollers -> Places]
  BY GoType DEF Reconcile, Places
<1>2. Same(my, my')
  <2>. DEFINE m1 == [my EXCEPT ![p].hit = {}]
              m2 == [m1 EXCEPT ![p].miss = {}]
              m3 == [m2 EXCEPT ![p].forget = {}]
  <2>1. Same(my, m1)
    BY FieldType, SameMy
  <2>2. Same(my, m3)
    <3>. HIDE DEF m1
    <3>1. Same(my, m2)
      BY <2>1, FieldType
    <3>. HIDE DEF m2
    <3>. QED  BY <3>1, FieldType
  <2>. QED  BY <2>2 DEF Reconcile
<1>3. missed' \in [Jobs -> 0 .. CloseAfter]
  BY MissesType DEF Reconcile
<1>4. row' \in [Jobs -> {"none", "open", "closed"}] /\ ledger' \subseteq Jobs
  BY DEF Reconcile, TypeOK
<1>5. UNCHANGED <<source, dispatch, world, mishap>>
  BY DEF Reconcile
<1>. QED  BY <1>1, <1>2, <1>3, <1>4, <1>5 DEF TypeOK, Same, Locals, source, dispatch, world, mishap

LEMMA PersistTypes ==
    ASSUME TypeOK, NEW p \in Pollers, Persist(p)
    PROVE  TypeOK' /\ Same(my, my')
<1>1. at' \in [Pollers -> Places]
  BY DEF Persist, Go, TypeOK, Places
<1>2. Same(my, my')
  <2>1. CASE Failed(p)
    BY <2>1, FailedType
  <2>2. CASE my' = [my EXCEPT ![p].snap = {}, ![p].fresh = {}]
    <3>. DEFINE m1 == [my EXCEPT ![p].snap = {}]
    <3>1. Same(my, m1)
      BY FieldType, SameMy
    <3>. HIDE DEF m1
    <3>2. Same(my, [m1 EXCEPT ![p].fresh = {}])
      BY <3>1, FieldType
    <3>. QED  BY <2>2, <3>2 DEF m1
  <2>. QED  BY <2>1, <2>2 DEF Persist
<1>3. /\ row' \in [Jobs -> {"none", "open", "closed"}] /\ missed' \in [Jobs -> 0 .. CloseAfter]
      /\ ledger' \subseteq Jobs
  BY PollingAssumption DEF Persist, TypeOK, Locals, catalog
<1>4. UNCHANGED <<source, dispatch, world, mishap>>
  BY DEF Persist
<1>. QED  BY <1>1, <1>2, <1>3, <1>4 DEF TypeOK, Same, Locals, source, dispatch, world, mishap

LEMMA RecordQueueTypes ==
    ASSUME TypeOK, NEW p \in Pollers, RecordQueue(p)
    PROVE  TypeOK'
BY PollingAssumption, NothingType
DEF TypeOK, Locals, Places, RecordQueue, Fault, source, catalog, dispatch, world, mishap, Go, Outcome, Streak, Released

LEMMA RecordCronTypes ==
    ASSUME TypeOK, NEW p \in Pollers, RecordCron(p)
    PROVE  TypeOK'
BY PollingAssumption, NothingType
DEF TypeOK, Locals, Places, RecordCron, Fault, source, catalog, dispatch, world, mishap, Outcome, Streak, Ends

LEMMA RecordAdminTypes ==
    ASSUME TypeOK, NEW p \in Pollers, RecordAdmin(p)
    PROVE  TypeOK'
BY PollingAssumption, NothingType
DEF TypeOK, Locals, Places, RecordAdmin, Fault, source, catalog, dispatch, world, mishap, Ends

LEMMA AckTypes ==
    ASSUME TypeOK, NEW p \in Pollers, Ack(p)
    PROVE  TypeOK'
BY PollingAssumption, NothingType
DEF TypeOK, Locals, Places, Ack, Fault, source, catalog, dispatch, world, mishap, Ends

LEMMA DieTypes ==
    ASSUME TypeOK, NEW p \in Pollers, Die(p)
    PROVE  TypeOK'
BY PollingAssumption, NothingType
DEF TypeOK, Locals, Places, Die, Fault, source, catalog, dispatch, world, mishap, Ends, Running

LEMMA TimeTypes ==
    ASSUME TypeOK, ClaimExpires \/ CadencePasses \/ DayPasses
    PROVE  TypeOK'
<1>1. CASE ClaimExpires
  BY <1>1 DEF TypeOK, Locals, ClaimExpires, catalog, dispatch, world, mishap
<1>2. CASE CadencePasses
  <2>1. \A p \in Pollers : [my[p] EXCEPT !.age = 1] \in Locals
    BY DEF TypeOK, Locals
  <2>2. my' \in [Pollers -> Locals]
    BY <1>2, <2>1 DEF TypeOK, Locals, CadencePasses
  <2>3. age' = 1
    BY <1>2 DEF CadencePasses
  <2>4. UNCHANGED <<enabled, queued, claim, old, failures, quarantined, empty, catalog, dispatch,
                    world, mishap, at>>
    BY <1>2 DEF CadencePasses
  <2>. QED  BY <2>2, <2>3, <2>4 DEF TypeOK, Locals, catalog, dispatch, world, mishap
<1>3. CASE DayPasses
  BY <1>3 DEF TypeOK, Locals, DayPasses, catalog, dispatch, world, mishap
<1>. QED  BY <1>1, <1>2, <1>3

LEMMA SettingTypes ==
    ASSUME TypeOK, Toggle \/ MoveTier
    PROVE  TypeOK'
<1>1. enabled' \in BOOLEAN /\ queued' \in BOOLEAN
  BY DEF TypeOK, Toggle, MoveTier
<1>2. changes' \in 0 .. MaxChanges
  BY PollingAssumption DEF TypeOK, Toggle, MoveTier, Change
<1>3. UNCHANGED <<claim, old, age, failures, quarantined, empty, catalog, dispatch, kind, board,
                  left, mishap, at, my>>
  BY DEF Toggle, MoveTier
<1>. QED  BY <1>1, <1>2, <1>3 DEF TypeOK, catalog, dispatch, mishap

LEMMA BoardTypes ==
    ASSUME TypeOK, BoardChanges
    PROVE  TypeOK'
<1>1. Cardinality({p \in Pollers : Answered(p)}) \in Nat
  BY PollingAssumption, FS_Subset, FS_CardinalityType
<1>. QED  BY <1>1, PollingAssumption
          DEF TypeOK, Locals, BoardChanges, Change, source, catalog, dispatch, world, mishap

LEMMA PurgeTypes ==
    ASSUME TypeOK, NEW j \in Jobs, Purge(j)
    PROVE  TypeOK'
BY PollingAssumption DEF TypeOK, Purge, source, catalog, dispatch, world, mishap

-----------------------------------------------------------------------------
(* Counting the polls.                                                     *)

LEMMA Sizes ==
    ASSUME TypeOK
    PROVE  /\ IsFiniteSet(Holding) /\ Cardinality(Holding) \in Nat
           /\ IsFiniteSet(Behind) /\ Cardinality(Behind) \in Nat
           /\ mishaps \in Nat /\ Credit \in {0, 1}
<1>1. IsFiniteSet(Holding)
  BY PollingAssumption, FS_Subset DEF Holding
<1>2. IsFiniteSet(Behind)
  BY <1>1, FS_Subset DEF Behind
<1>3. mishaps \in Nat
  BY PollingAssumption DEF TypeOK
<1>. QED  BY <1>1, <1>2, <1>3, FS_CardinalityType DEF Credit

LEMMA Fewer ==
    ASSUME TypeOK, Counted, TypeOK', mishaps' >= mishaps,
           Holding' \subseteq Holding, Behind' \subseteq Behind, Doubtful' => Doubtful
    PROVE  Counted'
<1>1. Cardinality(Holding') <= Cardinality(Holding) /\ Cardinality(Holding') \in Nat
  BY Sizes, FS_Subset, FS_CardinalityType
<1>2. Cardinality(Behind') <= Cardinality(Behind) /\ Cardinality(Behind') \in Nat
  BY Sizes, FS_Subset, FS_CardinalityType
<1>3. Credit' <= Credit /\ Credit' \in {0, 1}
  BY DEF Credit
<1>4. mishaps' \in Nat
  BY PollingAssumption DEF TypeOK
<1>. QED  BY <1>1, <1>2, <1>3, <1>4, Sizes DEF Counted

(* The source's claim stays, and no poll begins. *)
LEMMA CountKept ==
    ASSUME TypeOK, Counted, TypeOK', mishaps' >= mishaps,
           claim' = claim, failing' \subseteq failing, queue' \subseteq queue,
           \A q \in Pollers : q \in Holding' => q \in Holding /\ my'[q].claim = my[q].claim
    PROVE  Counted'
<1>1. Holding' \subseteq Holding
  BY DEF Holding
<1>2. Behind' \subseteq Behind
  BY DEF Behind, Holding
<1>3. Doubtful' => Doubtful
  BY <1>1 DEF Doubtful, Behind, Holding
<1>. QED  BY <1>1, <1>2, <1>3, Fewer

LEMMA ClaimsKept ==
    ASSUME Claiming, claim' = claim, old' => old,
           sending' \subseteq sending, failing' \subseteq failing, queue' \subseteq queue,
           \A q \in Pollers :
             \/ my'[q].mode = my[q].mode /\ my'[q].claim = my[q].claim
             \/ my'[q].mode # "queue" /\ my'[q].claim = None
    PROVE  Claiming'
BY DEF Claiming

(* A poll's own step, or one that is none of the dispatch's business. *)
LEMMA Quiet ==
    ASSUME IInv, TypeOK', UNCHANGED <<claim, old, dispatch>>, mishaps' >= mishaps,
           \A q \in Pollers : my'[q].mode = my[q].mode /\ my'[q].claim = my[q].claim,
           \A q \in Pollers : at'[q] \notin {"off", "ack"} => at[q] \notin {"off", "ack"}
    PROVE  IInv'
<1>1. Claiming'
  BY ClaimsKept DEF IInv, dispatch
<1>2. \A q \in Pollers : q \in Holding' => q \in Holding /\ my'[q].claim = my[q].claim
  BY DEF Holding
<1>3. Counted'
  BY <1>2, CountKept DEF IInv, dispatch
<1>. QED  BY <1>1, <1>3 DEF IInv

LEMMA Later == ASSUME TypeOK, mishaps' \in {mishaps, mishaps + 1}  PROVE mishaps' >= mishaps
BY Sizes

(* What a poll does between its fetch and its report. *)
LEMMA StepKeeps ==
    ASSUME IInv, TypeOK', NEW p \in Pollers, Same(my, my'), at[p] \notin {"off", "ack"},
           \A q \in Pollers \ {p} : at'[q] = at[q], UNCHANGED <<claim, old, dispatch, mishaps>>
    PROVE  IInv'
BY Quiet, Later DEF Same, IInv

LEMMA WorkKeeps ==
    ASSUME IInv, NEW p \in Pollers,
           \/ Fetch(p) \/ ReadReferences(p) \/ ReadListings(p) \/ NoteEmpty(p) \/ ClearEmpty(p)
           \/ ApplyListings(p) \/ Persist(p) \/ Reconcile(p)
    PROVE  IInv'
<1>1. CASE Fetch(p)
  BY <1>1, FetchTypes, StepKeeps DEF IInv, TypeOK, Fetch, Go, source, mishap
<1>2. CASE ReadReferences(p)
  BY <1>2, ReadReferencesTypes, StepKeeps DEF IInv, TypeOK, ReadReferences, Go, source, mishap
<1>3. CASE ReadListings(p)
  BY <1>3, ReadListingsTypes, StepKeeps DEF IInv, TypeOK, ReadListings, Go, source, mishap
<1>4. CASE NoteEmpty(p)
  BY <1>4, NoteEmptyTypes, SameMy, StepKeeps DEF IInv, TypeOK, NoteEmpty, Empty, Go, mishap
<1>5. CASE ClearEmpty(p)
  BY <1>5, ClearEmptyTypes, SameMy, StepKeeps DEF IInv, TypeOK, ClearEmpty, Empty, Go, mishap
<1>6. CASE ApplyListings(p)
  BY <1>6, ApplyListingsTypes, StepKeeps DEF IInv, TypeOK, ApplyListings, Go, source, mishap
<1>7. CASE Persist(p)
  BY <1>7, PersistTypes, StepKeeps DEF IInv, TypeOK, Persist, Go, source, mishap
<1>8. CASE Reconcile(p)
  BY <1>8, ReconcileTypes, StepKeeps DEF IInv, TypeOK, Reconcile, Go, source, mishap
<1>. QED  BY <1>1, <1>2, <1>3, <1>4, <1>5, <1>6, <1>7, <1>8

-----------------------------------------------------------------------------
(* The dispatcher.                                                         *)

LEMMA ClaimDueKeeps ==
    ASSUME IInv, ClaimDue
    PROVE  IInv'
<1>. DEFINE free == Claims \ InUse
            drawn == CHOOSE d \in free : TRUE
<1>1. drawn \in Claims /\ drawn \notin InUse
  BY DEF ClaimDue
<1>2. /\ claim' = drawn /\ sending' = sending \cup {drawn} /\ ~old'
      /\ UNCHANGED <<failing, queue, at, my>>
  BY DEF ClaimDue
<1>3. TypeOK'
  BY ClaimDueTypes DEF IInv
<1>. HIDE DEF drawn
<1>4. Claiming'
  BY <1>1, <1>2, PollingAssumption DEF IInv, Claiming, InUse
<1>5. Holding' = Holding /\ Behind' \subseteq Holding
  BY <1>2 DEF Holding, Behind
<1>6. ~Doubtful'
  BY <1>1, <1>2 DEF Doubtful, InUse
<1>7. mishaps \in Nat /\ Cardinality(Holding) \in Nat /\ Credit \in {0, 1}
  BY Sizes DEF IInv
<1>8. Cardinality(Behind') <= Cardinality(Holding) /\ Cardinality(Behind') \in Nat
  BY <1>5, Sizes, FS_Subset, FS_CardinalityType DEF IInv
<1>9. Cardinality(Holding) <= mishaps'
  <2>1. CASE claim # None /\ \E p \in Pollers : my[p].claim = claim
    BY <2>1, <1>7 DEF ClaimDue, IInv, Counted
  <2>2. CASE ~(claim # None /\ \E p \in Pollers : my[p].claim = claim)
    <3>1. Behind = Holding
      BY <2>2 DEF IInv, Claiming, Behind, Holding
    <3>2. mishaps' = mishaps
      BY <2>2 DEF ClaimDue
    <3>. QED  BY <3>1, <3>2, <1>7 DEF IInv, Counted
  <2>. QED  BY <2>1, <2>2
<1>10. mishaps' \in Nat
  BY <1>3, PollingAssumption DEF TypeOK
<1>11. Counted'
  BY <1>5, <1>6, <1>7, <1>8, <1>9, <1>10 DEF Counted, Credit
<1>. QED  BY <1>3, <1>4, <1>11 DEF IInv

LEMMA SendBatchKeeps ==
    ASSUME IInv, NEW c \in Claims, SendBatch(c)
    PROVE  IInv'
<1>1. TypeOK'
  BY SendBatchTypes DEF IInv
<1>2. Claiming'
  BY PollingAssumption DEF IInv, Claiming, SendBatch, source
<1>3. Holding' = Holding /\ Behind' = Behind
  BY DEF SendBatch, source, Holding, Behind
<1>4. Doubtful' => Doubtful
  BY <1>3 DEF SendBatch, source, Doubtful, IInv, Claiming
<1>5. mishaps' >= mishaps
  BY Later DEF SendBatch, mishap, IInv
<1>. QED  BY <1>1, <1>2, <1>3, <1>4, <1>5, Fewer DEF IInv

LEMMA SendFailsKeeps ==
    ASSUME IInv, NEW c \in Claims, SendFails(c)
    PROVE  IInv'
<1>1. TypeOK'
  BY SendFailsTypes DEF IInv
<1>2. Claiming'
  BY PollingAssumption DEF IInv, Claiming, SendFails, source
<1>3. Holding' = Holding /\ Behind' = Behind
  BY DEF SendFails, source, Holding, Behind
<1>4. CASE queue' = queue /\ UNCHANGED mishaps
  <2>1. Doubtful' => Doubtful
    BY <1>3, <1>4 DEF SendFails, source, Doubtful, IInv, Claiming, Behind, Holding
  <2>. QED  BY <1>1, <1>2, <1>3, <1>4, <2>1, Later, Fewer DEF IInv
<1>5. CASE mishaps' = mishaps + 1
  <2>1. Credit' \in {0, 1}
    BY DEF Credit
  <2>2. Counted'
    BY <1>3, <1>5, <2>1, Sizes DEF IInv, Counted
  <2>. QED  BY <1>1, <1>2, <2>2 DEF IInv
<1>. QED  BY <1>4, <1>5 DEF SendFails

(* The claim is given up: every poll under way is behind from now on. *)
LEMMA GivenUp ==
    ASSUME IInv, TypeOK', claim' = None, failing' \subseteq failing,
           mishaps' = mishaps, Holding' \subseteq Holding,
           \/ Holding' # Holding
           \/ Doubtful
           \/ Behind = Holding
    PROVE  Counted'
<1>1. ~Doubtful'
  BY DEF IInv, Claiming, Doubtful
<1>2. Behind' \subseteq Holding'
  BY DEF Behind
<1>3. Cardinality(Holding') <= Cardinality(Holding) /\ IsFiniteSet(Holding')
      /\ Cardinality(Holding') \in Nat
  BY Sizes, FS_Subset, FS_CardinalityType DEF IInv
<1>4. Cardinality(Behind') <= Cardinality(Holding') /\ Cardinality(Behind') \in Nat
  BY <1>2, <1>3, FS_Subset, FS_CardinalityType
<1>5. Cardinality(Holding') <= mishaps
  <2>1. CASE Holding' # Holding
    <3>1. PICK q \in Holding : q \notin Holding'
      BY <2>1
    <3>2. Cardinality(Holding \ {q}) = Cardinality(Holding) - 1 /\ IsFiniteSet(Holding \ {q})
      BY <3>1, Sizes, FS_RemoveElement DEF IInv
    <3>3. Holding' \subseteq Holding \ {q}
      BY <3>1
    <3>4. Cardinality(Holding') <= Cardinality(Holding \ {q})
      BY <3>2, <3>3, FS_Subset
    <3>. QED  BY <1>3, <3>2, <3>4, Sizes DEF IInv, Counted
  <2>2. CASE Doubtful
    BY <2>2, <1>3, Sizes DEF IInv, Counted, Credit
  <2>3. CASE Behind = Holding
    BY <2>3, <1>3, Sizes DEF IInv, Counted, Credit
  <2>. QED  BY <2>1, <2>2, <2>3
<1>. QED  BY <1>1, <1>3, <1>4, <1>5, Sizes DEF IInv, Counted, Credit

LEMMA ReleaseKeeps ==
    ASSUME IInv, NEW c \in Claims, Release(c)
    PROVE  IInv'
<1>1. TypeOK'
  BY ReleaseTypes DEF IInv
<1>2. Claiming'
  <2>1. CASE claim' = claim
    <3>1. old' => old
      BY DEF Release, Released
    <3>. QED  BY <2>1, <3>1, ClaimsKept DEF IInv, Release
  <2>2. CASE claim' # claim
    <3>1. ~old' /\ UNCHANGED <<sending, queue, my>> /\ failing' = failing \ {c}
      BY <2>2 DEF Release, Released
    <3>. QED  BY <3>1 DEF IInv, Claiming
  <2>. QED  BY <2>1, <2>2
<1>3. Holding' = Holding
  BY DEF Release, Holding
<1>4. mishaps' = mishaps /\ failing' \subseteq failing /\ queue' = queue
  BY DEF Release
<1>5. CASE claim' = claim
  <2>1. \A q \in Pollers : my'[q].claim = my[q].claim
    BY DEF Release
  <2>. QED  BY <1>1, <1>2, <1>3, <1>4, <1>5, <2>1, Later, CountKept DEF IInv
<1>6. CASE claim' # claim
  <2>1. claim' = None /\ claim = c
    BY <1>6 DEF Release, Released
  <2>2. Doubtful \/ Behind = Holding
    BY <2>1 DEF Release, Doubtful
  <2>. QED  BY <1>1, <1>2, <1>3, <1>4, <2>1, <2>2, GivenUp DEF IInv
<1>. QED  BY <1>5, <1>6

LEMMA DispatcherDiesKeeps ==
    ASSUME IInv, NEW c \in Claims, DispatcherDies(c)
    PROVE  IInv'
<1>1. TypeOK'
  BY DispatcherDiesTypes DEF IInv
<1>2. Claiming'
  BY ClaimsKept DEF IInv, DispatcherDies, source
<1>3. \A q \in Pollers : q \in Holding' => q \in Holding /\ my'[q].claim = my[q].claim
  BY DEF DispatcherDies, Holding
<1>. QED  BY <1>1, <1>2, <1>3, Later, CountKept DEF IInv, DispatcherDies, source

-----------------------------------------------------------------------------
(* The pollers.                                                            *)

LEMMA LoadedHands ==
    ASSUME TypeOK, NEW mode \in Modes, NEW c \in Claims \cup {None}
    PROVE  Loaded(mode, c).mode = mode /\ Loaded(mode, c).claim = c
BY DEF Loaded, Nothing

LEMMA NothingHands == Nothing.mode = "none" /\ Nothing.claim = None
BY DEF Nothing

LEMMA DeliverKeeps ==
    ASSUME IInv, NEW p \in Pollers, NEW c \in Claims, Deliver(p, c)
    PROVE  IInv'
<1>1. TypeOK'
  BY DeliverTypes DEF IInv
<1>2. /\ at[p] = "off" /\ c \in queue /\ UNCHANGED <<claim, old, sending, failing, queue>>
      /\ my' = [my EXCEPT ![p] = Loaded("queue", c)]
      /\ at' = [at EXCEPT ![p] = IF StaleClaim(c) THEN "ack"
                                 ELSE IF ~enabled \/ ~queued THEN "drop" ELSE "fetch"]
  BY DEF Deliver, Running, source, dispatch
<1>3. /\ my'[p].mode = "queue" /\ my'[p].claim = c
      /\ \A q \in Pollers \ {p} : my'[q] = my[q] /\ at'[q] = at[q]
  BY <1>2, LoadedHands DEF IInv, TypeOK, Deliver
<1>4. Claiming'
  BY <1>2, <1>3 DEF IInv, Claiming
<1>5. mishaps' >= mishaps
  BY Later DEF Deliver, IInv
<1>6. CASE StaleClaim(c)
  <2>1. at'[p] = "ack"
    BY <1>2, <1>6 DEF IInv, TypeOK
  <2>2. \A q \in Pollers : q \in Holding' => q \in Holding /\ my'[q].claim = my[q].claim
    BY <1>3, <2>1 DEF Holding
  <2>. QED  BY <1>1, <1>2, <1>4, <1>5, <2>2, CountKept DEF IInv
<1>7. CASE ~StaleClaim(c)
  <2>1. at'[p] \in {"drop", "fetch"} /\ c = claim
    BY <1>2, <1>7 DEF IInv, TypeOK, StaleClaim
  <2>2. p \notin Holding /\ Holding' = Holding \cup {p}
    BY <1>2, <1>3, <2>1 DEF Holding
  <2>3. Behind' = Behind
    BY <1>2, <1>3, <2>1, <2>2 DEF Behind, Holding
  <2>4. Credit' = Credit
    BY <1>2, <2>1 DEF Credit, Doubtful
  <2>5. Cardinality(Holding') = Cardinality(Holding) + 1
    BY <2>2, Sizes, FS_AddElement DEF IInv
  <2>6. CASE mishaps' = mishaps + 1
    BY <2>3, <2>4, <2>5, <2>6, <1>1, <1>4, Sizes DEF IInv, Counted
  <2>7. CASE mishaps' # mishaps + 1
    <3>1. mishaps' = mishaps /\ Behind = Holding
      BY <2>1, <2>7 DEF Deliver, Behind, Holding
    <3>. QED  BY <2>3, <2>4, <2>5, <3>1, <1>1, <1>4, Sizes DEF IInv, Counted
  <2>. QED  BY <2>6, <2>7
<1>. QED  BY <1>6, <1>7

LEMMA StartKeeps ==
    ASSUME IInv, NEW p \in Pollers, NEW mode \in Modes \ {"queue"}, TypeOK', ~Running(p),
           at' = [at EXCEPT ![p] = "fetch"], my' = [my EXCEPT ![p] = Loaded(mode, None)],
           UNCHANGED <<source, dispatch, mishap>>
    PROVE  IInv'
<1>1. /\ my'[p].mode # "queue" /\ my'[p].claim = None
      /\ \A q \in Pollers \ {p} : my'[q] = my[q] /\ at'[q] = at[q]
  BY LoadedHands DEF IInv, TypeOK
<1>2. Claiming'
  BY <1>1, ClaimsKept DEF IInv, source, dispatch
<1>3. \A q \in Pollers : q \in Holding' => q \in Holding /\ my'[q].claim = my[q].claim
  BY <1>1 DEF Holding
<1>. QED  BY <1>2, <1>3, CountKept, Later DEF IInv, source, dispatch, mishap

(* A poll that ends is held no more. *)
LEMMA EndsKeeps ==
    ASSUME IInv, NEW p \in Pollers, TypeOK', Ends(p), UNCHANGED <<claim, old, sending, failing>>,
           queue' \subseteq queue, mishaps' = mishaps
    PROVE  IInv'
<1>1. /\ my'[p].mode = "none" /\ my'[p].claim = None /\ at'[p] = "off"
      /\ \A q \in Pollers \ {p} : my'[q] = my[q] /\ at'[q] = at[q]
  BY NothingHands DEF IInv, TypeOK, Ends
<1>2. Claiming'
  BY <1>1, ClaimsKept DEF IInv
<1>3. \A q \in Pollers : q \in Holding' => q \in Holding /\ my'[q].claim = my[q].claim
  BY <1>1 DEF Holding
<1>. QED  BY <1>2, <1>3, CountKept, Later DEF IInv

(* A poll of a message reports, or drops it, and gives up its claim. *)
LEMMA ReportKeeps ==
    ASSUME IInv, NEW p \in Pollers, TypeOK', at[p] \notin {"off", "ack"},
           at' = [at EXCEPT ![p] = "ack"], my' = my, Released(my[p].claim),
           UNCHANGED <<dispatch, mishaps>>
    PROVE  IInv'
<1>1. \A q \in Pollers \ {p} : at'[q] = at[q]
  BY DEF IInv, TypeOK
<1>2. at'[p] = "ack"
  BY DEF IInv, TypeOK
<1>3. Holding' = Holding \ {p}
  BY <1>1, <1>2 DEF Holding
<1>4. CASE claim' = claim
  <2>1. old' => old
    BY DEF Released
  <2>2. Claiming'
    BY <1>4, <2>1, ClaimsKept DEF IInv, dispatch
  <2>3. \A q \in Pollers : q \in Holding' => q \in Holding /\ my'[q].claim = my[q].claim
    BY <1>3
  <2>. QED  BY <1>4, <2>2, <2>3, CountKept, Later DEF IInv, dispatch
<1>5. CASE claim' # claim
  <2>1. claim' = None /\ claim = my[p].claim /\ ~old' /\ claim # None
    BY <1>5 DEF Released
  <2>2. Claiming'
    BY <2>1 DEF IInv, Claiming, dispatch
  <2>3. p \in Holding
    BY <2>1 DEF IInv, Claiming, Holding
  <2>. QED  BY <1>3, <2>1, <2>2, <2>3, GivenUp DEF IInv, dispatch
<1>. QED  BY <1>4, <1>5

LEMMA PollKeeps ==
    ASSUME IInv, NEW p \in Pollers, Poll(p)
    PROVE  IInv'
<1>1. CASE \/ Fetch(p) \/ ReadReferences(p) \/ ReadListings(p) \/ NoteEmpty(p) \/ ClearEmpty(p)
           \/ ApplyListings(p) \/ Persist(p) \/ Reconcile(p)
  BY <1>1, WorkKeeps
<1>2. CASE RecordQueue(p)
  BY <1>2, RecordQueueTypes, ReportKeeps DEF IInv, RecordQueue, Go, mishap
<1>3. CASE Drop(p)
  BY <1>3, DropTypes, ReportKeeps DEF IInv, Drop, Go, mishap
<1>4. CASE RecordCron(p)
  BY <1>4, RecordCronTypes, EndsKeeps DEF IInv, RecordCron, dispatch, mishap
<1>5. CASE RecordAdmin(p)
  BY <1>5, RecordAdminTypes, EndsKeeps DEF IInv, RecordAdmin, dispatch, mishap
<1>6. CASE Ack(p)
  BY <1>6, AckTypes, EndsKeeps DEF IInv, Ack, source, mishap
<1>. QED  BY <1>1, <1>2, <1>3, <1>4, <1>5, <1>6 DEF Poll

LEMMA DieKeeps ==
    ASSUME IInv, NEW p \in Pollers, Die(p)
    PROVE  IInv'
BY DieTypes, EndsKeeps DEF IInv, Die, source

LEMMA StartCronKeeps ==
    ASSUME IInv, NEW p \in Pollers, StartCron(p)
    PROVE  IInv'
<1>1. TypeOK'
  BY StartCronTypes DEF IInv
<1>2. "cron" \in Modes \ {"queue"} /\ ~Running(p)
  BY DEF StartCron
<1>3. /\ at' = [at EXCEPT ![p] = "fetch"] /\ my' = [my EXCEPT ![p] = Loaded("cron", None)]
      /\ UNCHANGED <<source, dispatch, mishap>>
  BY DEF StartCron
<1>. QED  BY <1>1, <1>2, <1>3, StartKeeps

LEMMA StartAdminKeeps ==
    ASSUME IInv, NEW p \in Pollers, StartAdmin(p)
    PROVE  IInv'
<1>1. TypeOK'
  BY StartAdminTypes DEF IInv
<1>2. "admin" \in Modes \ {"queue"} /\ ~Running(p)
  BY DEF StartAdmin
<1>3. /\ at' = [at EXCEPT ![p] = "fetch"] /\ my' = [my EXCEPT ![p] = Loaded("admin", None)]
      /\ UNCHANGED <<source, dispatch, mishap>>
  BY DEF StartAdmin
<1>. QED  BY <1>1, <1>2, <1>3, StartKeeps

-----------------------------------------------------------------------------
(* Time, the board and the settings.                                       *)

LEMMA TimeKeeps ==
    ASSUME IInv, ClaimExpires \/ CadencePasses \/ DayPasses
    PROVE  IInv'
<1>1. TypeOK'
  BY TimeTypes DEF IInv
<1>2. \A q \in Pollers : my'[q].mode = my[q].mode /\ my'[q].claim = my[q].claim
  BY DEF IInv, TypeOK, ClaimExpires, CadencePasses, DayPasses
<1>3. at' = at /\ mishaps' = mishaps /\ claim' = claim /\ UNCHANGED dispatch
  BY DEF ClaimExpires, CadencePasses, DayPasses, mishap
<1>4. Claiming'
  BY <1>2, <1>3 DEF IInv, Claiming, ClaimExpires, CadencePasses, DayPasses, dispatch
<1>5. \A q \in Pollers : q \in Holding' => q \in Holding /\ my'[q].claim = my[q].claim
  BY <1>2, <1>3 DEF Holding
<1>. QED  BY <1>1, <1>3, <1>4, <1>5, CountKept, Later DEF IInv, dispatch

LEMMA WorldKeeps ==
    ASSUME IInv, BoardChanges \/ Toggle \/ MoveTier \/ \E j \in Jobs : Purge(j)
    PROVE  IInv'
<1>1. TypeOK'
  BY BoardTypes, SettingTypes, PurgeTypes DEF IInv
<1>2. UNCHANGED <<claim, old, dispatch, at, my, mishaps>>
  BY DEF BoardChanges, Toggle, MoveTier, Purge, source, mishap
<1>. QED  BY <1>1, <1>2, Quiet, Later DEF IInv

-----------------------------------------------------------------------------
(* The theorem.                                                            *)

LEMMA InitHolds ==
    ASSUME Init
    PROVE  IInv
<1>1. TypeOK
  <2>1. my \in [Pollers -> Locals]
    BY NothingType DEF Init
  <2>2. /\ row \in [Jobs -> {"none", "open", "closed"}] /\ missed \in [Jobs -> 0 .. CloseAfter]
        /\ ledger \subseteq Jobs /\ at \in [Pollers -> Places]
    BY PollingAssumption DEF Init, Places
  <2>3. /\ failures \in 0 .. QuarantineAfter /\ faults \in 0 .. MaxFaults
        /\ mishaps \in 0 .. faults /\ changes \in 0 .. MaxChanges /\ bad \in Nat
    BY PollingAssumption DEF Init
  <2>4. /\ kind \in Kinds /\ board \in SUBSET Jobs /\ left = {} /\ age = 1
        /\ enabled = TRUE /\ old = FALSE /\ quarantined = FALSE /\ claim = None
        /\ empty = "never" /\ sending = {} /\ failing = {} /\ queue = {}
    BY ZenonT(30) DEF Init
  <2>6. enabled \in BOOLEAN /\ old \in BOOLEAN /\ quarantined \in BOOLEAN
    BY <2>4, Zenon
  <2>7. age \in 0 .. 2
    BY <2>4
  <2>8. /\ board \subseteq Jobs /\ left \subseteq Jobs /\ sending \subseteq Claims
        /\ failing \subseteq Claims /\ queue \subseteq Claims
    BY <2>4
  <2>9. claim \in Claims \cup {None} /\ empty \in {"never", "recent", "day"}
    BY <2>4
  <2>5. queued \in BOOLEAN
    <3>1. ("queue" \in Modes) \in BOOLEAN
      OBVIOUS
    <3>. QED  BY <3>1 DEF Init
  <2>. QED  BY <2>1, <2>2, <2>3, <2>4, <2>5, <2>6, <2>7, <2>8, <2>9 DEF TypeOK, Locals
<1>2. Claiming
  BY PollingAssumption, NothingHands DEF Init, Claiming
<1>3. Holding = {} /\ Behind = {}
  BY DEF Init, Holding, Behind
<1>4. Credit = 0
  BY DEF Init, Credit, Doubtful
<1>. QED  BY <1>1, <1>2, <1>3, <1>4, FS_EmptySet DEF IInv, Counted, Init

LEMMA StepHolds ==
    ASSUME IInv, [Next]_vars
    PROVE  IInv'
<1>1. CASE UNCHANGED vars
  <2>1. TypeOK'
    BY <1>1 DEF IInv, TypeOK, vars, source, catalog, dispatch, world, mishap
  <2>. QED  BY <1>1, <2>1, Quiet, Later DEF IInv, vars, source, mishap
<1>2. CASE Next
  <2>1. CASE ClaimDue
    BY <2>1, ClaimDueKeeps
  <2>2. CASE \E c \in Claims : SendBatch(c) \/ SendFails(c) \/ Release(c) \/ DispatcherDies(c)
    BY <2>2, SendBatchKeeps, SendFailsKeeps, ReleaseKeeps, DispatcherDiesKeeps
  <2>3. ASSUME NEW p \in Pollers,
               \/ \E c \in Claims : Deliver(p, c)
               \/ StartCron(p) \/ StartAdmin(p) \/ Poll(p) \/ Die(p)
        PROVE  IInv'
    BY <2>3, DeliverKeeps, StartCronKeeps, StartAdminKeeps, PollKeeps, DieKeeps
  <2>4. CASE ClaimExpires \/ CadencePasses \/ DayPasses
    BY <2>4, TimeKeeps
  <2>5. CASE BoardChanges \/ Toggle \/ MoveTier \/ \E j \in Jobs : Purge(j)
    BY <2>5, WorldKeeps
  <2>. QED  BY <1>2, <2>1, <2>2, <2>3, <2>4, <2>5 DEF Next
<1>. QED  BY <1>1, <1>2

(* The source, its jobs and what each poll holds stay well typed, though   *)
(* polls apply what they made of rows they read long ago; and every mishap *)
(* the code cannot see is charged to a fault.                              *)
THEOREM TypeCorrect == Spec => []TypeOK
<1>1. IInv => TypeOK
  BY DEF IInv
<1>. QED  BY <1>1, InitHolds, StepHolds, PTL DEF Spec

(* "Two overlapping dispatcher ticks can never both enqueue the same       *)
(* source", and a redelivered message does not poll it twice: whatever the *)
(* dispatcher, the queue and the consumers do, in any order, the source's  *)
(* messages are polled one at a time, but for one poll more after each     *)
(* mishap the code cannot see.                                             *)
THEOREM PolledOneAtATime == Spec => []OnePollAtATime
<1>1. Init => IInv
  BY InitHolds
<1>2. IInv /\ [Next]_vars => IInv'
  BY StepHolds
<1>3. IInv => OnePollAtATime
  <2>1. SUFFICES ASSUME IInv  PROVE OnePollAtATime
    OBVIOUS
  <2>2. Polling \subseteq Holding
    BY DEF Polling, Holding
  <2>3. Cardinality(Polling) <= Cardinality(Holding) /\ Cardinality(Polling) \in Nat
    BY <2>1, <2>2, Sizes, FS_Subset, FS_CardinalityType DEF IInv
  <2>. QED  BY <2>1, <2>3, Sizes DEF IInv, Counted, OnePollAtATime
<1>. QED  BY <1>1, <1>2, <1>3, PTL DEF Spec

-----------------------------------------------------------------------------
(* Whose answers lack a job the board lists.                               *)

(* Polls whose answer, not applied yet, lacks the job. *)
Lacking(j) ==
    {p \in Pollers : Answered(p) /\ IF at[p] = "read" THEN j \notin my[p].snap ELSE j \in my[p].miss}

(* What is in the catalog or in an answer was on the board. *)
Seen ==
    /\ \A p \in Pollers : my[p].snap \subseteq board \cup left /\ my[p].fresh \subseteq board \cup left
    /\ Known \subseteq board \cup left
    /\ \A j \in Jobs : missed[j] # 0 => row[j] # "none"

(* Each miss of a job that never left, counted or still to be applied, is  *)
(* an answer that lacked it.                                               *)
Blamed == \A j \in board \ left : missed[j] + Cardinality(Lacking(j)) <= bad

BInv == TypeOK /\ Seen /\ Blamed /\ OneBadAnswer

LEMMA FailedFields ==
    ASSUME TypeOK, NEW p \in Pollers, Failed(p)
    PROVE  /\ my'[p].snap = {} /\ my'[p].fresh = {}
           /\ \A q \in Pollers \ {p} : my'[q] = my[q]
BY DEF TypeOK, Failed, Locals

LEMMA JudgedFields ==
    ASSUME TypeOK, NEW p \in Pollers, NEW hit, NEW miss, NEW fresh, NEW forget,
           Judged(p, hit, miss, fresh, forget)
    PROVE  /\ my'[p].snap = my[p].snap /\ my'[p].hit = hit /\ my'[p].miss = miss
           /\ my'[p].fresh = fresh
           /\ \A q \in Pollers \ {p} : my'[q] = my[q]
BY DEF TypeOK, Judged

LEMMA LackingSize ==
    ASSUME NEW j
    PROVE  IsFiniteSet(Lacking(j)) /\ Cardinality(Lacking(j)) \in Nat
<1>1. IsFiniteSet(Lacking(j))
  BY PollingAssumption, FS_Subset DEF Lacking
<1>. QED  BY <1>1, FS_CardinalityType

(* Nothing but an answer is taken back, and nothing new is missed. *)
LEMMA BlameKept ==
    ASSUME BInv, TypeOK', UNCHANGED <<board, left, row, missed>>, bad' >= bad,
           \A q \in Pollers : my'[q].snap \subseteq board \cup left
                              /\ my'[q].fresh \subseteq board \cup left,
           \A j \in Jobs : Lacking(j)' \subseteq Lacking(j)
    PROVE  BInv'
<1>1. Seen'
  BY DEF BInv, Seen, Known
<1>2. Blamed'
  <2>1. SUFFICES ASSUME NEW j \in Jobs, j \in board \ left
                 PROVE  missed[j] + Cardinality(Lacking(j)') <= bad'
    BY DEF Blamed, BInv, TypeOK
  <2>2. Cardinality(Lacking(j)') <= Cardinality(Lacking(j)) /\ Cardinality(Lacking(j)') \in Nat
    BY LackingSize, FS_Subset, FS_CardinalityType
  <2>3. missed[j] \in Nat /\ bad \in Nat /\ bad' \in Nat
    BY PollingAssumption DEF BInv, TypeOK
  <2>. QED  BY <2>1, <2>2, <2>3, LackingSize DEF BInv, Blamed
<1>3. OneBadAnswer'
  <2>1. bad \in Nat /\ bad' \in Nat /\ CloseAfter \in Nat
    BY PollingAssumption DEF BInv, TypeOK
  <2>. QED  BY <2>1 DEF BInv, OneBadAnswer
<1>. QED  BY <1>1, <1>2, <1>3 DEF BInv

(* The same of one poll, the others as they were. *)
LEMMA OwnBlame ==
    ASSUME BInv, TypeOK', NEW p \in Pollers, UNCHANGED <<kind, board, left, row, missed>>, bad' >= bad,
           \A q \in Pollers \ {p} : my'[q] = my[q] /\ at'[q] = at[q],
           my'[p].snap \subseteq board \cup left /\ my'[p].fresh \subseteq board \cup left,
           \A j \in Jobs : p \in Lacking(j)' => p \in Lacking(j)
    PROVE  BInv'
<1>1. \A q \in Pollers : my'[q].snap \subseteq board \cup left
                         /\ my'[q].fresh \subseteq board \cup left
  BY DEF BInv, Seen
<1>2. \A j \in Jobs : Lacking(j)' \subseteq Lacking(j)
  BY DEF Lacking, Answered
<1>. QED  BY <1>1, <1>2, BlameKept

(* What a poll has in hand stays, and so does what is answered. *)
LEMMA HandsOff ==
    ASSUME BInv, TypeOK', UNCHANGED <<kind, board, left, row, missed, bad, at, my>>
    PROVE  BInv'
<1>1. bad' >= bad
  BY DEF BInv, TypeOK
<1>2. \A j \in Jobs : Lacking(j)' \subseteq Lacking(j)
  BY DEF Lacking, Answered
<1>. QED  BY <1>1, <1>2, BlameKept DEF BInv, Seen

LEMMA BadStays == ASSUME BInv, bad' \in {bad, bad + 1}  PROVE bad' >= bad
BY DEF BInv, TypeOK

LEMMA NothingFields == Nothing.snap = {} /\ Nothing.fresh = {}
BY DEF Nothing

(* A poll with nothing in hand. *)
LEMMA Blameless ==
    ASSUME BInv, TypeOK', NEW p \in Pollers, NEW to \in {"off", "drop", "fetch", "record", "ack"},
           UNCHANGED <<kind, board, left, row, missed, bad>>,
           at' = [at EXCEPT ![p] = to],
           my'[p].snap \subseteq board \cup left /\ my'[p].fresh \subseteq board \cup left,
           \A q \in Pollers \ {p} : my'[q] = my[q]
    PROVE  BInv'
<1>1. at'[p] = to /\ \A q \in Pollers \ {p} : at'[q] = at[q]
  BY DEF BInv, TypeOK
<1>2. \A j \in Jobs : p \notin Lacking(j)'
  BY <1>1 DEF Lacking, Answered
<1>. QED  BY <1>1, <1>2, BadStays, OwnBlame

LEMMA EndsBlame ==
    ASSUME BInv, TypeOK', NEW p \in Pollers, Ends(p), UNCHANGED <<kind, board, left, row, missed, bad>>
    PROVE  BInv'
<1>1. my'[p] = Nothing /\ \A q \in Pollers \ {p} : my'[q] = my[q]
  BY DEF BInv, TypeOK, Ends
<1>. QED  BY <1>1, NothingFields, Blameless DEF Ends

LEMMA LoadedBlame ==
    ASSUME BInv, TypeOK', NEW p \in Pollers, NEW mode, NEW c, NEW to \in {"drop", "fetch", "ack"},
           at' = [at EXCEPT ![p] = to], my' = [my EXCEPT ![p] = Loaded(mode, c)],
           UNCHANGED <<kind, board, left, row, missed, bad>>
    PROVE  BInv'
<1>1. Loaded(mode, c).snap = {} /\ Loaded(mode, c).fresh = {}
  BY DEF Loaded, Nothing
<1>2. my'[p] = Loaded(mode, c) /\ \A q \in Pollers \ {p} : my'[q] = my[q]
  BY DEF BInv, TypeOK
<1>. QED  BY <1>1, <1>2, Blameless

LEMMA StartBlame ==
    ASSUME BInv, TypeOK', NEW p \in Pollers,
           (\E c \in Claims : Deliver(p, c)) \/ StartCron(p) \/ StartAdmin(p)
    PROVE  BInv'
<1>1. ASSUME NEW c \in Claims, Deliver(p, c)  PROVE BInv'
  <2>1. PICK to \in {"drop", "fetch", "ack"} : at' = [at EXCEPT ![p] = to]
    BY <1>1 DEF Deliver
  <2>2. my' = [my EXCEPT ![p] = Loaded("queue", c)]
        /\ UNCHANGED <<kind, board, left, row, missed, bad>>
    BY <1>1 DEF Deliver, catalog, world
  <2>. QED  BY <2>1, <2>2, LoadedBlame
<1>2. CASE StartCron(p)
  BY <1>2, LoadedBlame DEF StartCron, catalog, world, mishap
<1>3. CASE StartAdmin(p)
  BY <1>3, LoadedBlame DEF StartAdmin, catalog, mishap
<1>. QED  BY <1>1, <1>2, <1>3

(* An answer that lacks what the board lists is a bad one. *)
LEMMA FetchBlame ==
    ASSUME BInv, TypeOK', NEW p \in Pollers, Fetch(p)
    PROVE  BInv'
<1>1. UNCHANGED <<kind, board, left, row, missed>> /\ at[p] = "fetch"
  BY DEF Fetch, Go, catalog, world
<1>2. CASE Go(p, "fetch", "record") /\ Failed(p) /\ bad' = bad
  BY <1>1, <1>2, FailedFields, Blameless DEF Go, BInv
<1>3. ASSUME NEW S \in SUBSET board, Go(p, "fetch", "read"), my' = [my EXCEPT ![p].snap = S],
             (bad' = bad /\ S = board) \/ bad' = bad + 1
      PROVE  BInv'
  <2>1. /\ my'[p].snap = S /\ my'[p].fresh = my[p].fresh /\ at'[p] = "read"
        /\ \A q \in Pollers \ {p} : my'[q] = my[q] /\ at'[q] = at[q]
    BY <1>3 DEF BInv, TypeOK, Locals, Go
  <2>2. Seen'
    BY <1>1, <2>1 DEF BInv, Seen, Known
  <2>3. OneBadAnswer'
    <3>1. bad' \in Nat /\ bad \in Nat /\ bad' >= bad /\ CloseAfter \in Nat
      BY <1>3, PollingAssumption DEF BInv, TypeOK
    <3>. QED  BY <1>1, <3>1 DEF BInv, OneBadAnswer
  <2>4. Blamed'
    <3>1. SUFFICES ASSUME NEW j \in Jobs, j \in board \ left
                   PROVE  missed[j] + Cardinality(Lacking(j)') <= bad'
      BY <1>1 DEF Blamed, BInv, TypeOK
    <3>2. missed[j] \in Nat /\ bad \in Nat /\ bad' \in Nat
          /\ missed[j] + Cardinality(Lacking(j)) <= bad
      BY <3>1, PollingAssumption DEF BInv, TypeOK, Blamed
    <3>3. p \notin Lacking(j)
      BY <1>1 DEF Lacking, Answered
    <3>4. Lacking(j)' = IF j \in S THEN Lacking(j) ELSE Lacking(j) \cup {p}
      BY <1>1, <2>1, <3>3 DEF Lacking, Answered
    <3>5. Cardinality(Lacking(j) \cup {p}) = Cardinality(Lacking(j)) + 1
      BY <3>3, LackingSize, FS_AddElement
    <3>. QED  BY <1>3, <3>1, <3>2, <3>4, <3>5, LackingSize
  <2>. QED  BY <2>2, <2>3, <2>4 DEF BInv
<1>. QED  BY <1>1, <1>2, <1>3 DEF Fetch, mishap

LEMMA ReadBlame ==
    ASSUME BInv, TypeOK', NEW p \in Pollers, ReadReferences(p) \/ ReadListings(p)
    PROVE  BInv'
<1>1. UNCHANGED <<kind, board, left, row, missed, bad>> /\ at[p] = "read"
  BY DEF ReadReferences, ReadListings, catalog, world, mishap
<1>2. ASSUME Failed(p), NEW to \in {"note", "record"}, Go(p, "read", to)  PROVE BInv'
  <2>1. my'[p].snap = {} /\ my'[p].fresh = {} /\ \A q \in Pollers \ {p} : my'[q] = my[q]
    BY <1>2, FailedFields DEF BInv
  <2>2. at'[p] = to /\ \A q \in Pollers \ {p} : at'[q] = at[q]
    BY <1>2 DEF BInv, TypeOK, Go
  <2>3. \A j \in Jobs : p \notin Lacking(j)'
    BY <1>2, <2>2 DEF Lacking, Answered
  <2>. QED  BY <1>1, <2>1, <2>2, <2>3, BadStays, OwnBlame
<1>3. ASSUME NEW to \in {"clear", "apply", "persist"}, Go(p, "read", to), NEW hit, NEW miss, NEW fresh,
             NEW forget, Judged(p, hit, miss, fresh, forget), fresh \subseteq my[p].snap,
             miss \cap my[p].snap = {}
      PROVE  BInv'
  <2>1. /\ my'[p].snap = my[p].snap /\ my'[p].fresh = fresh /\ my'[p].miss = miss
        /\ \A q \in Pollers \ {p} : my'[q] = my[q]
    BY <1>3, JudgedFields DEF BInv
  <2>2. at'[p] = to /\ \A q \in Pollers \ {p} : at'[q] = at[q]
    BY <1>3 DEF BInv, TypeOK, Go
  <2>3. my'[p].snap \subseteq board \cup left /\ my'[p].fresh \subseteq board \cup left
    BY <1>3, <2>1 DEF BInv, Seen
  <2>4. \A j \in Jobs : p \in Lacking(j)' => p \in Lacking(j)
    BY <1>1, <1>3, <2>1, <2>2 DEF Lacking, Answered
  <2>. QED  BY <1>1, <2>1, <2>2, <2>3, <2>4, BadStays, OwnBlame
<1>4. CASE ReadReferences(p)
  <2>. DEFINE snap == my[p].snap
              good == Trustworthy(Cardinality(snap), Larger(Cardinality(Open), Cardinality(ledger)))
  <2>1. CASE ~good
    BY <1>2, <1>4, <2>1 DEF ReadReferences
  <2>2. CASE good
    <3>1. Go(p, "read", "persist")
          /\ Judged(p, {j \in snap \cap Known : missed[j] # 0}, Open \ snap,
                    snap \ (Known \cup ledger), ledger \ snap)
      BY <1>4, <2>2 DEF ReadReferences
    <3>. QED  BY <1>3, <3>1
  <2>. QED  BY <2>1, <2>2
<1>5. CASE ReadListings(p)
  <2>. DEFINE snap == my[p].snap
  <2>1. CASE UnsettledEmpty(p)
    <3>1. PICK to \in {"note", "record"} : Go(p, "read", to)
      BY <1>5, <2>1 DEF ReadListings
    <3>. QED  BY <1>2, <1>5, <2>1, <3>1 DEF ReadListings
  <2>2. CASE ~UnsettledEmpty(p)
    <3>1. PICK to \in {"clear", "apply"} : Go(p, "read", to)
      BY <1>5, <2>2 DEF ReadListings
    <3>2. PICK miss \in {{}, Known \ snap} : Judged(p, snap \cap Known, miss, snap \ Known, {})
      BY <1>5, <2>2 DEF ReadListings
    <3>. QED  BY <1>3, <3>1, <3>2
  <2>. QED  BY <2>1, <2>2
<1>. QED  BY <1>4, <1>5

LEMMA EmptyBlame ==
    ASSUME BInv, TypeOK', NEW p \in Pollers, NoteEmpty(p) \/ ClearEmpty(p)
    PROVE  BInv'
<1>1. UNCHANGED <<kind, board, left, row, missed, bad, my>>
  BY DEF NoteEmpty, ClearEmpty, Empty, catalog, world, mishap
<1>2. PICK from \in {"note", "clear"} : Go(p, from, IF from = "note" THEN "record" ELSE "apply")
  BY DEF NoteEmpty, ClearEmpty, Empty
<1>3. /\ at[p] = from /\ at'[p] = (IF from = "note" THEN "record" ELSE "apply")
      /\ \A q \in Pollers \ {p} : at'[q] = at[q]
  BY <1>2 DEF BInv, TypeOK, Go
<1>4. \A j \in Jobs : p \in Lacking(j)' => p \in Lacking(j)
  BY <1>1, <1>3 DEF Lacking, Answered
<1>. QED  BY <1>1, <1>3, <1>4, BadStays, OwnBlame DEF BInv, Seen

(* An answer is applied: each miss it counts was to be applied by it. *)
LEMMA AppliedBlame ==
    ASSUME BInv, TypeOK', NEW p \in Pollers, NEW hit, NEW miss, NEW to \in {"persist", "record"},
           Missed(hit, miss), Go(p, "apply", to), kind # "references" \/ to = "record",
           hit \subseteq Known, miss \subseteq Known \cap my[p].miss,
           \A j \in Jobs : row'[j] # row[j] =>
             j \in Known /\ (row'[j] = "open" \/ (row'[j] = "closed" /\ j \in miss /\ ClosedBy(missed[j]))),
           my'[p].snap \subseteq board \cup left /\ my'[p].fresh \subseteq board \cup left,
           \A q \in Pollers \ {p} : my'[q] = my[q],
           UNCHANGED <<kind, board, left, bad>>
    PROVE  BInv'
<1>1. at[p] = "apply" /\ at'[p] = to /\ \A q \in Pollers \ {p} : at'[q] = at[q]
  BY DEF BInv, TypeOK, Go
<1>2. \A j \in Jobs : /\ missed[j] \in Nat /\ missed'[j] \in Nat
                      /\ Misses(missed[j]) <= missed[j] + 1
                      /\ missed'[j] = IF j \in hit THEN 0
                                      ELSE IF j \in miss THEN Misses(missed[j]) ELSE missed[j]
  BY PollingAssumption DEF BInv, TypeOK, Missed, Misses
<1>3. bad \in Nat /\ CloseAfter \in Nat
  BY PollingAssumption DEF BInv, TypeOK
<1>4. \A j \in Jobs : /\ j \in miss => p \in Lacking(j)
                      /\ Lacking(j)' = Lacking(j) \ {p}
  <2>1. SUFFICES ASSUME NEW j \in Jobs
                 PROVE  (j \in miss => p \in Lacking(j)) /\ Lacking(j)' = Lacking(j) \ {p}
    OBVIOUS
  <2>2. j \in miss => p \in Lacking(j)
    BY <1>1 DEF Lacking, Answered
  <2>3. p \notin Lacking(j)'
    BY <1>1 DEF Lacking, Answered
  <2>4. \A q \in Pollers \ {p} : q \in Lacking(j)' <=> q \in Lacking(j)
    BY <1>1 DEF Lacking, Answered
  <2>. QED  BY <2>2, <2>3, <2>4 DEF Lacking
<1>5. Seen'
  <2>1. \A q \in Pollers : my'[q].snap \subseteq board \cup left /\ my'[q].fresh \subseteq board \cup left
    BY DEF BInv, Seen
  <2>2. Known' = Known
    BY DEF Known
  <2>3. \A j \in Jobs : missed'[j] # 0 => row'[j] # "none"
    BY <1>2, <2>2 DEF BInv, Seen, Known
  <2>. QED  BY <2>1, <2>2, <2>3 DEF BInv, Seen
<1>6. ASSUME NEW j \in Jobs, j \in board \ left
      PROVE  /\ missed'[j] + Cardinality(Lacking(j)') <= bad
             /\ row'[j] = "closed" => bad >= CloseAfter
  <2>1. missed[j] + Cardinality(Lacking(j)) <= bad
    BY <1>6 DEF BInv, Blamed
  <2>2. CASE j \in miss
    <3>1. Cardinality(Lacking(j)') = Cardinality(Lacking(j)) - 1
      BY <1>4, <2>2, LackingSize, FS_RemoveElement
    <3>2. Cardinality(Lacking(j)) >= 1
      <4>1. IsFiniteSet(Lacking(j)')
        BY <1>4, LackingSize, FS_RemoveElement
      <4>2. Cardinality(Lacking(j)') \in Nat
        BY <4>1, FS_CardinalityType
      <4>. QED  BY <3>1, <4>2, LackingSize
    <3>3. row'[j] = "closed" => bad >= CloseAfter
      <4>1. row[j] = "closed" => bad >= CloseAfter
        BY <1>6 DEF BInv, OneBadAnswer
      <4>2. ClosedBy(missed[j]) => bad >= CloseAfter
        <5>. DEFINE n == missed[j]
                    held == Cardinality(Lacking(j))
        <5>1. n \in Nat /\ Misses(n) <= n + 1 /\ held \in Nat /\ held >= 1 /\ n + held <= bad
          BY <1>2, <1>6, <2>1, <3>2, LackingSize
        <5>2. Misses(n) \in Nat
          BY <5>1, PollingAssumption DEF Misses
        <5>. HIDE DEF n, held
        <5>3. Misses(n) >= CloseAfter => bad >= CloseAfter
          BY <1>3, <5>1, <5>2
        <5>. QED  BY <5>3 DEF ClosedBy, n
      <4>. QED  BY <1>6, <4>1, <4>2
    <3>. QED  BY <1>2, <1>3, <2>1, <3>1, <3>3, LackingSize
  <2>3. CASE j \notin miss
    <3>1. Cardinality(Lacking(j)') <= Cardinality(Lacking(j)) /\ Cardinality(Lacking(j)') \in Nat
      BY <1>4, LackingSize, FS_Subset, FS_CardinalityType
    <3>2. missed'[j] <= missed[j]
      BY <1>2, <2>3
    <3>3. row'[j] = "closed" => bad >= CloseAfter
      BY <1>6, <2>3 DEF BInv, OneBadAnswer
    <3>. QED  BY <1>2, <1>3, <2>1, <3>1, <3>2, <3>3, LackingSize
  <2>. QED  BY <2>2, <2>3
<1>7. Blamed'
  BY <1>6 DEF Blamed, BInv, TypeOK
<1>8. OneBadAnswer'
  <2>1. SUFFICES ASSUME NEW j \in Jobs, row'[j] = "closed", j \notin left  PROVE bad >= CloseAfter
    BY DEF OneBadAnswer
  <2>2. j \in Known
    BY <2>1 DEF Known
  <2>3. j \in board \ left
    BY <2>1, <2>2 DEF BInv, Seen
  <2>. QED  BY <1>6, <2>1, <2>3
<1>. QED  BY <1>5, <1>7, <1>8 DEF BInv

LEMMA ApplyBlame ==
    ASSUME BInv, TypeOK', NEW p \in Pollers, ApplyListings(p)
    PROVE  BInv'
<1>. DEFINE hit == my[p].hit \cap Known
            miss == my[p].miss \cap Known
<1>1. /\ kind # "references" /\ Go(p, "apply", "persist") /\ Missed(hit, miss)
      /\ UNCHANGED <<kind, board, left, bad>>
  BY DEF ApplyListings, world, mishap
<1>2. \A j \in Jobs : row'[j] = IF j \in hit THEN "open"
                                ELSE IF j \in miss /\ ClosedBy(missed[j]) THEN "closed" ELSE row[j]
  BY DEF ApplyListings
<1>3. /\ my'[p].snap = {} /\ my'[p].fresh = my[p].fresh
      /\ \A q \in Pollers \ {p} : my'[q] = my[q]
  BY DEF ApplyListings, BInv, TypeOK, Locals
<1>4. my'[p].snap \subseteq board \cup left /\ my'[p].fresh \subseteq board \cup left
  BY <1>3 DEF BInv, Seen
<1>5. \A j \in Jobs : row'[j] # row[j] =>
        j \in Known /\ (row'[j] = "open" \/ (row'[j] = "closed" /\ j \in miss /\ ClosedBy(missed[j])))
  BY <1>2
<1>6. hit \subseteq Known /\ miss \subseteq Known \cap my[p].miss
  OBVIOUS
<1>. HIDE DEF hit, miss
<1>. QED  BY <1>1, <1>3, <1>4, <1>5, <1>6, AppliedBlame

LEMMA ReconcileBlame ==
    ASSUME BInv, TypeOK', NEW p \in Pollers, Reconcile(p)
    PROVE  BInv'
<1>. DEFINE hit == my[p].hit \cap Known
            miss == my[p].miss \cap Open
<1>1. /\ Go(p, "apply", "record") /\ Missed(hit, miss)
      /\ UNCHANGED <<kind, board, left, bad>>
  BY DEF Reconcile, world, mishap
<1>2. \A j \in Jobs : row'[j] = IF j \in miss /\ ClosedBy(missed[j]) THEN "closed" ELSE row[j]
  BY DEF Reconcile
<1>3. /\ my'[p].snap = my[p].snap /\ my'[p].fresh = my[p].fresh
      /\ \A q \in Pollers \ {p} : my'[q] = my[q]
  BY DEF Reconcile, BInv, TypeOK, Locals
<1>4. my'[p].snap \subseteq board \cup left /\ my'[p].fresh \subseteq board \cup left
  BY <1>3 DEF BInv, Seen
<1>6. hit \subseteq Known /\ miss \subseteq Known \cap my[p].miss
  BY DEF Known, Open
<1>5. \A j \in Jobs : row'[j] # row[j] =>
        j \in Known /\ (row'[j] = "open" \/ (row'[j] = "closed" /\ j \in miss /\ ClosedBy(missed[j])))
  BY <1>2, <1>6
<1>. HIDE DEF hit, miss
<1>. QED  BY <1>1, <1>3, <1>4, <1>5, <1>6, AppliedBlame

LEMMA PersistBlame ==
    ASSUME BInv, TypeOK', NEW p \in Pollers, Persist(p)
    PROVE  BInv'
<1>. DEFINE fresh == my[p].fresh
            done == IF kind = "references" THEN "apply" ELSE "record"
<1>1. at[p] = "persist" /\ UNCHANGED <<kind, board, left, bad>>
  BY DEF Persist, world, mishap
<1>2. CASE fresh \cap Known = {}
  <2>1. /\ Go(p, "persist", done)
        /\ row' = [j \in Jobs |-> IF j \in fresh THEN "open" ELSE row[j]]
        /\ missed' = [j \in Jobs |-> IF j \in fresh THEN 0 ELSE missed[j]]
        /\ my' = [my EXCEPT ![p].snap = {}, ![p].fresh = {}]
    BY <1>2 DEF Persist
  <2>2. /\ my'[p].snap = {} /\ my'[p].fresh = {} /\ my'[p].miss = my[p].miss
        /\ \A q \in Pollers \ {p} : my'[q] = my[q]
    BY <2>1 DEF BInv, TypeOK, Locals
  <2>3. at'[p] = done /\ \A q \in Pollers \ {p} : at'[q] = at[q]
    BY <2>1 DEF BInv, TypeOK, Go
  <2>4. \A j \in Jobs : Lacking(j)' \subseteq Lacking(j)
    <3>1. \A j \in Jobs : p \in Lacking(j)' => p \in Lacking(j)
      BY <1>1, <2>2, <2>3 DEF Lacking, Answered
    <3>. QED  BY <1>1, <2>2, <2>3, <3>1 DEF Lacking, Answered
  <2>5. Seen'
    <3>1. Known' \subseteq Known \cup fresh
      BY <2>1 DEF Known
    <3>2. fresh \subseteq board \cup left /\ Known \subseteq board \cup left
      BY DEF BInv, Seen
    <3>3. \A j \in Jobs : missed'[j] # 0 => row'[j] # "none"
      BY <2>1 DEF BInv, Seen
    <3>4. \A q \in Pollers : my'[q].snap \subseteq board \cup left
                             /\ my'[q].fresh \subseteq board \cup left
      BY <2>2 DEF BInv, Seen
    <3>. HIDE DEF fresh
    <3>. QED  BY <1>1, <3>1, <3>2, <3>3, <3>4 DEF Seen
  <2>6. Blamed'
    <3>1. SUFFICES ASSUME NEW j \in Jobs, j \in board \ left
                   PROVE  missed'[j] + Cardinality(Lacking(j)') <= bad
      BY <1>1 DEF Blamed, BInv, TypeOK
    <3>2. Cardinality(Lacking(j)') <= Cardinality(Lacking(j)) /\ Cardinality(Lacking(j)') \in Nat
      BY <2>4, LackingSize, FS_Subset, FS_CardinalityType
    <3>3. missed[j] \in Nat /\ bad \in Nat /\ missed[j] + Cardinality(Lacking(j)) <= bad
      BY <3>1, PollingAssumption DEF BInv, TypeOK, Blamed
    <3>4. missed'[j] \in {0, missed[j]}
      BY <2>1
    <3>. QED  BY <3>2, <3>3, <3>4, LackingSize
  <2>7. OneBadAnswer'
    BY <1>1, <2>1 DEF BInv, OneBadAnswer
  <2>. QED  BY <2>5, <2>6, <2>7 DEF BInv
<1>3. CASE fresh \cap Known # {}
  <2>1. Go(p, "persist", "record") /\ Failed(p) /\ UNCHANGED catalog
    BY <1>3 DEF Persist
  <2>. QED  BY <1>1, <2>1, FailedFields, Blameless DEF Go, catalog, BInv
<1>. QED  BY <1>2, <1>3

LEMMA PollBlame ==
    ASSUME BInv, NEW p \in Pollers, Poll(p)
    PROVE  BInv'
<1>1. CASE Fetch(p)
  BY <1>1, FetchTypes, FetchBlame DEF BInv
<1>2. CASE ReadReferences(p) \/ ReadListings(p)
  BY <1>2, ReadReferencesTypes, ReadListingsTypes, ReadBlame DEF BInv
<1>3. CASE NoteEmpty(p) \/ ClearEmpty(p)
  BY <1>3, NoteEmptyTypes, ClearEmptyTypes, EmptyBlame DEF BInv
<1>4. CASE ApplyListings(p)
  BY <1>4, ApplyListingsTypes, ApplyBlame DEF BInv
<1>5. CASE Persist(p)
  BY <1>5, PersistTypes, PersistBlame DEF BInv
<1>6. CASE Reconcile(p)
  BY <1>6, ReconcileTypes, ReconcileBlame DEF BInv
<1>7. CASE RecordQueue(p)
  <2>1. TypeOK'
    BY <1>7, RecordQueueTypes DEF BInv
  <2>. QED  BY <1>7, <2>1, Blameless DEF BInv, Seen, RecordQueue, Go, catalog, world, mishap
<1>8. CASE Drop(p)
  <2>1. TypeOK'
    BY <1>8, DropTypes DEF BInv
  <2>. QED  BY <1>8, <2>1, Blameless DEF BInv, Seen, Drop, Go, catalog, world, mishap
<1>9. CASE RecordCron(p)
  BY <1>9, RecordCronTypes, EndsBlame DEF BInv, RecordCron, catalog, world, mishap
<1>10. CASE RecordAdmin(p)
  BY <1>10, RecordAdminTypes, EndsBlame DEF BInv, RecordAdmin, catalog, world, mishap
<1>11. CASE Ack(p)
  BY <1>11, AckTypes, EndsBlame DEF BInv, Ack, catalog, world, mishap
<1>. QED  BY <1>1, <1>2, <1>3, <1>4, <1>5, <1>6, <1>7, <1>8, <1>9, <1>10, <1>11 DEF Poll

(* The board changes under the answers: each may lack what is new on it. *)
LEMMA BoardBlame ==
    ASSUME BInv, BoardChanges
    PROVE  BInv'
<1>. DEFINE answers == {q \in Pollers : Answered(q)}
<1>1. TypeOK'
  BY BoardTypes DEF BInv
<1>2. /\ left' = left \cup (board \ board') /\ bad' = bad + Cardinality(answers)
      /\ UNCHANGED <<kind, row, missed, at, my>>
  BY DEF BoardChanges, catalog
<1>3. IsFiniteSet(answers) /\ Cardinality(answers) \in Nat
  BY PollingAssumption, FS_Subset, FS_CardinalityType
<1>4. bad \in Nat /\ bad' >= bad /\ bad' \in Nat
  BY <1>2, <1>3 DEF BInv, TypeOK
<1>5. board \cup left \subseteq board' \cup left'
  BY <1>2
<1>6. Seen'
  BY <1>2, <1>5 DEF BInv, Seen, Known
<1>7. OneBadAnswer'
  BY <1>2, <1>4, PollingAssumption DEF BInv, OneBadAnswer
<1>8. Blamed'
  <2>1. SUFFICES ASSUME NEW j \in Jobs, j \in board' \ left'
                 PROVE  missed[j] + Cardinality(Lacking(j)) <= bad'
    <3>1. \A j : Lacking(j)' = Lacking(j)
      BY <1>2 DEF Lacking, Answered
    <3>. QED  BY <1>1, <1>2, <3>1 DEF Blamed, TypeOK
  <2>2. missed[j] \in Nat
    BY PollingAssumption DEF BInv, TypeOK
  <2>3. CASE j \in board
    BY <1>2, <1>4, <2>1, <2>2, <2>3, LackingSize DEF BInv, Blamed
  <2>4. CASE j \notin board
    <3>1. missed[j] = 0
      BY <1>2, <2>1, <2>4 DEF BInv, Seen, Known
    <3>2. Lacking(j) \subseteq answers
      BY DEF Lacking
    <3>3. Cardinality(Lacking(j)) <= Cardinality(answers)
      BY <1>3, <3>2, FS_Subset
    <3>. QED  BY <1>2, <1>3, <1>4, <3>1, <3>3, LackingSize
  <2>. QED  BY <2>3, <2>4
<1>. QED  BY <1>1, <1>6, <1>7, <1>8 DEF BInv

LEMMA PurgeBlame ==
    ASSUME BInv, NEW j \in Jobs, Purge(j)
    PROVE  BInv'
<1>1. TypeOK'
  BY PurgeTypes DEF BInv
<1>2. /\ row' = [row EXCEPT ![j] = "none"] /\ missed' = [missed EXCEPT ![j] = 0]
      /\ UNCHANGED <<kind, board, left, bad, at, my>>
  BY DEF Purge, world, mishap
<1>3. /\ row'[j] = "none" /\ missed'[j] = 0
      /\ \A i \in Jobs \ {j} : row'[i] = row[i] /\ missed'[i] = missed[i]
  BY <1>2 DEF BInv, TypeOK
<1>4. Seen'
  BY <1>2, <1>3 DEF BInv, Seen, Known
<1>5. OneBadAnswer'
  BY <1>2, <1>3 DEF BInv, OneBadAnswer
<1>6. Blamed'
  <2>1. \A i : Lacking(i)' = Lacking(i)
    BY <1>2 DEF Lacking, Answered
  <2>2. SUFFICES ASSUME NEW i \in Jobs, i \in board \ left
                 PROVE  missed'[i] + Cardinality(Lacking(i)) <= bad
    BY <1>2, <2>1 DEF Blamed, BInv, TypeOK
  <2>3. missed[i] \in Nat /\ bad \in Nat /\ missed[i] + Cardinality(Lacking(i)) <= bad
    BY <2>2, PollingAssumption DEF BInv, TypeOK, Blamed
  <2>4. missed'[i] \in {0, missed[i]}
    BY <1>3
  <2>. QED  BY <2>3, <2>4, LackingSize
<1>. QED  BY <1>1, <1>4, <1>5, <1>6 DEF BInv

(* A change of an age in hand is no news. *)
LEMMA TimeBlame ==
    ASSUME BInv, ClaimExpires \/ CadencePasses \/ DayPasses
    PROVE  BInv'
<1>1. TypeOK'
  BY TimeTypes DEF BInv
<1>2. UNCHANGED <<kind, board, left, row, missed, bad, at>>
  BY DEF ClaimExpires, CadencePasses, DayPasses, catalog, world, mishap
<1>3. \A q \in Pollers : /\ my'[q].snap = my[q].snap /\ my'[q].fresh = my[q].fresh
                         /\ my'[q].miss = my[q].miss
  BY DEF BInv, TypeOK, Locals, ClaimExpires, CadencePasses, DayPasses
<1>4. \A j \in Jobs : Lacking(j)' \subseteq Lacking(j)
  BY <1>2, <1>3 DEF Lacking, Answered
<1>. QED  BY <1>1, <1>2, <1>3, <1>4, BadStays, BlameKept DEF BInv, Seen

LEMMA DispatchBlame ==
    ASSUME BInv,
           ClaimDue \/ \E c \in Claims : SendBatch(c) \/ SendFails(c) \/ Release(c) \/ DispatcherDies(c)
    PROVE  BInv'
<1>1. TypeOK'
  BY ClaimDueTypes, SendBatchTypes, SendFailsTypes, ReleaseTypes, DispatcherDiesTypes DEF BInv
<1>2. UNCHANGED <<kind, board, left, row, missed, bad, at, my>>
  BY DEF ClaimDue, SendBatch, SendFails, Release, DispatcherDies, catalog, world, mishap
<1>. QED  BY <1>1, <1>2, HandsOff

LEMMA BlameHolds ==
    ASSUME BInv, [Next]_vars
    PROVE  BInv'
<1>1. CASE UNCHANGED vars
  <2>1. TypeOK'
    BY <1>1 DEF BInv, TypeOK, vars, source, catalog, dispatch, world, mishap
  <2>. QED  BY <1>1, <2>1, HandsOff DEF vars, catalog, world, mishap
<1>2. CASE Next
  <2>1. CASE \/ ClaimDue
             \/ \E c \in Claims : SendBatch(c) \/ SendFails(c) \/ Release(c) \/ DispatcherDies(c)
    BY <2>1, DispatchBlame
  <2>2. ASSUME NEW p \in Pollers, (\E c \in Claims : Deliver(p, c)) \/ StartCron(p) \/ StartAdmin(p)
        PROVE  BInv'
    BY <2>2, DeliverTypes, StartCronTypes, StartAdminTypes, StartBlame DEF BInv
  <2>3. ASSUME NEW p \in Pollers, Poll(p)  PROVE BInv'
    BY <2>3, PollBlame
  <2>4. ASSUME NEW p \in Pollers, Die(p)  PROVE BInv'
    BY <2>4, DieTypes, EndsBlame DEF BInv, Die, catalog, world
  <2>5. CASE ClaimExpires \/ CadencePasses \/ DayPasses
    BY <2>5, TimeBlame
  <2>6. CASE BoardChanges
    BY <2>6, BoardBlame
  <2>7. CASE Toggle \/ MoveTier
    BY <2>7, SettingTypes, HandsOff DEF BInv, Toggle, MoveTier, catalog, mishap
  <2>8. CASE \E j \in Jobs : Purge(j)
    BY <2>8, PurgeBlame
  <2>. QED  BY <1>2, <2>1, <2>2, <2>3, <2>4, <2>5, <2>6, <2>7, <2>8 DEF Next
<1>. QED  BY <1>1, <1>2

(* "A job must be absent from this many consecutive polls before it is     *)
(* closed": however the queue's, the cron's and the admin's polls overlap, *)
(* and however old the rows they judge by, a job the board lists all along *)
(* is closed only after as many answers that lack it.                      *)
THEOREM ClosedByMissesOnly == Spec => []OneBadAnswer
<1>1. Init => BInv
  <2>1. SUFFICES ASSUME Init  PROVE BInv
    OBVIOUS
  <2>2. TypeOK
    BY <2>1, InitHolds DEF IInv
  <2>3. Seen
    BY <2>1, NothingFields DEF Init, Seen, Known
  <2>4. \A j : Lacking(j) = {}
    BY <2>1 DEF Init, Lacking, Answered
  <2>5. Blamed
    <3>1. board \subseteq Jobs /\ (\A j \in Jobs : missed[j] = 0) /\ bad = 0
      BY <2>1, <2>2 DEF Init, TypeOK
    <3>. QED  BY <2>4, <3>1, FS_EmptySet DEF Blamed
  <2>6. OneBadAnswer
    BY <2>1 DEF Init, OneBadAnswer
  <2>. QED  BY <2>2, <2>3, <2>5, <2>6 DEF BInv
<1>2. BInv /\ [Next]_vars => BInv'
  BY BlameHolds
<1>3. BInv => OneBadAnswer
  BY DEF BInv
<1>. QED  BY <1>1, <1>2, <1>3, PTL DEF Spec

=============================================================================
