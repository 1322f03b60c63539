----------------------- MODULE NotificationLog_proofs -----------------------
(***************************************************************************)
(* Proofs about NotificationLog, for any rows, kinds, groups, ticks,       *)
(* faults and clock.                                                       *)
(***************************************************************************)
EXTENDS NotificationLog, FiniteSetTheorems, WellFoundedInduction, TLAPS

-----------------------------------------------------------------------------
(* Least and largest members.                                              *)

LEMMA Least ==
    ASSUME NEW lo \in Int, NEW hi \in Int, NEW S \in SUBSET (lo .. hi), S # {}
    PROVE  \E m \in S : \A x \in S : m <= x
<1>. DEFINE T == {x - lo : x \in S}
            R == {ss \in Nat \X Nat : ss[1] < ss[2]}
<1>1. IsWellFoundedOn(R, Nat)
  BY NatLessThanWellFounded DEF OpToRel
<1>2. T # {} /\ \A y \in T : y \in Nat
  <2>1. T # {}
    <3>1. PICK x \in S : TRUE
      OBVIOUS
    <3>. QED BY <3>1
  <2>2. ASSUME NEW y \in T PROVE y \in Nat
    <3>1. PICK x \in S : y = x - lo
      OBVIOUS
    <3>2. x \in lo .. hi
      OBVIOUS
    <3>. QED BY <3>1, <3>2
  <2>. QED BY <2>1, <2>2
<1>3. PICK k \in T : \A y \in T : ~ (<<y, k>> \in R)
  <2>. HIDE DEF R, T
  <2>1. T \in SUBSET Nat
    BY <1>2
  <2>. QED BY <1>1, <1>2, <2>1, WFMin
<1>4. PICK m \in S : k = m - lo
  OBVIOUS
<1>5. ASSUME NEW x \in S PROVE m <= x
  <2>1. ~ (<<x - lo, m - lo>> \in R)
    BY <1>3, <1>4
  <2>2. x - lo \in Nat /\ m - lo \in Nat
    OBVIOUS
  <2>3. ~ (x - lo < m - lo)
    BY <2>1, <2>2
  <2>. QED BY <2>3
<1>. QED BY <1>5

LEMMA Most ==
    ASSUME NEW lo \in Int, NEW hi \in Int, NEW S \in SUBSET (lo .. hi), S # {}
    PROVE  \E m \in S : \A x \in S : x <= m
<1>. DEFINE T == {lo + hi - x : x \in S}
<1>1. T # {} /\ \A y \in T : y \in lo .. hi
  <2>1. T # {}
    <3>1. PICK x \in S : TRUE
      OBVIOUS
    <3>. QED BY <3>1
  <2>2. ASSUME NEW y \in T PROVE y \in lo .. hi
    <3>1. PICK x \in S : y = lo + hi - x
      OBVIOUS
    <3>2. x \in lo .. hi
      OBVIOUS
    <3>. QED BY <3>1, <3>2
  <2>. QED BY <2>1, <2>2
<1>2. PICK k \in T : \A y \in T : k <= y
  <2>. HIDE DEF T
  <2>1. T \in SUBSET (lo .. hi)
    BY <1>1
  <2>. QED BY <1>1, <2>1, Least
<1>3. PICK m \in S : k = lo + hi - m
  OBVIOUS
<1>4. ASSUME NEW x \in S PROVE x <= m
  <2>1. k <= lo + hi - x
    BY <1>2
  <2>. QED BY <1>3, <2>1
<1>. QED BY <1>4

LEMMA NewestSentExists ==
    ASSUME LogAssumption, TypeOK, NEW C \in SUBSET Notes,
           NEW i \in 1 .. Cardinality(C)
    PROVE  /\ NewestSent(i, C) \in {sentAt[n] : n \in C}
           /\ Cardinality({n \in C : sentAt[n] >= NewestSent(i, C)}) >= i
           /\ Cardinality({n \in C : sentAt[n] > NewestSent(i, C)}) < i
<1>. DEFINE V == {sentAt[n] : n \in C}
            upFrom(m) == {n \in C : sentAt[n] >= m}
            above(m) == {n \in C : sentAt[n] > m}
            S == {m \in V : Cardinality(upFrom(m)) >= i}
<1>1. IsFiniteSet(C) /\ Cardinality(C) \in Nat
  BY FS_Subset, FS_CardinalityType DEF LogAssumption
<1>2. \A n \in C : sentAt[n] \in -1 .. MaxTime
  BY DEF TypeOK
<1>3. MaxTime \in Int /\ -1 \in Int
  BY DEF LogAssumption
<1>4. V # {} /\ \A m \in V : m \in -1 .. MaxTime
  <2>1. C # {}
    BY <1>1, FS_EmptySet
  <2>. QED BY <1>2, <2>1
<1>5. S # {} /\ \A m \in S : m \in -1 .. MaxTime
  <2>1. PICK m \in V : \A x \in V : m <= x
    <3>. HIDE DEF V
    <3>. QED BY <1>3, <1>4, Least
  <2>2. upFrom(m) = C
    BY <2>1
  <2>3. m \in S
    BY <1>1, <2>2
  <2>. QED BY <1>4, <2>3
<1>6. PICK m \in S : \A x \in S : x <= m
  <2>. HIDE DEF S
  <2>. QED BY <1>3, <1>5, Most
<1>7. Cardinality(above(m)) < i
  <2>1. IsFiniteSet(above(m)) /\ Cardinality(above(m)) \in Nat
    BY <1>1, FS_Subset, FS_CardinalityType
  <2>2. SUFFICES ASSUME Cardinality(above(m)) >= i PROVE FALSE
    BY <1>1, <2>1
  <2>. DEFINE W == {sentAt[n] : n \in above(m)}
  <2>3. W # {} /\ \A w \in W : w \in -1 .. MaxTime
    <3>1. above(m) # {}
      BY <1>1, <2>1, <2>2, FS_EmptySet
    <3>. QED BY <1>2, <3>1
  <2>4. PICK w \in W : \A x \in W : w <= x
    <3>. HIDE DEF W
    <3>. QED BY <1>3, <2>3, Least
  <2>5. w > m /\ w \in V
    OBVIOUS
  <2>6. upFrom(w) = above(m)
    BY <1>2, <1>5, <2>4, <2>5, <2>3
  <2>7. w \in S
    BY <2>2, <2>5, <2>6
  <2>8. w <= m
    BY <1>6, <2>7
  <2>9. m \in Int /\ w \in Int /\ w > m
    BY <1>3, <1>5, <2>3, <2>5
  <2>. HIDE DEF S, W, V
  <2>. QED BY <2>8, <2>9
<1>8. \E v \in V : Cardinality(upFrom(v)) >= i /\ Cardinality(above(v)) < i
  BY <1>7
<1>. QED BY <1>8 DEF NewestSent

-----------------------------------------------------------------------------
(* What a tick holds.                                                      *)

Puts == {"sent", "failed", "scheduled", "skipped"}

(* Where a tick is, and what its locals can be there. *)
Placed(t) ==
    /\ tick[t] = "off" => local[t] = Nothing
    /\ tick[t] # "off" => local[t].at <= now
    /\ Outlived(t, now) => Mine(t) \subseteq stray
    /\ tick[t] \in {"off", "reap", "claim"} => local[t].groups = {}
    /\ tick[t] \in {"off", "reap", "claim", "next"} => local[t].group = {}
    /\ tick[t] \in {"cap", "push", "write"} => local[t].group # {}
    /\ tick[t] = "write" => local[t].put \in Puts

Alike(g) == \A n, m \in g : KindOf[n] = KindOf[m]

(* A push is of one kind, and of one row where the kind does not group.    *)
Whole(g) == Alike(g) /\ \A n \in g : KindOf[n] \notin Grouped => g = {n}

(* Its groups share no row. *)
Parted(t) ==
    /\ \A g, h \in local[t].groups : g = h \/ g \cap h = {}
    /\ \A g \in local[t].groups : g # {} /\ g \cap local[t].group = {} /\ Whole(g)
    /\ Whole(local[t].group)

(* Its rows are sending, under the moment it claimed them at, unless its   *)
(* claims expired.                                                         *)
Held(t) ==
    \A n \in Mine(t) \ stray : status[n] = "sending" /\ due[n] = local[t].at /\ tries[n] >= 1

(* What it puts back has an attempt left. *)
PutsBack(t) ==
    tick[t] = "write" /\ local[t].put = "scheduled" /\ local[t].counts =>
        \A n \in local[t].group \ stray : tries[n] < MaxAttempts

Apart == \A t, u \in Ticks : t = u \/ Mine(t) \cap Mine(u) \subseteq stray

Waiting == {"none", "scheduled"}

AttemptLeft == \A n \in Notes \ stray : status[n] \in Waiting => tries[n] < MaxAttempts

HeldInv ==
    /\ TypeOK
    /\ \A t \in Ticks : Placed(t) /\ Parted(t) /\ Held(t) /\ PutsBack(t)
    /\ Apart
    /\ AttemptLeft

TickState == [at : 0 .. MaxTime, groups : SUBSET SUBSET Notes, group : SUBSET Notes,
              put : States, until : Later, counts : BOOLEAN]

LEMMA LocalType ==
    ASSUME TypeOK
    PROVE  /\ \A t \in Ticks : local[t] \in TickState
           /\ local = [t \in Ticks |-> local[t]]
           /\ now \in Int /\ \A n \in Notes : due[n] \in Int
           /\ \A t \in Ticks : Mine(t) \subseteq Notes /\ local[t].at \in Int
BY DEF TypeOK, TickState, Mine, Later

LEMMA NothingType ==
    ASSUME LogAssumption PROVE Nothing \in TickState
BY DEF LogAssumption, Nothing, TickState, States, Later

LEMMA HeldInit ==
    ASSUME LogAssumption, Init PROVE HeldInv
<1>1. TypeOK
  <2>1. \A t \in Ticks : local[t] \in TickState
    BY NothingType DEF Init
  <2>2. local \in [Ticks -> TickState] /\ 0 \in Later
    BY <2>1 DEF LogAssumption, Init, Later
  <2>3. now \in 0 .. MaxTime /\ faults \in 0 .. MaxFaults /\ sentAt \in [Notes -> -1 .. MaxTime]
    BY DEF LogAssumption, Init
  <2>4. tries \in [Notes -> Int] /\ \A n \in Notes : tries[n] \in 0 .. MaxAttempts
    BY DEF Init, MaxAttempts
  <2>. QED BY <2>2, <2>3, <2>4 DEF Init, TypeOK, TickState, States
<1>. QED BY <1>1 DEF LogAssumption, Init, HeldInv, Placed, Outlived, Parted, Held, PutsBack, Apart,
       AttemptLeft, Mine, Nothing, Alike, Whole, MaxAttempts, Waiting

(* A step that leaves the ticks alone. *)
LEMMA HeldRows ==
    ASSUME HeldInv, TypeOK', UNCHANGED <<now, tick, local, stray>>,
           \A n \in Notes : status[n] = "sending" =>
               status'[n] = "sending" /\ due'[n] = due[n],
           UNCHANGED tries, AttemptLeft'
    PROVE  HeldInv'
<1>1. \A t \in Ticks : Mine(t)' = Mine(t) /\ Mine(t) \subseteq Notes
  BY LocalType DEF Mine, HeldInv
<1>2. \A t \in Ticks : (Placed(t) /\ Parted(t) /\ Held(t) /\ PutsBack(t))'
  BY <1>1 DEF HeldInv, Placed, Outlived, Parted, Held, PutsBack
<1>3. Apart'
  BY <1>1 DEF HeldInv, Apart
<1>. QED BY <1>2, <1>3 DEF HeldInv

LEMMA HeldSchedule ==
    ASSUME LogAssumption, HeldInv, NEW n \in Notes, Schedule(n) PROVE HeldInv'
<1>1. TypeOK'
  BY DEF HeldInv, LogAssumption, TypeOK, Schedule, States, Later, log, setting, outside, marks
<1>. QED BY <1>1, HeldRows DEF HeldInv, TypeOK, Schedule, AttemptLeft, Waiting, marks

LEMMA HeldTurnOff ==
    ASSUME LogAssumption, HeldInv, NEW k \in Kinds, TurnOff(k) PROVE HeldInv'
<1>1. TypeOK'
  BY DEF HeldInv, LogAssumption, TypeOK, TurnOff, log, setting, outside, marks
<1>. QED BY <1>1, HeldRows DEF HeldInv, TurnOff, AttemptLeft, log, marks

LEMMA HeldSkipQueued ==
    ASSUME LogAssumption, HeldInv, NEW k \in Kinds, SkipQueued(k) PROVE HeldInv'
<1>1. TypeOK'
  BY DEF HeldInv, LogAssumption, TypeOK, SkipQueued, States, log, setting, outside, marks
<1>. QED BY <1>1, HeldRows DEF HeldInv, SkipQueued, AttemptLeft, Waiting, marks

LEMMA HeldAdvance ==
    ASSUME LogAssumption, HeldInv, Advance PROVE HeldInv'
<1>1. /\ now' = now + 1 /\ UNCHANGED <<status, due, tries, tick, local>>
      /\ stray \subseteq stray' /\ stray' \subseteq Notes
  <2>1. \A t \in Ticks : Mine(t) \subseteq Notes
    BY LocalType DEF HeldInv
  <2>. QED BY <2>1 DEF Advance, log, HeldInv, TypeOK
<1>2. TypeOK'
  BY <1>1 DEF HeldInv, LogAssumption, TypeOK, Advance, log, setting, outside
<1>3. \A t \in Ticks : Mine(t)' = Mine(t)
  BY <1>1 DEF Mine
<1>4. \A t \in Ticks : Placed(t)'
  <2>. TAKE t \in Ticks
  <2>1. local[t].at \in Int /\ now \in Int
    BY LocalType DEF HeldInv
  <2>2. Outlived(t, now)' => Mine(t) \subseteq stray'
    BY <1>1 DEF Advance, Outlived
  <2>. QED BY <1>1, <1>3, <2>1, <2>2 DEF HeldInv, Placed
<1>5. \A t \in Ticks : (Parted(t) /\ Held(t) /\ PutsBack(t))'
  BY <1>1, <1>3 DEF HeldInv, Parted, Held, PutsBack
<1>6. Apart' /\ AttemptLeft'
  BY <1>1, <1>3 DEF HeldInv, Apart, AttemptLeft
<1>. QED BY <1>2, <1>4, <1>5, <1>6 DEF HeldInv

(* A step of one tick: the rows of the others stay as they are, and what   *)
(* it comes to hold was held by nobody.                                    *)
LEMMA HeldTick ==
    ASSUME HeldInv, TypeOK', NEW t \in Ticks, UNCHANGED now, stray \subseteq stray',
           \A u \in Ticks \ {t} : tick'[u] = tick[u] /\ local'[u] = local[u],
           \A u \in Ticks \ {t} : \A n \in Mine(u) \ stray :
               status'[n] = status[n] /\ due'[n] = due[n] /\ tries'[n] = tries[n],
           \A n \in Mine(t)' \ stray' : n \in Mine(t) \/ status[n] # "sending",
           Placed(t)', Parted(t)', Held(t)', PutsBack(t)', AttemptLeft'
    PROVE  HeldInv'
<1>1. \A u \in Ticks \ {t} : Mine(u)' = Mine(u)
  BY DEF Mine
<1>2. ASSUME NEW u \in Ticks, u # t
      PROVE  (Placed(u) /\ Parted(u) /\ Held(u) /\ PutsBack(u))'
  <2>1. Placed(u)' /\ Parted(u)'
    BY <1>1, <1>2 DEF HeldInv, Placed, Outlived, Parted
  <2>2. Held(u)'
    BY <1>1, <1>2 DEF HeldInv, Held
  <2>3. PutsBack(u)'
    BY <1>2 DEF HeldInv, PutsBack, Mine
  <2>. QED BY <2>1, <2>2, <2>3
<1>3. Apart'
  <2>1. ASSUME NEW u \in Ticks, u # t PROVE (Mine(t) \cap Mine(u) \subseteq stray)'
    BY <1>1, <2>1 DEF HeldInv, Held, Apart
  <2>2. ASSUME NEW u \in Ticks, NEW v \in Ticks, u # t, v # t, u # v
        PROVE  (Mine(u) \cap Mine(v) \subseteq stray)'
    BY <1>1, <2>2 DEF HeldInv, Apart
  <2>. QED BY <2>1, <2>2 DEF Apart
<1>. QED BY <1>2, <1>3 DEF HeldInv

LEMMA HeldBegin ==
    ASSUME LogAssumption, HeldInv, NEW t \in Ticks, Begin(t) PROVE HeldInv'
<1>1. local[t] = Nothing /\ tick[t] = "off" /\ tick'[t] = "reap"
  BY DEF HeldInv, Placed, TypeOK, Begin, Step
<1>2. local'[t] = [Nothing EXCEPT !.at = now]
  BY <1>1 DEF HeldInv, TypeOK, Begin
<1>3. \A u \in Ticks \ {t} : tick'[u] = tick[u] /\ local'[u] = local[u]
  BY DEF HeldInv, TypeOK, Begin, Step
<1>4. TypeOK'
  <2>1. local \in [Ticks -> TickState] /\ now \in 0 .. MaxTime
    BY DEF HeldInv, TypeOK, TickState
  <2>2. local' \in [Ticks -> TickState]
    BY <2>1 DEF Begin, TickState
  <2>. QED BY <2>1, <2>2 DEF HeldInv, TypeOK, TickState, Begin, Step, log, setting, outside
<1>5. Mine(t)' = {}
  BY <1>2 DEF Mine, Nothing
<1>6. Placed(t)'
  BY <1>1, <1>2, <1>5, LocalType DEF HeldInv, Placed, Begin, Nothing, LogAssumption
<1>7. (Parted(t) /\ Held(t) /\ PutsBack(t))'
  BY <1>1, <1>2, <1>5 DEF Parted, Held, PutsBack, Nothing, Alike, Whole
<1>8. UNCHANGED <<now, status, due, tries, stray>>
  BY DEF Begin, log
<1>9. AttemptLeft'
  BY <1>8 DEF HeldInv, AttemptLeft
<1>. QED BY <1>3, <1>4, <1>5, <1>6, <1>7, <1>8, <1>9, HeldTick

(* A row the reaper takes is held by nobody. *)
LEMMA ReapsUnheld ==
    ASSUME LogAssumption, HeldInv, NEW t \in Ticks, Reap(t), NEW u \in Ticks, NEW n \in Mine(u) \ stray
    PROVE  status'[n] = status[n] /\ status[n] = "sending"
<1>1. n \in Notes /\ status[n] = "sending" /\ due[n] = local[u].at
  BY LocalType DEF HeldInv, Held
<1>2. tick[u] # "off" /\ tick[t] = "reap"
  BY DEF HeldInv, Placed, Nothing, Mine, Reap, Step
<1>3. local[t].at <= now /\ now <= local[u].at + ClaimExpiry
  BY <1>2, LocalType DEF HeldInv, Placed, Outlived, LogAssumption
<1>4. ~ (due[n] < local[t].at - ClaimExpiry)
  BY <1>1, <1>3, LocalType DEF HeldInv, LogAssumption
<1>. QED BY <1>1, <1>4 DEF Reap

LEMMA HeldReap ==
    ASSUME LogAssumption, HeldInv, NEW t \in Ticks, Reap(t) PROVE HeldInv'
<1>1. tick[t] = "reap" /\ tick'[t] = "claim" /\ UNCHANGED <<now, due, tries, local, stray>>
  BY DEF HeldInv, TypeOK, Reap, Step, marks
<1>2. \A u \in Ticks \ {t} : tick'[u] = tick[u] /\ local'[u] = local[u]
  BY <1>1 DEF HeldInv, TypeOK, Reap, Step
<1>3. TypeOK'
  BY DEF HeldInv, LogAssumption, TypeOK, Reap, Expired, Step, States, setting, outside, marks
<1>4. Mine(t)' = {}
  BY <1>1 DEF Mine, HeldInv, Placed
<1>5. (Placed(t) /\ Parted(t) /\ Held(t) /\ PutsBack(t))'
  BY <1>1, <1>4 DEF HeldInv, Placed, Parted, Held, PutsBack
<1>6. AttemptLeft'
  BY <1>1 DEF HeldInv, TypeOK, AttemptLeft, Reap, Expired, Waiting, MaxAttempts
<1>7. \A u \in Ticks \ {t} : \A n \in Mine(u) \ stray : status'[n] = status[n]
  BY ReapsUnheld
<1>. QED BY <1>1, <1>2, <1>3, <1>4, <1>5, <1>6, <1>7, HeldTick

LEMMA GroupsOfRows ==
    ASSUME NEW S \in SUBSET Notes
    PROVE  /\ UNION GroupsOf(S) = S
           /\ GroupsOf(S) \in SUBSET SUBSET Notes
           /\ \A g \in GroupsOf(S) : g # {} /\ Whole(g)
           /\ \A g, h \in GroupsOf(S) : g = h \/ g \cap h = {}
<1>. DEFINE ones == {{n} : n \in {m \in S : KindOf[m] \notin Grouped}}
            byKind == {{m \in S : KindOf[m] = k} : k \in Grouped \cap {KindOf[m] : m \in S}}
<1>1. GroupsOf(S) = ones \cup byKind
  BY DEF GroupsOf
<1>2. \A g \in ones : \E n \in S : g = {n} /\ KindOf[n] \notin Grouped
  OBVIOUS
<1>3. \A g \in byKind : \E m \in S : g = {n \in S : KindOf[n] = KindOf[m]} /\ KindOf[m] \in Grouped
  OBVIOUS
<1>4. \A n \in S : \E g \in GroupsOf(S) : n \in g
  <2>. TAKE n \in S
  <2>1. CASE KindOf[n] \notin Grouped
    <3>1. {n} \in ones
      BY <2>1
    <3>. QED BY <1>1, <3>1
  <2>2. CASE KindOf[n] \in Grouped
    <3>1. {m \in S : KindOf[m] = KindOf[n]} \in byKind
      BY <2>2
    <3>. QED BY <1>1, <3>1
  <2>. QED BY <2>1, <2>2
<1>5. \A g \in GroupsOf(S) : g # {} /\ Whole(g) /\ g \subseteq S
  <2>. HIDE DEF ones, byKind
  <2>. QED BY <1>1, <1>2, <1>3 DEF Alike, Whole
<1>6. \A g, h \in GroupsOf(S) : g = h \/ g \cap h = {}
  <2>. DEFINE of(x) == IF KindOf[x] \in Grouped THEN {n \in S : KindOf[n] = KindOf[x]} ELSE {x}
  <2>1. \A g \in ones : \A x \in g : g = of(x)
    BY <1>2
  <2>2. \A g \in byKind : \A x \in g : g = of(x)
    BY <1>3
  <2>. HIDE DEF ones, byKind, of
  <2>. QED BY <1>1, <2>1, <2>2
<1>. QED BY <1>4, <1>5, <1>6

LEMMA HeldClaimDue ==
    ASSUME LogAssumption, HeldInv, NEW t \in Ticks, ClaimDue(t) PROVE HeldInv'
<1>. DEFINE at == local[t].at
            mine == {n \in Notes : status[n] = "scheduled" /\ due[n] <= at}
<1>0. local \in [Ticks -> TickState] /\ at \in 0 .. MaxTime /\ mine \subseteq Notes
  BY DEF HeldInv, TypeOK, TickState
<1>1. /\ tick[t] = "claim" /\ local[t].groups = {} /\ local[t].group = {}
      /\ at <= now
  BY DEF HeldInv, Placed, ClaimDue
<1>2. /\ UNCHANGED now /\ stray \subseteq stray' /\ stray' \subseteq Notes
      /\ Outlived(t, now) => mine \subseteq stray'
  BY <1>0 DEF ClaimDue, HeldInv, TypeOK
<1>3. \A n \in mine : status'[n] = "sending" /\ due'[n] = at /\ tries'[n] = tries[n] + 1
  BY DEF ClaimDue, ClaimedAt
<1>4. \A n \in Notes \ mine : status'[n] = status[n] /\ due'[n] = due[n] /\ tries'[n] = tries[n]
  BY DEF ClaimDue
<1>5. \A u \in Ticks \ {t} : tick'[u] = tick[u] /\ local'[u] = local[u]
  BY <1>0 DEF ClaimDue, Step, HeldInv, TypeOK
<1>6. \A u \in Ticks : \A n \in Mine(u) \ stray : n \in Notes \ mine
  BY LocalType DEF HeldInv, Held
<1>7. GroupsOf(mine) \in SUBSET SUBSET Notes
  BY <1>0, GroupsOfRows
<1>8. \/ mine = {} /\ tick' = [tick EXCEPT ![t] = "off"] /\ local' = [local EXCEPT ![t] = Nothing]
      \/ mine # {} /\ tick' = [tick EXCEPT ![t] = "next"] /\ local' = [local EXCEPT ![t].groups = GroupsOf(mine)]
  BY DEF ClaimDue, Step
<1>9. TypeOK'
  <2>1. local' \in [Ticks -> TickState]
    BY <1>0, <1>7, <1>8, NothingType DEF TickState
  <2>2. tries' \in [Notes -> Int] /\ \A n \in Notes \ stray' : tries'[n] \in 0 .. MaxAttempts
    <3>1. tries' \in [Notes -> Int]
      BY DEF HeldInv, TypeOK, ClaimDue
    <3>2. \A n \in mine \ stray : tries[n] \in 0 .. MaxAttempts /\ tries[n] < MaxAttempts
      BY DEF HeldInv, TypeOK, AttemptLeft, Waiting
    <3>3. \A n \in Notes \ stray : tries[n] \in 0 .. MaxAttempts
      BY DEF HeldInv, TypeOK
    <3>. HIDE DEF mine
    <3>. QED BY <1>2, <1>3, <1>4, <3>1, <3>2, <3>3 DEF MaxAttempts
  <2>3. due' \in [Notes -> Later]
    <3>1. at \in Later
      BY <1>0 DEF LogAssumption, Later
    <3>. QED BY <3>1 DEF HeldInv, TypeOK, ClaimDue, ClaimedAt
  <2>4. status' \in [Notes -> States]
    BY DEF HeldInv, TypeOK, ClaimDue, States
  <2>. QED BY <1>2, <1>8, <2>1, <2>2, <2>3, <2>4 DEF HeldInv, TypeOK, TickState, ClaimDue, setting, outside
<1>10. AttemptLeft'
  BY <1>2, <1>3, <1>4 DEF HeldInv, AttemptLeft, Waiting
<1>11. CASE mine = {}
  <2>1. tick'[t] = "off" /\ local'[t] = Nothing
    BY <1>0, <1>8, <1>11 DEF HeldInv, TypeOK
  <2>2. Mine(t)' = {}
    BY <2>1 DEF Mine, Nothing
  <2>3. (Placed(t) /\ Parted(t) /\ Held(t) /\ PutsBack(t))'
    BY <2>1, <2>2 DEF Placed, Outlived, Parted, Held, PutsBack, Nothing, Alike, Whole
  <2>. QED BY <1>2, <1>4, <1>5, <1>6, <1>9, <1>10, <2>2, <2>3, HeldTick
<1>12. CASE mine # {}
  <2>1. /\ tick'[t] = "next"
        /\ local'[t].groups = GroupsOf(mine) /\ local'[t].group = {} /\ local'[t].at = at
    BY <1>0, <1>1, <1>8, <1>12 DEF HeldInv, TypeOK, TickState
  <2>2. Mine(t)' = mine
    <3>. HIDE DEF mine
    <3>. QED BY <1>0, <2>1, GroupsOfRows DEF Mine
  <2>3. Placed(t)'
    BY <1>1, <1>2, <2>1, <2>2 DEF Placed, Outlived
  <2>4. Parted(t)'
    <3>. HIDE DEF mine
    <3>. QED BY <1>0, <2>1, GroupsOfRows DEF Parted, Alike, Whole
  <2>5. Held(t)'
    <3>1. \A n \in mine \ stray : tries[n] \in 0 .. MaxAttempts
      BY DEF HeldInv, TypeOK
    <3>. HIDE DEF mine
    <3>. QED BY <1>2, <1>3, <2>1, <2>2, <3>1 DEF Held
  <2>6. PutsBack(t)'
    BY <2>1 DEF PutsBack
  <2>7. \A n \in Mine(t)' : status[n] # "sending"
    BY <2>2
  <2>. QED BY <1>2, <1>4, <1>5, <1>6, <1>9, <1>10, <2>3, <2>4, <2>5, <2>6, <2>7, HeldTick
<1>. QED BY <1>11, <1>12

LEMMA HeldNextGroup ==
    ASSUME LogAssumption, HeldInv, NEW t \in Ticks, NextGroup(t) PROVE HeldInv'
<1>1. PICK g \in local[t].groups :
          /\ local'[t].groups = local[t].groups \ {g} /\ local'[t].group = g
          /\ local'[t].at = local[t].at /\ local'[t].until = local[t].until
          /\ local'[t].counts = local[t].counts
          /\ \/ tick'[t] \in {"cap", "push"} /\ local'[t].put = local[t].put
             \/ tick'[t] = "write" /\ local'[t].put = "skipped"
          /\ local'[t] \in TickState
          /\ \A u \in Ticks \ {t} : tick'[u] = tick[u] /\ local'[u] = local[u]
          /\ local' \in [Ticks -> TickState]
          /\ tick' \in [Ticks -> {"off", "reap", "claim", "next", "cap", "push", "write"}]
  <2>1. local \in [Ticks -> TickState] /\ tick \in [Ticks -> {"off", "reap", "claim", "next", "cap", "push", "write"}]
    BY DEF HeldInv, TypeOK, TickState
  <2>2. \A g \in local[t].groups : local[t].groups \ {g} \in SUBSET SUBSET Notes /\ g \in SUBSET Notes
    BY <2>1 DEF TickState
  <2>. QED BY <2>1, <2>2 DEF NextGroup, Step, TickState, States
<1>2. UNCHANGED <<now, status, due, tries, sentAt, enabled, turning, tried, pushes, told, stray, overlapped, faults>>
  BY DEF NextGroup, log, setting, outside, marks
<1>3. tick[t] = "next" /\ local[t].group = {}
  BY DEF NextGroup, Step, HeldInv, Placed
<1>4. TypeOK'
  BY <1>1, <1>2 DEF HeldInv, TypeOK, TickState
<1>5. Mine(t)' = Mine(t)
  BY <1>1, <1>3 DEF Mine
<1>6. Placed(t)'
  BY <1>1, <1>2, <1>3, <1>5 DEF HeldInv, Placed, Outlived, Parted, Puts
<1>7. Parted(t)'
  BY <1>1 DEF HeldInv, Parted
<1>8. Held(t)' /\ PutsBack(t)'
  BY <1>1, <1>2, <1>5 DEF HeldInv, Held, PutsBack
<1>9. AttemptLeft'
  BY <1>2 DEF HeldInv, AttemptLeft
<1>. QED BY <1>1, <1>2, <1>4, <1>5, <1>6, <1>7, <1>8, <1>9, HeldTick

(* When the cap holds a push back, it frees after now and within a window. *)
LEMMA FreesLater ==
    ASSUME LogAssumption, TypeOK, NEW at \in 0 .. MaxTime, NEW k, NEW m \in FreesAt(at, k)
    PROVE  m \in Later /\ m > at
<1>. DEFINE C == CountedFrom(at)
<1>1. C \subseteq Notes /\ IsFiniteSet(C) /\ Cardinality(C) \in Nat
  BY FS_Subset, FS_CardinalityType DEF LogAssumption, CountedFrom
<1>2. /\ m > at
      /\ \/ C # {} /\ m = NewestSent(1, C) + Spacing
         \/ Cardinality(C) >= PerDay /\ m = NewestSent(PerDay, C) + Window
  BY DEF FreesAt, StillAhead
<1>3. ASSUME NEW i \in 1 .. Cardinality(C) PROVE NewestSent(i, C) \in -1 .. MaxTime
  <2>1. NewestSent(i, C) \in {sentAt[n] : n \in C}
    BY <1>1, NewestSentExists
  <2>. QED BY <1>1, <2>1 DEF TypeOK
<1>4. CASE C # {} /\ m = NewestSent(1, C) + Spacing
  <2>1. 1 \in 1 .. Cardinality(C)
    BY <1>1, <1>4, FS_EmptySet
  <2>. QED BY <1>2, <1>3, <1>4, <2>1 DEF LogAssumption, Later
<1>5. CASE Cardinality(C) >= PerDay /\ m = NewestSent(PerDay, C) + Window
  <2>1. PerDay \in 1 .. Cardinality(C)
    BY <1>1, <1>5 DEF LogAssumption
  <2>. QED BY <1>2, <1>3, <1>5, <2>1 DEF LogAssumption, Later
<1>. QED BY <1>2, <1>4, <1>5

LEMMA HeldCap ==
    ASSUME LogAssumption, HeldInv, NEW t \in Ticks, Cap(t) PROVE HeldInv'
<1>. DEFINE frees == FreesAt(local[t].at, KindOfGroup(local[t].group))
<1>0. local \in [Ticks -> TickState] /\ tick \in [Ticks -> {"off", "reap", "claim", "next", "cap", "push", "write"}]
  BY DEF HeldInv, TypeOK, TickState
<1>1. /\ local'[t].groups = local[t].groups /\ local'[t].group = local[t].group
      /\ local'[t].at = local[t].at
      /\ \/ tick'[t] = "push" /\ local'[t] = local[t]
         \/ /\ tick'[t] = "write" /\ local'[t].put = "scheduled" /\ local'[t].counts = FALSE
            /\ local'[t].until \in Later
      /\ \A u \in Ticks \ {t} : tick'[u] = tick[u] /\ local'[u] = local[u]
      /\ local' \in [Ticks -> TickState]
      /\ tick' \in [Ticks -> {"off", "reap", "claim", "next", "cap", "push", "write"}]
  <2>1. CASE frees = {}
    BY <1>0, <2>1 DEF Cap, Step
  <2>2. CASE frees # {}
    <3>. DEFINE m == CHOOSE m \in frees : TRUE
    <3>1. m \in frees
      BY <2>2
    <3>2. local[t].at \in 0 .. MaxTime
      BY <1>0 DEF TickState
    <3>3. m \in Later
      BY <3>1, <3>2, FreesLater DEF HeldInv
    <3>4. local' = [local EXCEPT ![t].put = "scheduled", ![t].counts = FALSE, ![t].until = m]
          /\ tick' = [tick EXCEPT ![t] = "write"]
      BY <2>2 DEF Cap, Step
    <3>. HIDE DEF m
    <3>. QED BY <1>0, <3>3, <3>4 DEF TickState, States
  <2>. QED BY <2>1, <2>2
<1>2. UNCHANGED <<now, status, due, tries, sentAt, enabled, turning, tried, pushes, told, stray, overlapped, faults>>
  BY DEF Cap, log, setting, outside, marks
<1>3. tick[t] = "cap"
  BY DEF Cap
<1>4. TypeOK'
  BY <1>1, <1>2 DEF HeldInv, TypeOK, TickState
<1>5. Mine(t)' = Mine(t)
  BY <1>1 DEF Mine
<1>6. Placed(t)' /\ Parted(t)'
  BY <1>1, <1>2, <1>3, <1>5 DEF HeldInv, Placed, Outlived, Parted, Puts
<1>7. Held(t)' /\ PutsBack(t)'
  BY <1>1, <1>2, <1>5 DEF HeldInv, Held, PutsBack
<1>8. AttemptLeft'
  BY <1>2 DEF HeldInv, AttemptLeft
<1>. QED BY <1>1, <1>2, <1>4, <1>5, <1>6, <1>7, <1>8, HeldTick

LEMMA HeldPush ==
    ASSUME LogAssumption, HeldInv, NEW t \in Ticks, Push(t) PROVE HeldInv'
<1>0. /\ local \in [Ticks -> TickState] /\ local[t].at \in 0 .. MaxTime /\ local[t].group \subseteq Notes
      /\ tick \in [Ticks -> {"off", "reap", "claim", "next", "cap", "push", "write"}]
  BY DEF HeldInv, TypeOK, TickState
<1>1. local[t].at + RetryDelay \in Later
  BY <1>0 DEF LogAssumption, Later
<1>2. /\ local'[t].groups = local[t].groups /\ local'[t].group = local[t].group
      /\ local'[t].at = local[t].at
      /\ \/ local'[t].put \in {"sent", "skipped", "failed"}
         \/ local'[t].put = "scheduled" /\ ~LastAttempt(local[t].group)
      /\ \A u \in Ticks \ {t} : local'[u] = local[u]
      /\ local' \in [Ticks -> TickState]
  BY <1>0, <1>1 DEF Push, NoneTookIt, TickState, States
<1>3. /\ tick[t] = "push" /\ tick'[t] = "write"
      /\ \A u \in Ticks \ {t} : tick'[u] = tick[u]
      /\ tick' \in [Ticks -> {"off", "reap", "claim", "next", "cap", "push", "write"}]
  BY <1>0 DEF Push, Step
<1>4. UNCHANGED <<now, status, due, tries, sentAt, enabled, turning, stray, overlapped>>
  BY DEF Push, log, setting, marks
<1>5. TypeOK'
  <2>1. tried' \in [Notes -> Nat] /\ pushes' \in [Notes -> Nat]
    BY DEF HeldInv, TypeOK, Push, Tried, Reached, outside
  <2>2. told' \subseteq [at : 0 .. MaxTime, notes : SUBSET Notes]
    BY <1>0 DEF HeldInv, TypeOK, Push, Reached, outside
  <2>3. faults' \in 0 .. MaxFaults
    BY DEF HeldInv, TypeOK, Push, LogAssumption
  <2>. QED BY <1>2, <1>3, <1>4, <2>1, <2>2, <2>3 DEF HeldInv, TypeOK, TickState
<1>6. Mine(t)' = Mine(t)
  BY <1>2 DEF Mine
<1>7. Placed(t)' /\ Parted(t)'
  BY <1>2, <1>3, <1>4, <1>6 DEF HeldInv, Placed, Outlived, Parted, Puts
<1>8. Held(t)'
  BY <1>2, <1>4, <1>6 DEF HeldInv, Held
<1>9. PutsBack(t)'
  BY <1>0, <1>2, <1>4 DEF PutsBack, LastAttempt, HeldInv, TypeOK, MaxAttempts
<1>10. AttemptLeft'
  BY <1>4 DEF HeldInv, AttemptLeft
<1>. QED BY <1>2, <1>3, <1>4, <1>5, <1>6, <1>7, <1>8, <1>9, <1>10, HeldTick

LEMMA HeldWrite ==
    ASSUME LogAssumption, HeldInv, NEW t \in Ticks, Write(t) PROVE HeldInv'
<1>. DEFINE mine == local[t].group
            next == [Nothing EXCEPT !.at = local[t].at, !.groups = local[t].groups]
<1>0. /\ local \in [Ticks -> TickState] /\ local[t] \in TickState /\ mine \subseteq Notes
      /\ tick \in [Ticks -> {"off", "reap", "claim", "next", "cap", "push", "write"}]
  BY DEF HeldInv, TypeOK, TickState
<1>1. tick[t] = "write" /\ local[t].put \in Puts
  BY DEF Write, HeldInv, Placed
<1>2. next \in TickState /\ Nothing \in TickState
  BY <1>0, NothingType DEF TickState, Nothing
<1>3. \/ local[t].groups = {} /\ tick' = [tick EXCEPT ![t] = "off"] /\ local' = [local EXCEPT ![t] = Nothing]
      \/ local[t].groups # {} /\ tick' = [tick EXCEPT ![t] = "next"] /\ local' = [local EXCEPT ![t] = next]
  BY DEF Write, Step
<1>4. /\ \A u \in Ticks \ {t} : tick'[u] = tick[u] /\ local'[u] = local[u]
      /\ local' \in [Ticks -> TickState]
      /\ tick' \in [Ticks -> {"off", "reap", "claim", "next", "cap", "push", "write"}]
  <2>. HIDE DEF next
  <2>. QED BY <1>0, <1>2, <1>3
<1>5. UNCHANGED <<now, enabled, turning, tried, pushes, told, stray, overlapped, faults>>
  BY DEF Write, setting, outside, marks
<1>6. \A n \in Notes \ mine : status'[n] = status[n] /\ due'[n] = due[n] /\ tries'[n] = tries[n]
  BY DEF Write, HeldInv, TypeOK
<1>7. \A n \in mine \ stray : status[n] = "sending" /\ tries[n] >= 1 /\ tries[n] \in 0 .. MaxAttempts
  BY <1>0 DEF HeldInv, Held, Mine, TypeOK
<1>8. TypeOK'
  <2>1. status' \in [Notes -> States]
    BY <1>1 DEF Write, HeldInv, TypeOK, Puts, States
  <2>2. due' \in [Notes -> Later] /\ sentAt' \in [Notes -> -1 .. MaxTime]
    <3>1. local[t].until \in Later /\ local[t].at \in -1 .. MaxTime
      BY <1>0 DEF TickState, LogAssumption
    <3>. QED BY <3>1 DEF Write, HeldInv, TypeOK
  <2>3. tries' \in [Notes -> Int] /\ \A n \in Notes \ stray : tries'[n] \in 0 .. MaxAttempts
    BY <1>7 DEF Write, HeldInv, TypeOK, MaxAttempts
  <2>. QED BY <1>4, <1>5, <2>1, <2>2, <2>3 DEF HeldInv, TypeOK, TickState
<1>9. AttemptLeft'
  <2>1. ASSUME NEW n \in mine \ stray, status'[n] \in Waiting PROVE tries'[n] < MaxAttempts
    <3>1. local[t].put = "scheduled"
      BY <1>0, <1>1, <2>1 DEF Write, Puts, Waiting
    <3>. QED BY <1>0, <1>1, <1>7, <3>1 DEF Write, HeldInv, PutsBack, MaxAttempts
  <2>. QED BY <1>5, <1>6, <2>1 DEF HeldInv, AttemptLeft
<1>10. /\ local'[t].group = {} /\ tick'[t] \in {"off", "next"}
       /\ local'[t].groups = local[t].groups
       /\ tick'[t] = "off" => local'[t] = Nothing
       /\ tick'[t] = "next" => local'[t].at = local[t].at
  <2>1. CASE local[t].groups = {}
    <3>1. tick'[t] = "off" /\ local'[t] = Nothing
      BY <1>0, <1>3, <2>1
    <3>. QED BY <2>1, <3>1 DEF Nothing
  <2>2. CASE local[t].groups # {}
    <3>1. tick'[t] = "next" /\ local'[t] = next
      BY <1>0, <1>3, <2>2
    <3>. QED BY <3>1 DEF Nothing
  <2>. QED BY <2>1, <2>2
<1>11. Mine(t)' = UNION local[t].groups /\ Mine(t)' \subseteq Mine(t)
  BY <1>10 DEF Mine
<1>12. \A n \in Mine(t)' : n \in Notes \ mine
  BY <1>0, <1>11 DEF HeldInv, Parted, TickState
<1>13. Placed(t)' /\ Parted(t)' /\ PutsBack(t)'
  <2>1. Placed(t)'
    BY <1>1, <1>5, <1>10, <1>11 DEF HeldInv, Placed, Outlived, Nothing
  <2>. QED BY <2>1, <1>10 DEF HeldInv, Parted, PutsBack, Alike, Whole
<1>14. Held(t)'
  <2>1. tick'[t] = "off" => Mine(t)' = {}
    BY <1>10 DEF Mine, Nothing
  <2>2. tick'[t] = "next" => local'[t].at = local[t].at
    BY <1>10
  <2>. QED BY <1>5, <1>6, <1>10, <1>11, <1>12, <2>1, <2>2 DEF HeldInv, Held
<1>15. \A u \in Ticks \ {t} : \A n \in Mine(u) \ stray : n \in Notes \ mine
  BY LocalType DEF HeldInv, Apart, Mine
<1>. QED BY <1>4, <1>5, <1>6, <1>8, <1>9, <1>11, <1>13, <1>14, <1>15, HeldTick

LEMMA HeldDie ==
    ASSUME LogAssumption, HeldInv, NEW t \in Ticks, Die(t) PROVE HeldInv'
<1>0. /\ local \in [Ticks -> TickState] /\ local[t].at \in 0 .. MaxTime /\ local[t].group \subseteq Notes
      /\ tick \in [Ticks -> {"off", "reap", "claim", "next", "cap", "push", "write"}]
  BY DEF HeldInv, TypeOK, TickState
<1>1. /\ tick'[t] = "off" /\ local'[t] = Nothing
      /\ \A u \in Ticks \ {t} : tick'[u] = tick[u] /\ local'[u] = local[u]
      /\ local' \in [Ticks -> TickState]
      /\ tick' \in [Ticks -> {"off", "reap", "claim", "next", "cap", "push", "write"}]
  BY <1>0, NothingType DEF Die
<1>2. UNCHANGED <<now, status, due, tries, sentAt, enabled, turning, stray, overlapped>>
  BY DEF Die, log, setting, marks
<1>3. TypeOK'
  <2>1. tried' \in [Notes -> Nat] /\ pushes' \in [Notes -> Nat]
    BY DEF HeldInv, TypeOK, Die, Tried, Reached, outside
  <2>2. told' \subseteq [at : 0 .. MaxTime, notes : SUBSET Notes]
    BY <1>0 DEF HeldInv, TypeOK, Die, Reached, outside
  <2>3. faults' \in 0 .. MaxFaults
    BY DEF HeldInv, TypeOK, Die, LogAssumption
  <2>. QED BY <1>1, <1>2, <2>1, <2>2, <2>3 DEF HeldInv, TypeOK, TickState
<1>4. Mine(t)' = {}
  BY <1>1 DEF Mine, Nothing
<1>5. (Placed(t) /\ Parted(t) /\ Held(t) /\ PutsBack(t))'
  BY <1>1, <1>4 DEF Placed, Outlived, Parted, Held, PutsBack, Nothing, Alike, Whole
<1>6. AttemptLeft'
  BY <1>2 DEF HeldInv, AttemptLeft
<1>. QED BY <1>1, <1>2, <1>3, <1>4, <1>5, <1>6, HeldTick

LEMMA HeldNext ==
    ASSUME LogAssumption, HeldInv, [Next]_vars PROVE HeldInv'
<1>1. CASE UNCHANGED vars
  <2>1. \A t \in Ticks : Mine(t)' = Mine(t)
    BY <1>1 DEF vars, Mine
  <2>2. TypeOK' /\ AttemptLeft'
    BY <1>1 DEF vars, log, setting, outside, marks, HeldInv, TypeOK, AttemptLeft
  <2>. QED BY <1>1, <2>2, HeldRows DEF vars, log, marks, HeldInv
<1>. QED BY <1>1, HeldSchedule, HeldTurnOff, HeldSkipQueued, HeldBegin, HeldReap, HeldClaimDue,
       HeldNextGroup, HeldCap, HeldPush, HeldWrite, HeldDie, HeldAdvance DEF Next

(* What a tick holds is its own until its claims expire, at every moment.  *)
THEOREM HeldAlways == Spec => []HeldInv
BY LogAssumption, HeldInit, HeldNext, PTL DEF Spec

(* TypeOK: no count runs past its limit (a fourth attempt, one attempt too *)
(* few), and no row is put off beyond a window.                            *)
THEOREM LogTypeCorrect == Spec => []TypeOK
<1>1. HeldInv => TypeOK
  BY DEF HeldInv
<1>. QED BY <1>1, HeldAlways, PTL

(* RowsHeldOnce: whatever is due and however ticks overlap, the rows a     *)
(* living tick claimed stay claimed and are no other tick's until its      *)
(* claims expire.                                                          *)
THEOREM HeldByOne == Spec => []RowsHeldOnce
<1>1. HeldInv => RowsHeldOnce
  BY DEF HeldInv, Held, Apart, RowsHeldOnce
<1>. QED BY <1>1, HeldAlways, PTL

-----------------------------------------------------------------------------
(* How often a row is pushed.                                              *)

Landing(t) == tick[t] = "write" /\ local[t].put = "sent"

Landed(n) == \E t \in Ticks : Landing(t) /\ n \in local[t].group

(* Of the rows no tick has outlived its claim on, only one whose push is    *)
(* recorded, or about to be, may have been pushed more often than there    *)
(* were faults.                                                            *)
Pushed ==
    \A n \in Notes \ stray :
        /\ pushes[n] <= 1 + faults
        /\ status[n] \in Waiting => pushes[n] <= faults
        /\ status[n] = "sending" /\ ~Landed(n) => pushes[n] <= faults

LEMMA CountsType ==
    ASSUME TypeOK, [Next]_vars
    PROVE  faults \in Int /\ faults' \in Int /\ faults <= faults' /\ stray \subseteq stray'
           /\ \A n \in Notes : pushes[n] \in Int /\ tried[n] \in Int /\ tries[n] \in Int
<1>1. faults' \in {faults, faults + 1}
  BY DEF Next, vars, Schedule, TurnOff, SkipQueued, Begin, Reap, ClaimDue, NextGroup, Cap,
     Push, Write, Die, Advance
<1>2. stray \subseteq stray'
  BY DEF Next, vars, marks, Schedule, TurnOff, SkipQueued, Begin, Reap, ClaimDue, NextGroup, Cap,
     Push, Write, Die, Advance
<1>. QED BY <1>1, <1>2 DEF TypeOK

(* What a step of tick t other than its push leaves of the push counts.    *)
LEMMA LandedElsewhere ==
    ASSUME HeldInv, NEW t \in Ticks, ~Landing(t),
           \A u \in Ticks \ {t} : tick'[u] = tick[u] /\ local'[u] = local[u]
    PROVE  \A n \in Notes : Landed(n) => Landed(n)'
BY DEF Landed, Landing

LEMMA ReapsUnlanded ==
    ASSUME LogAssumption, HeldInv, NEW t \in Ticks, Reap(t), NEW n \in Notes \ stray, status'[n] # status[n]
    PROVE  status[n] = "sending" /\ ~Landed(n) /\ status'[n] \in {"failed", "scheduled"}
BY ReapsUnheld DEF Reap, HeldInv, TypeOK, Landed, Mine, Expired

LEMMA PushedQuiet ==
    ASSUME LogAssumption, HeldInv, Pushed, UNCHANGED <<pushes, faults>>, stray \subseteq stray',
           \A n \in Notes \ stray :
               /\ \/ status'[n] = status[n]
                  \/ status'[n] = "skipped"
                  \/ status[n] \in Waiting
                  \/ status[n] = "sending" /\ ~Landed(n)
               /\ Landed(n) => Landed(n)'
    PROVE  Pushed'
BY DEF Pushed, Waiting

LEMMA PushedNext ==
    ASSUME LogAssumption, HeldInv, [Next]_vars, Pushed PROVE Pushed'
<1>0. stray \subseteq stray'
  BY CountsType DEF HeldInv
<1>1. ASSUME NEW n \in Notes, Schedule(n) PROVE Pushed'
  BY <1>0, <1>1, PushedQuiet DEF Schedule, outside, Landed, Landing, Waiting, HeldInv, TypeOK
<1>2. ASSUME NEW k \in Kinds, TurnOff(k) PROVE Pushed'
  BY <1>0, <1>2, PushedQuiet DEF TurnOff, log, outside, Landed, Landing
<1>3. ASSUME NEW k \in Kinds, SkipQueued(k) PROVE Pushed'
  BY <1>0, <1>3, PushedQuiet DEF SkipQueued, outside, Landed, Landing, HeldInv, TypeOK
<1>4. CASE Advance
  BY <1>0, <1>4, PushedQuiet DEF Advance, log, outside, Landed, Landing
<1>5. CASE UNCHANGED vars
  BY <1>0, <1>5, PushedQuiet DEF vars, log, outside, Landed, Landing
<1>6. ASSUME NEW t \in Ticks, Begin(t) \/ Reap(t) \/ ClaimDue(t) \/ NextGroup(t) \/ Cap(t)
      PROVE  Pushed'
  <2>1. ~Landing(t) /\ UNCHANGED <<pushes, faults>>
    BY <1>6 DEF Begin, Reap, ClaimDue, NextGroup, Cap, Step, Landing, outside
  <2>2. \A u \in Ticks \ {t} : tick'[u] = tick[u] /\ local'[u] = local[u]
    BY <1>6 DEF HeldInv, TypeOK, Begin, Reap, ClaimDue, NextGroup, Cap, Step
  <2>3. \A n \in Notes : Landed(n) => Landed(n)'
    BY <2>1, <2>2, LandedElsewhere
  <2>4. ASSUME NEW n \in Notes \ stray, status'[n] # status[n]
        PROVE  status[n] \in Waiting \/ (status[n] = "sending" /\ ~Landed(n))
    <3>1. CASE Reap(t)
      BY <2>4, <3>1, ReapsUnlanded
    <3>2. CASE ClaimDue(t)
      BY <2>4, <3>2 DEF ClaimDue, Waiting
    <3>. QED BY <1>6, <2>4, <3>1, <3>2 DEF Begin, NextGroup, Cap, log
  <2>. QED BY <1>0, <2>1, <2>3, <2>4, PushedQuiet
<1>7. ASSUME NEW t \in Ticks, Push(t) PROVE Pushed'
  <2>. DEFINE g == local[t].group
  <2>1. /\ tick[t] = "push" /\ tick'[t] = "write" /\ UNCHANGED status
        /\ \A u \in Ticks \ {t} : tick'[u] = tick[u] /\ local'[u] = local[u]
    BY <1>7 DEF Push, Step, HeldInv, TypeOK, NoneTookIt, log
  <2>2. ~Landing(t) /\ \A n \in Notes : Landed(n) => Landed(n)'
    BY <2>1, LandedElsewhere DEF Landing
  <2>3. \A n \in g \ stray : n \in Notes /\ status[n] = "sending" /\ ~Landed(n)
    <3>1. \A n \in g : n \in Mine(t)
      BY DEF Mine
    <3>2. ASSUME NEW n \in g \ stray, NEW u \in Ticks, Landing(u), n \in local[u].group PROVE FALSE
      <4>1. u # t /\ n \in Mine(u)
        BY <2>2, <3>2 DEF Mine
      <4>. QED BY <3>1, <4>1 DEF HeldInv, Apart
    <3>. QED BY <3>1, <3>2, LocalType DEF HeldInv, Held, Landed
  <2>4. CASE UNCHANGED <<pushes, faults>>
    BY <1>0, <2>1, <2>2, <2>4, PushedQuiet
  <2>5. CASE Reached(t) /\ UNCHANGED faults /\ local'[t].put = "sent" /\ local'[t].group = g
    <3>1. \A n \in g : Landed(n)'
      BY <2>1, <2>5 DEF Landed, Landing
    <3>2. \A n \in Notes \ g : pushes'[n] = pushes[n]
      BY <2>5 DEF Reached
    <3>3. \A n \in g \ stray : pushes'[n] = pushes[n] + 1 /\ pushes[n] <= faults
      BY <2>3, <2>5 DEF Reached, Pushed
    <3>. QED BY <1>0, <2>1, <2>2, <2>3, <2>5, <3>1, <3>2, <3>3, CountsType DEF HeldInv, Pushed, Waiting
  <2>6. CASE Reached(t) /\ faults' = faults + 1
    <3>1. \A n \in Notes : pushes'[n] = IF n \in g THEN pushes[n] + 1 ELSE pushes[n]
      BY <2>6 DEF Reached
    <3>. QED BY <1>0, <2>1, <2>2, <2>3, <2>6, <3>1, CountsType DEF HeldInv, Pushed, Waiting
  <2>7. local \in [Ticks -> TickState]
    BY DEF HeldInv, TypeOK, TickState
  <2>. QED BY <1>7, <2>4, <2>5, <2>6, <2>7 DEF Push, outside, TickState
<1>8. ASSUME NEW t \in Ticks, Write(t) PROVE Pushed'
  <2>1. /\ \A u \in Ticks \ {t} : tick'[u] = tick[u] /\ local'[u] = local[u]
        /\ UNCHANGED <<pushes, faults>>
        /\ \A n \in Notes : status'[n] = IF n \in local[t].group THEN local[t].put ELSE status[n]
    BY <1>8 DEF Write, Step, HeldInv, TypeOK, outside
  <2>2. tick[t] = "write" /\ local[t].put \in Puts
    BY <1>8 DEF Write, HeldInv, Placed
  <2>3. ASSUME NEW n \in Notes, n \notin local[t].group PROVE Landed(n) => Landed(n)'
    BY <2>1, <2>3 DEF Landed, Landing
  <2>4. ASSUME NEW n \in local[t].group \ stray, local[t].put # "sent"
        PROVE  n \in Notes /\ status[n] = "sending" /\ ~Landed(n)
    <3>1. n \in Mine(t)
      BY DEF Mine
    <3>2. ASSUME NEW u \in Ticks, Landing(u), n \in local[u].group PROVE FALSE
      BY <2>4, <3>1, <3>2 DEF HeldInv, Apart, Landing, Mine
    <3>. QED BY <3>1, <3>2, LocalType DEF HeldInv, Held, Landed
  <2>. QED BY <1>0, <2>1, <2>2, <2>3, <2>4, CountsType DEF HeldInv, Pushed, Puts, Waiting
<1>9. ASSUME NEW t \in Ticks, Die(t) PROVE Pushed'
  <2>1. /\ \A u \in Ticks \ {t} : tick'[u] = tick[u] /\ local'[u] = local[u]
        /\ faults' = faults + 1 /\ UNCHANGED status
    BY <1>9 DEF Die, HeldInv, TypeOK, log
  <2>2. CASE UNCHANGED pushes
    BY <1>0, <2>1, <2>2, CountsType DEF HeldInv, Pushed
  <2>3. CASE tick[t] = "push" /\ Reached(t)
    <3>1. \A n \in Notes : pushes'[n] = IF n \in local[t].group THEN pushes[n] + 1 ELSE pushes[n]
      BY <2>3 DEF Reached
    <3>2. \A n \in Notes : Landed(n) => Landed(n)'
      BY <2>1, <2>3, LandedElsewhere DEF Landing
    <3>3. ASSUME NEW n \in local[t].group \ stray PROVE n \in Notes /\ status[n] = "sending" /\ ~Landed(n)
      <4>1. n \in Mine(t)
        BY DEF Mine
      <4>2. ASSUME NEW u \in Ticks, Landing(u), n \in local[u].group PROVE FALSE
        BY <2>3, <4>1, <4>2 DEF HeldInv, Apart, Landing, Mine
      <4>. QED BY <4>1, <4>2, LocalType DEF HeldInv, Held, Landed
    <3>. QED BY <1>0, <2>1, <3>1, <3>2, <3>3, CountsType DEF HeldInv, Pushed, Waiting
  <2>. QED BY <1>9, <2>2, <2>3 DEF Die, outside
<1>. QED BY <1>1, <1>2, <1>3, <1>4, <1>5, <1>6, <1>7, <1>8, <1>9 DEF Next

(* NotifiedOnce: a row no tick outlived its claim on reaches a device       *)
(* once, and once more per tick that died or answer lost at most.          *)
THEOREM OncePerFault == Spec => []NotifiedOnce
<1>1. Init => Pushed
  BY DEF Init, Pushed
<1>2. HeldInv /\ Pushed /\ [Next]_vars => Pushed'
  BY LogAssumption, PushedNext
<1>3. Pushed => NotifiedOnce
  BY DEF Pushed, NotifiedOnce
<1>. QED BY <1>1, <1>2, <1>3, HeldAlways, PTL DEF Spec
-----------------------------------------------------------------------------
(* How often a row is tried before it is given up.                         *)

(* The push with n is still to come, or is not to be: the kind was turned  *)
(* off, there is no device, or the cap holds it.                           *)
ToTry(t, n) ==
    /\ n \in Mine(t)
    /\ n \in local[t].group /\ tick[t] = "write" =>
         local[t].put = "skipped" \/ (local[t].put = "scheduled" /\ ~local[t].counts)

Untried(n) == \E t \in Ticks : ToTry(t, n)

(* Attempts counted without a try: one at most per fault, and the one under *)
(* way.                                                                    *)
Booked(n) ==
    /\ status[n] \in Waiting => tries[n] <= tried[n] + faults
    /\ status[n] = "sending" => tries[n] <= tried[n] + faults + 1
    /\ status[n] = "sending" /\ ~Untried(n) => tries[n] <= tried[n] + faults

Counted == \A n \in Notes \ stray : Booked(n)

(* Some row it may have gone in one push with was tried to the end, or was *)
(* held beyond its claim.                                                  *)
GivenUp(n) == \E m \in Fellows(n) : m \in stray \/ tried[m] + faults >= MaxAttempts

Lost == \A n \in Notes : status[n] = "failed" => GivenUp(n)

(* A push is given up for a row of it that has no attempt left.            *)
Spent(t) ==
    tick[t] = "write" /\ local[t].put = "failed" =>
        \E n \in local[t].group : n \in stray \/ tries[n] >= MaxAttempts

TriedInv == Counted /\ Lost /\ \A t \in Ticks : Spent(t)

LEMMA GroupFellows ==
    ASSUME HeldInv, NEW t \in Ticks, NEW n \in local[t].group
    PROVE  local[t].group \subseteq Fellows(n) /\ n \in Notes /\ n \in Fellows(n)
<1>1. Whole(local[t].group)
  BY DEF HeldInv, Parted
<1>2. local[t].group \subseteq Notes
  BY LocalType DEF HeldInv, Mine
<1>. QED BY <1>1, <1>2 DEF Whole, Alike, Fellows

(* A row given up stays so: what is counted of a try only grows.           *)
LEMMA GivenUpStays ==
    ASSUME TypeOK, stray \subseteq stray', faults' \in Int, faults' >= faults,
           \A n \in Notes : tried'[n] \in Int /\ tried'[n] >= tried[n],
           NEW n \in Notes, GivenUp(n)
    PROVE  GivenUp(n)'
<1>1. PICK m \in Fellows(n) : m \in stray \/ tried[m] + faults >= MaxAttempts
  BY DEF GivenUp
<1>2. m \in Notes
  BY DEF Fellows
<1>3. tried[m] \in Int /\ faults \in Int /\ MaxAttempts \in Int
  BY <1>2 DEF TypeOK, MaxAttempts
<1>4. m \in stray' \/ tried'[m] + faults' >= MaxAttempts
  BY <1>1, <1>2, <1>3
<1>. QED BY <1>4 DEF GivenUp, Fellows

LEMMA HeldApart ==
    ASSUME HeldInv, NEW t \in Ticks, NEW n \in Mine(t) \ stray
    PROVE  /\ n \in Notes /\ status[n] = "sending" /\ tries[n] >= 1
           /\ \A u \in Ticks \ {t} : n \notin Mine(u)
BY LocalType DEF HeldInv, Held, Apart

(* A step that changes neither tries nor what the ticks hold.              *)
LEMMA TriedQuiet ==
    ASSUME HeldInv, TriedInv, UNCHANGED <<tries, tried, faults, tick, local>>, stray \subseteq stray',
           \A n \in Notes : \/ status'[n] = status[n]
                            \/ status[n] = "none" /\ status'[n] = "scheduled"
                            \/ status'[n] = "skipped"
    PROVE  TriedInv'
<1>1. \A n \in Notes : Untried(n) <=> Untried(n)'
  BY DEF Untried, ToTry, Mine
<1>2. Counted'
  BY <1>1 DEF TriedInv, Counted, Booked, Waiting
<1>3. \A t \in Ticks : Spent(t)'
  BY DEF TriedInv, Spent
<1>4. Lost'
  <2>1. faults' \in Int /\ faults' >= faults /\ \A n \in Notes : tried'[n] \in Int /\ tried'[n] >= tried[n]
    BY DEF HeldInv, TypeOK
  <2>2. ASSUME NEW n \in Notes, status'[n] = "failed" PROVE GivenUp(n)
    BY <2>2 DEF TriedInv, Lost
  <2>. QED BY <2>1, <2>2, GivenUpStays DEF Lost, HeldInv
<1>. QED BY <1>2, <1>3, <1>4 DEF TriedInv

(* A step of tick t after which it holds what it held, as untried as it was. *)
LEMMA TriedStep ==
    ASSUME HeldInv, TypeOK', TriedInv, NEW t \in Ticks,
           UNCHANGED <<status, tries, tried, faults, stray>>,
           \A u \in Ticks \ {t} : tick'[u] = tick[u] /\ local'[u] = local[u],
           \A n \in Notes : ToTry(t, n) => ToTry(t, n)',
           Spent(t)'
    PROVE  TriedInv'
<1>1. \A u \in Ticks \ {t} : \A n \in Notes : ToTry(u, n) => ToTry(u, n)'
  BY DEF ToTry, Mine
<1>2. \A n \in Notes : Untried(n) => Untried(n)'
  BY <1>1 DEF Untried
<1>3. Counted'
  BY <1>2 DEF TriedInv, Counted, Booked
<1>4. \A u \in Ticks \ {t} : Spent(u)'
  BY DEF TriedInv, Spent
<1>5. Lost'
  BY DEF TriedInv, Lost, GivenUp, Fellows
<1>. QED BY <1>3, <1>4, <1>5 DEF TriedInv

LEMMA TriedReap ==
    ASSUME LogAssumption, HeldInv, TypeOK', TriedInv, NEW t \in Ticks, Reap(t) PROVE TriedInv'
<1>1. /\ tick[t] = "reap" /\ UNCHANGED <<tries, tried, faults, local, stray>>
      /\ tick'[t] = "claim" /\ \A u \in Ticks \ {t} : tick'[u] = tick[u]
  BY DEF Reap, Step, outside, marks, HeldInv, TypeOK
<1>2. \A n \in Notes : Untried(n) => Untried(n)'
  BY <1>1 DEF Untried, ToTry, Mine
<1>3. ASSUME NEW n \in Notes \ stray, status'[n] # status[n]
      PROVE  status[n] = "sending" /\ ~Untried(n) /\ status'[n] = Expired(n)
  <2>1. status[n] = "sending" /\ status'[n] = Expired(n)
    BY <1>3 DEF Reap
  <2>2. ~Untried(n)
    BY <1>3, ReapsUnheld DEF Untried, ToTry
  <2>. QED BY <2>1, <2>2
<1>4. ASSUME NEW n \in Notes \ stray PROVE Booked(n)'
  BY <1>1, <1>2, <1>3, CountsType DEF TriedInv, Counted, Booked, Waiting, Expired, HeldInv, TypeOK, MaxAttempts
<1>5. \A u \in Ticks : Spent(u)'
  BY <1>1 DEF TriedInv, Spent
<1>6. Lost'
  <2>1. ASSUME NEW n \in Notes, status'[n] = "failed" PROVE GivenUp(n)
    <3>1. CASE status[n] = "failed"
      BY <3>1 DEF TriedInv, Lost
    <3>2. CASE n \in stray
      BY <3>2 DEF GivenUp, Fellows
    <3>3. CASE status[n] # "failed" /\ n \notin stray
      <4>1. status[n] = "sending" /\ ~Untried(n) /\ Expired(n) = "failed"
        BY <1>3, <2>1, <3>3
      <4>2. tries[n] >= MaxAttempts /\ tries[n] <= tried[n] + faults
        BY <3>3, <4>1 DEF Expired, TriedInv, Counted, Booked
      <4>3. tries[n] \in Int /\ tried[n] + faults \in Int
        BY DEF HeldInv, TypeOK
      <4>. QED BY <4>2, <4>3 DEF GivenUp, Fellows, MaxAttempts
    <3>. QED BY <3>1, <3>2, <3>3
  <2>. QED BY <1>1, <2>1 DEF Lost, GivenUp, Fellows
<1>. QED BY <1>1, <1>4, <1>5, <1>6 DEF TriedInv, Counted

LEMMA TriedClaimDue ==
    ASSUME LogAssumption, HeldInv, TriedInv, NEW t \in Ticks, ClaimDue(t) PROVE TriedInv'
<1>. DEFINE mine == {n \in Notes : status[n] = "scheduled" /\ due[n] <= local[t].at}
<1>1. /\ tick[t] = "claim" /\ UNCHANGED <<tried, faults>> /\ stray \subseteq stray'
      /\ \A u \in Ticks \ {t} : tick'[u] = tick[u] /\ local'[u] = local[u]
  BY DEF ClaimDue, Step, outside, HeldInv, TypeOK
<1>2. \A n \in mine : status'[n] = "sending" /\ tries'[n] = tries[n] + 1
  BY DEF ClaimDue
<1>3. \A n \in Notes \ mine : status'[n] = status[n] /\ tries'[n] = tries[n]
  BY DEF ClaimDue
<1>4. Mine(t) = {}
  BY <1>1 DEF HeldInv, Placed, Mine
<1>5. \/ mine = {} /\ tick'[t] = "off" /\ local'[t] = Nothing
      \/ tick'[t] = "next" /\ local'[t].groups = GroupsOf(mine) /\ local'[t].group = local[t].group
  BY DEF ClaimDue, Step, HeldInv, TypeOK
<1>6. \A n \in Notes : Untried(n) => Untried(n)'
  <2>1. \A u \in Ticks \ {t} : \A n \in Notes : ToTry(u, n) => ToTry(u, n)'
    BY <1>1 DEF ToTry, Mine
  <2>2. \A n \in Notes : ~ToTry(t, n)
    BY <1>4 DEF ToTry
  <2>. QED BY <2>1, <2>2 DEF Untried
<1>7. ASSUME NEW n \in mine PROVE Untried(n)'
  <2>1. tick'[t] = "next" /\ local'[t].groups = GroupsOf(mine)
    BY <1>5
  <2>2. n \in UNION GroupsOf(mine)
    <3>. HIDE DEF mine
    <3>1. mine \subseteq Notes
      BY DEF mine
    <3>. QED BY <3>1, GroupsOfRows
  <2>3. n \in Mine(t)'
    <3>. HIDE DEF mine
    <3>. QED BY <2>1, <2>2 DEF Mine
  <2>. QED BY <2>1, <2>3 DEF Untried, ToTry
<1>8. Counted'
  <2>1. \A n \in mine : status[n] = "scheduled" /\ n \in Notes
    OBVIOUS
  <2>. HIDE DEF mine
  <2>. QED BY <1>1, <1>2, <1>3, <1>6, <1>7, <2>1, CountsType DEF TriedInv, Counted, Booked, Waiting, HeldInv, TypeOK
<1>9. ASSUME NEW u \in Ticks, u # t PROVE Spent(u)'
  <2>1. \A n \in local[u].group \ stray : n \in Notes /\ n \notin mine
    BY <1>9, HeldApart DEF Mine
  <2>. HIDE DEF mine
  <2>. QED BY <1>1, <1>3, <1>9, <2>1 DEF TriedInv, Spent
<1>10. Spent(t)'
  <2>. HIDE DEF mine
  <2>. QED BY <1>5 DEF Spent
<1>11. Lost'
  <2>1. \A n \in Notes : status'[n] = "failed" => status[n] = "failed"
    BY DEF ClaimDue
  <2>2. \A n \in Notes : GivenUp(n) => GivenUp(n)'
    BY <1>1 DEF GivenUp, Fellows
  <2>. QED BY <2>1, <2>2 DEF TriedInv, Lost
<1>. QED BY <1>8, <1>9, <1>10, <1>11 DEF TriedInv

LEMMA TriedPush ==
    ASSUME LogAssumption, HeldInv, TriedInv, NEW t \in Ticks, Push(t) PROVE TriedInv'
<1>. DEFINE g == local[t].group
<1>1. /\ tick[t] = "push" /\ tick'[t] = "write" /\ UNCHANGED <<status, tries, stray>>
      /\ \A u \in Ticks \ {t} : tick'[u] = tick[u] /\ local'[u] = local[u]
      /\ local'[t].group = g /\ local'[t].groups = local[t].groups
      /\ faults' \in {faults, faults + 1}
  BY DEF Push, Step, NoneTookIt, log, marks, HeldInv, TypeOK
<1>2. \A n \in g : n \in Mine(t)
  BY DEF Mine
<1>3. Mine(t)' = Mine(t)
  BY <1>1 DEF Mine
<1>4. ASSUME NEW u \in Ticks PROVE Spent(u)'
  <2>1. CASE u # t
    BY <1>1, <2>1 DEF TriedInv, Spent
  <2>2. local'[t].put = "failed" => LastAttempt(g)
    BY DEF Push, NoneTookIt, HeldInv, TypeOK
  <2>3. CASE u = t
    BY <1>1, <2>2, <2>3 DEF Spent, LastAttempt
  <2>. QED BY <2>1, <2>3
<1>5. \A u \in Ticks \ {t} : \A n \in Notes : ToTry(u, n) => ToTry(u, n)'
  BY <1>1 DEF ToTry, Mine
<1>6. \A n \in Notes \ g : Untried(n) => Untried(n)'
  BY <1>1, <1>3, <1>5 DEF Untried, ToTry
<1>9. Lost'
  <2>1. \A n \in Notes : tried'[n] \in Int /\ tried'[n] >= tried[n]
    BY DEF Push, Tried, outside, HeldInv, TypeOK
  <2>2. faults' \in Int /\ faults' >= faults
    BY <1>1 DEF HeldInv, TypeOK
  <2>. QED BY <1>1, <2>1, <2>2, GivenUpStays DEF HeldInv, TriedInv, Lost
<1>7. CASE Tried(t)
  <2>1. \A n \in Notes : tried'[n] = IF n \in g THEN tried[n] + 1 ELSE tried[n]
    BY <1>7 DEF Tried
  <2>2. \A n \in g \ stray : n \in Notes /\ status[n] = "sending"
    BY <1>2, HeldApart
  <2>3. ASSUME NEW n \in Notes \ stray PROVE Booked(n)'
    <3>1. /\ tries[n] \in Int /\ tried[n] \in Int /\ faults \in Int
          /\ status'[n] = status[n] /\ tries'[n] = tries[n]
      BY <1>1 DEF HeldInv, TypeOK
    <3>2. CASE n \in g
      <4>1. tried'[n] = tried[n] + 1 /\ status[n] = "sending"
        BY <2>1, <2>2, <3>2
      <4>. QED BY <1>1, <3>1, <4>1 DEF TriedInv, Counted, Booked, Waiting
    <3>3. CASE n \notin g
      <4>1. tried'[n] = tried[n] /\ (Untried(n) => Untried(n)')
        BY <1>6, <2>1, <3>3
      <4>. QED BY <1>1, <3>1, <4>1 DEF TriedInv, Counted, Booked, MaxAttempts
    <3>. QED BY <3>2, <3>3
  <2>. QED BY <1>1, <1>4, <1>9, <2>3 DEF TriedInv, Counted
<1>8. CASE local'[t].put = "skipped" /\ UNCHANGED <<tried, faults>>
  <2>1. \A n \in g : ToTry(t, n)'
    BY <1>2, <1>3, <1>8 DEF ToTry
  <2>. QED BY <1>1, <1>4, <1>6, <1>8, <1>9, <2>1 DEF TriedInv, Counted, Booked, Untried
<1>. QED BY <1>7, <1>8 DEF Push, outside, HeldInv, TypeOK

LEMMA TriedWrite ==
    ASSUME LogAssumption, HeldInv, TriedInv, NEW t \in Ticks, Write(t) PROVE TriedInv'
<1>. DEFINE g == local[t].group
            put == local[t].put
<1>1. /\ tick[t] = "write" /\ put \in Puts /\ UNCHANGED <<tried, faults, stray>>
      /\ \A u \in Ticks \ {t} : tick'[u] = tick[u] /\ local'[u] = local[u]
  BY DEF Write, Step, outside, marks, HeldInv, TypeOK, Placed
<1>2. \A n \in Notes \ g : status'[n] = status[n] /\ tries'[n] = tries[n]
  BY DEF Write, HeldInv, TypeOK
<1>3. \A n \in g \ stray :
                   /\ n \in Notes /\ status[n] = "sending" /\ status'[n] = put
                   /\ tries'[n] = IF put = "scheduled" /\ ~local[t].counts THEN tries[n] - 1 ELSE tries[n]
  <2>1. \A n \in g : n \in Mine(t)
    BY DEF Mine
  <2>. QED BY <2>1, HeldApart DEF Write
<1>4. /\ local'[t].group = {} /\ local'[t].groups = local[t].groups
      /\ tick'[t] \in {"off", "next"}
  <2>1. CASE local[t].groups = {}
    BY <2>1 DEF Write, Step, HeldInv, TypeOK, Nothing
  <2>2. CASE local[t].groups # {}
    <3>1. /\ tick'[t] = "next"
          /\ local'[t] = [Nothing EXCEPT !.at = local[t].at, !.groups = local[t].groups]
      BY <2>2 DEF Write, Step, HeldInv, TypeOK
    <3>. QED BY <3>1 DEF Nothing
  <2>. QED BY <2>1, <2>2
<1>5. \A n \in Notes \ g : Untried(n) => Untried(n)'
  <2>1. \A u \in Ticks \ {t} : \A n \in Notes : ToTry(u, n) => ToTry(u, n)'
    BY <1>1 DEF ToTry, Mine
  <2>2. \A n \in Notes \ g : ToTry(t, n) => ToTry(t, n)'
    BY <1>4 DEF ToTry, Mine
  <2>. QED BY <2>1, <2>2 DEF Untried
<1>6. ASSUME NEW n \in g \ stray
      PROVE  Untried(n) => put = "skipped" \/ (put = "scheduled" /\ ~local[t].counts)
  <2>1. n \in Mine(t)
    BY DEF Mine
  <2>. QED BY <1>1, <2>1, HeldApart DEF Untried, ToTry
<1>7. Lost'
  <2>1. ASSUME NEW n \in g, put = "failed" PROVE GivenUp(n)
    <3>1. PICK m \in g : m \in stray \/ tries[m] >= MaxAttempts
      BY <1>1, <2>1 DEF TriedInv, Spent
    <3>2. m \in Fellows(n) /\ m \in Notes
      BY GroupFellows
    <3>3. CASE m \in stray
      BY <3>2, <3>3 DEF GivenUp
    <3>4. CASE m \notin stray
      <4>1. tries[m] <= tried[m] + faults
        BY <1>3, <1>6, <2>1, <3>2, <3>4 DEF TriedInv, Counted, Booked
      <4>2. tries[m] \in Int /\ tried[m] + faults \in Int
        BY <3>2 DEF HeldInv, TypeOK
      <4>3. tried[m] + faults >= MaxAttempts
        BY <3>1, <3>4, <4>1, <4>2 DEF MaxAttempts
      <4>. QED BY <3>2, <4>3 DEF GivenUp
    <3>. QED BY <3>3, <3>4
  <2>2. ASSUME NEW n \in Notes, status'[n] = "failed" PROVE GivenUp(n)
    <3>1. CASE n \in g
      BY <2>1, <2>2, <3>1 DEF Write
    <3>2. CASE n \notin g
      BY <1>2, <2>2, <3>2 DEF TriedInv, Lost
    <3>. QED BY <3>1, <3>2
  <2>. QED BY <1>1, <2>2 DEF Lost, GivenUp, Fellows
<1>8. Counted'
  <2>1. ASSUME NEW n \in Notes \ stray, n \notin g PROVE Booked(n)'
    BY <1>1, <1>2, <1>5, <2>1 DEF TriedInv, Counted, Booked
  <2>2. ASSUME NEW n \in g \ stray PROVE Booked(n)'
    <3>1. /\ tries[n] \in Int /\ tried[n] \in Int /\ faults \in Int
      BY <1>3 DEF HeldInv, TypeOK
    <3>. QED BY <1>1, <1>3, <1>6, <3>1 DEF TriedInv, Counted, Booked, Waiting, Puts
  <2>. QED BY <1>1, <2>1, <2>2 DEF Counted
<1>9. ASSUME NEW u \in Ticks, u # t PROVE Spent(u)'
  <2>1. \A n \in local[u].group \ stray : n \in Notes \ g
    BY <1>9, HeldApart DEF Mine
  <2>. QED BY <1>1, <1>2, <1>9, <2>1 DEF TriedInv, Spent
<1>10. Spent(t)'
  BY <1>4 DEF Spent
<1>. QED BY <1>7, <1>8, <1>9, <1>10 DEF TriedInv

LEMMA TriedDie ==
    ASSUME LogAssumption, HeldInv, TriedInv, NEW t \in Ticks, Die(t) PROVE TriedInv'
<1>1. /\ UNCHANGED <<status, tries, stray>> /\ faults' = faults + 1
      /\ \A u \in Ticks \ {t} : tick'[u] = tick[u] /\ local'[u] = local[u]
      /\ tick'[t] = "off" /\ local'[t] = Nothing
  BY DEF Die, log, marks, HeldInv, TypeOK
<1>2. \A n \in Notes : tried'[n] >= tried[n]
  BY DEF Die, outside, Tried, HeldInv, TypeOK
<1>3. \A n \in Notes : tried[n] \in Int /\ tried'[n] \in Int /\ tries[n] \in Int /\ faults \in Int
  BY DEF Die, outside, Tried, HeldInv, TypeOK
<1>4. Counted'
  BY <1>1, <1>2, <1>3 DEF TriedInv, Counted, Booked, Waiting, MaxAttempts
<1>5. \A u \in Ticks : Spent(u)'
  BY <1>1 DEF TriedInv, Spent, Nothing
<1>6. Lost'
  <2>1. faults' \in Int /\ faults' >= faults
    BY <1>1 DEF HeldInv, TypeOK
  <2>. QED BY <1>1, <1>2, <1>3, <2>1, GivenUpStays DEF HeldInv, TriedInv, Lost
<1>. QED BY <1>4, <1>5, <1>6 DEF TriedInv

LEMMA TriedNext ==
    ASSUME LogAssumption, HeldInv, TypeOK', [Next]_vars, TriedInv PROVE TriedInv'
<1>0. stray \subseteq stray'
  BY CountsType DEF HeldInv
<1>1. ASSUME NEW n \in Notes, Schedule(n) PROVE TriedInv'
  BY <1>0, <1>1, TriedQuiet DEF Schedule, outside, HeldInv, TypeOK
<1>2. ASSUME NEW k \in Kinds, TurnOff(k) PROVE TriedInv'
  BY <1>0, <1>2, TriedQuiet DEF TurnOff, log, outside
<1>3. ASSUME NEW k \in Kinds, SkipQueued(k) PROVE TriedInv'
  BY <1>0, <1>3, TriedQuiet DEF SkipQueued, outside, HeldInv, TypeOK
<1>4. CASE Advance
  BY <1>0, <1>4, TriedQuiet DEF Advance, log, outside
<1>5. CASE UNCHANGED vars
  BY <1>0, <1>5, TriedQuiet DEF vars, log, outside
<1>6. ASSUME NEW t \in Ticks, Begin(t) PROVE TriedInv'
  <2>1. /\ tick'[t] = "reap" /\ local'[t].groups = local[t].groups /\ local'[t].group = local[t].group
        /\ \A u \in Ticks \ {t} : tick'[u] = tick[u] /\ local'[u] = local[u]
        /\ UNCHANGED <<status, tries, tried, faults, stray>>
    BY <1>6 DEF Begin, Step, log, outside, HeldInv, TypeOK
  <2>2. (\A n \in Notes : ToTry(t, n) => ToTry(t, n)') /\ Spent(t)'
    BY <2>1 DEF ToTry, Mine, Spent
  <2>. QED BY <2>1, <2>2, TriedStep
<1>7. ASSUME NEW t \in Ticks, NextGroup(t) PROVE TriedInv'
  <2>1. PICK g \in local[t].groups :
           /\ local'[t].groups = local[t].groups \ {g} /\ local'[t].group = g
           /\ tick'[t] = "write" => local'[t].put = "skipped"
           /\ \A u \in Ticks \ {t} : tick'[u] = tick[u] /\ local'[u] = local[u]
           /\ UNCHANGED <<status, tries, tried, faults, stray>>
    BY <1>7 DEF NextGroup, Step, log, outside, marks, HeldInv, TypeOK
  <2>2. local[t].group = {}
    BY <1>7 DEF NextGroup, Step, HeldInv, Placed
  <2>3. (\A n \in Notes : ToTry(t, n) => ToTry(t, n)') /\ Spent(t)'
    BY <2>1, <2>2 DEF ToTry, Mine, Spent
  <2>. QED BY <2>1, <2>3, TriedStep
<1>8. ASSUME NEW t \in Ticks, Cap(t) PROVE TriedInv'
  <2>1. /\ local'[t].groups = local[t].groups /\ local'[t].group = local[t].group
        /\ tick'[t] = "write" => local'[t].put = "scheduled" /\ ~local'[t].counts
        /\ \A u \in Ticks \ {t} : tick'[u] = tick[u] /\ local'[u] = local[u]
        /\ UNCHANGED <<status, tries, tried, faults, stray>>
    BY <1>8 DEF Cap, Step, log, outside, marks, HeldInv, TypeOK
  <2>2. (\A n \in Notes : ToTry(t, n) => ToTry(t, n)') /\ Spent(t)'
    BY <2>1 DEF ToTry, Mine, Spent
  <2>. QED BY <2>1, <2>2, TriedStep
<1>. QED BY <1>1, <1>2, <1>3, <1>4, <1>5, <1>6, <1>7, <1>8, TriedReap, TriedClaimDue, TriedPush,
       TriedWrite, TriedDie DEF Next

(* Attempts are accounted for at every moment.                             *)
THEOREM TriedAlways == Spec => []TriedInv
<1>1. Init => TriedInv
  BY DEF Init, TriedInv, Counted, Booked, Lost, Spent, Waiting
<1>2. HeldInv /\ HeldInv' /\ TriedInv /\ [Next]_vars => TriedInv'
  BY LogAssumption, TriedNext DEF HeldInv
<1>. QED BY <1>1, <1>2, HeldAlways, PTL DEF Spec

(* TriedThrice: a row is given up only after three tries, its own or those *)
(* of a row it goes in one push with, each fault costing one at most,      *)
(* unless a tick outlived its claim on one of them.                        *)
THEOREM ThreeTries == Spec => []TriedThrice
<1>1. TriedInv => TriedThrice
  BY DEF TriedInv, Lost, GivenUp, TriedThrice
<1>. QED BY <1>1, TriedAlways, PTL
-----------------------------------------------------------------------------
(* The cap on passive pushes.                                              *)

LEMMA CountedType ==
    ASSUME LogAssumption, TypeOK, NEW at \in 0 .. MaxTime
    PROVE  /\ CountedFrom(at) \in SUBSET Notes
           /\ IsFiniteSet(CountedFrom(at)) /\ Cardinality(CountedFrom(at)) \in Nat
BY FS_Subset, FS_CardinalityType DEF LogAssumption, CountedFrom

LEMMA NewestIsNewest ==
    ASSUME LogAssumption, TypeOK, NEW at \in 0 .. MaxTime, NEW n \in CountedFrom(at)
    PROVE  /\ NewestSent(1, CountedFrom(at)) \in -1 .. MaxTime
           /\ sentAt[n] <= NewestSent(1, CountedFrom(at))
           /\ \E m \in CountedFrom(at) : NewestSent(1, CountedFrom(at)) = sentAt[m]
<1>. DEFINE C == CountedFrom(at)
            newer == {m \in C : sentAt[m] > NewestSent(1, C)}
<1>1. C \in SUBSET Notes /\ IsFiniteSet(C) /\ Cardinality(C) \in Nat
  BY CountedType
<1>2. 1 \in 1 .. Cardinality(C)
  BY <1>1, FS_EmptySet
<1>3. NewestSent(1, C) \in {sentAt[m] : m \in C} /\ Cardinality(newer) < 1
  BY <1>1, <1>2, NewestSentExists
<1>4. newer = {}
  <2>1. IsFiniteSet(newer) /\ Cardinality(newer) \in Nat
    BY <1>1, FS_Subset, FS_CardinalityType
  <2>2. Cardinality(newer) = 0
    BY <1>3, <2>1
  <2>. QED BY <2>1, <2>2, FS_EmptySet
<1>5. \A m \in C : sentAt[m] \in -1 .. MaxTime
  BY <1>1 DEF TypeOK
<1>. QED BY <1>3, <1>4, <1>5

(* When the cap lets a push go, the window has room, and the last push is  *)
(* far enough behind.                                                      *)
LEMMA FreesNow ==
    ASSUME LogAssumption, TypeOK, NEW at \in 0 .. MaxTime, NEW k, FreesAt(at, k) = {}
    PROVE  /\ Cardinality(CountedFrom(at)) < PerDay
           /\ k \notin Unspaced => \A n \in CountedFrom(at) : sentAt[n] + Spacing <= at
<1>. DEFINE C == CountedFrom(at)
            spaced == IF k \notin Unspaced /\ C # {} THEN {NewestSent(1, C) + Spacing} ELSE {}
            full == IF Cardinality(C) >= PerDay THEN {NewestSent(PerDay, C) + Window} ELSE {}
            E == spaced \cup full
            top == MaxTime + Window
<1>1. C \in SUBSET Notes /\ IsFiniteSet(C) /\ Cardinality(C) \in Nat
  BY CountedType
<1>2. \A i \in 1 .. Cardinality(C) : \E n \in C : NewestSent(i, C) = sentAt[n]
  BY <1>1, NewestSentExists
<1>3. \A n \in C : sentAt[n] \in -1 .. MaxTime /\ sentAt[n] > at - Window
  BY DEF TypeOK, CountedFrom
<1>4. Cardinality(C) >= PerDay => PerDay \in 1 .. Cardinality(C)
  BY <1>1 DEF LogAssumption
<1>5. C # {} => 1 \in 1 .. Cardinality(C)
  BY <1>1, FS_EmptySet
<1>6. \A m \in E : m \in -1 .. top
  BY <1>2, <1>3, <1>4, <1>5 DEF LogAssumption
<1>7. ASSUME NEW m \in E PROVE m <= at
  <2>1. SUFFICES ASSUME m > at PROVE FALSE
    BY <1>6
  <2>2. PICK o \in E : \A x \in E : x <= o
    <3>. HIDE DEF E
    <3>1. -1 \in Int /\ top \in Int
      BY DEF LogAssumption
    <3>2. E \in SUBSET (-1 .. top)
      BY <1>6
    <3>. QED BY <3>1, <3>2, Most
  <2>3. o > at
    <3>. HIDE DEF E
    <3>1. m <= o /\ m \in Int /\ o \in Int
      BY <1>6, <2>2
    <3>. QED BY <2>1, <3>1
  <2>4. o \in FreesAt(at, k)
    BY <2>2, <2>3 DEF FreesAt, StillAhead
  <2>. QED BY <2>4
<1>8. Cardinality(C) < PerDay
  <2>1. SUFFICES ASSUME Cardinality(C) >= PerDay PROVE FALSE
    BY <1>1 DEF LogAssumption
  <2>2. NewestSent(PerDay, C) + Window <= at
    BY <1>7, <2>1
  <2>3. PICK n \in C : NewestSent(PerDay, C) = sentAt[n]
    BY <1>2, <1>4, <2>1
  <2>. QED BY <1>3, <2>2, <2>3 DEF LogAssumption
<1>9. ASSUME k \notin Unspaced, NEW n \in C PROVE sentAt[n] + Spacing <= at
  <2>1. NewestSent(1, C) + Spacing <= at
    BY <1>7, <1>9
  <2>2. sentAt[n] <= NewestSent(1, C) /\ NewestSent(1, C) \in Int
    BY NewestIsNewest
  <2>. QED BY <1>3, <2>1, <2>2 DEF LogAssumption
<1>. QED BY <1>8, <1>9

(* The rows of a push that reached a device are recorded as sent at its    *)
(* moment, or its tick is about to record them.                            *)
Recorded(p) == \A n \in p.notes : status[n] = "sent" /\ sentAt[n] = p.at

Recording(p) == \E t \in Ticks : Landing(t) /\ local[t].group = p.notes /\ local[t].at = p.at

(* What it is about to push, the cap let go. *)
LetGo(t) ==
    tick[t] = "push" /\ KindOfGroup(local[t].group) \in Capped =>
        FreesAt(local[t].at, KindOfGroup(local[t].group)) = {}

ToldInv ==
    /\ \A p \in told :
         /\ p.notes # {} /\ p.at <= now
         /\ Kind(p) \in Capped /\ \A n \in p.notes : KindOf[n] = Kind(p)
         /\ Recorded(p) \/ Recording(p)
    /\ \A p, q \in told : p = q \/ p.notes \cap q.notes = {}
    /\ \A t \in Ticks : tick[t] # "off" => \A p \in told : p.at <= local[t].at
    /\ \A t \in Ticks : LetGo(t)
    /\ UnderCap

(* The cap's answer depends on the rows that are sent, and on when.        *)
LEMMA LetGoSame ==
    ASSUME UNCHANGED sentAt, \A n \in Notes : status[n] = "sent" <=> status'[n] = "sent",
           NEW t \in Ticks, local'[t] = local[t], tick[t] \in {"cap", "push"},
           FreesAt(local[t].at, KindOfGroup(local[t].group)) = {}
    PROVE  LetGo(t)'
<1>1. CountedFrom(local[t].at)' = CountedFrom(local[t].at)
  BY DEF CountedFrom
<1>2. \A i : NewestSent(i, CountedFrom(local[t].at))' = NewestSent(i, CountedFrom(local[t].at))
  BY <1>1 DEF NewestSent
<1>3. FreesAt(local[t].at, KindOfGroup(local[t].group))' = FreesAt(local[t].at, KindOfGroup(local[t].group))
  BY <1>1, <1>2 DEF FreesAt, StillAhead, KindOfGroup
<1>. QED BY <1>3 DEF LetGo

(* No other tick is on. *)
Only(t) == \A u \in Ticks \ {t} : tick[u] = "off"

Single == ~overlapped => \A t, u \in Ticks : tick[t] # "off" /\ tick[u] # "off" => t = u

CapInv == Single /\ (OneByOne => ToldInv)

LEMMA KindOfAlike ==
    ASSUME LogAssumption, NEW g \in SUBSET Notes, g # {}, Alike(g)
    PROVE  \A n \in g : KindOf[n] = KindOfGroup(g)
BY DEF Alike, KindOfGroup

LEMMA ToldType ==
    ASSUME TypeOK
    PROVE  \A p \in told : p \in [at : 0 .. MaxTime, notes : SUBSET Notes] /\ p.at \in Int /\ p.notes \subseteq Notes
BY DEF TypeOK

(* Every push of the window has rows of its own among the counted ones.    *)
LEMMA WindowCounted ==
    ASSUME LogAssumption, TypeOK, ToldInv, NEW at \in 0 .. MaxTime,
           \A p \in told : Recorded(p),
           NEW W, W = {q \in told : q.at > at - Window}
    PROVE  IsFiniteSet(W) /\ Cardinality(W) \in Nat /\ Cardinality(W) <= Cardinality(CountedFrom(at))
<1>. DEFINE C == CountedFrom(at)
            f == [q \in W |-> CHOOSE n \in q.notes : TRUE]
<1>1. \A q \in W : f[q] \in q.notes
  BY DEF ToldInv
<1>2. \A q \in W : f[q] \in C
  BY <1>1, ToldType DEF ToldInv, Recorded, CountedFrom
<1>3. \A p, q \in W : f[p] = f[q] => p = q
  <2>. HIDE DEF f
  <2>. QED BY <1>1 DEF ToldInv
<1>4. f \in Injection(W, C)
  BY <1>2, <1>3 DEF Injection, IsInjective
<1>5. IsFiniteSet(C) /\ Cardinality(C) \in Nat
  BY CountedType
<1>6. IsFiniteSet(W) /\ Cardinality(W) <= Cardinality(C)
  <2>. HIDE DEF f, C
  <2>. QED BY <1>4, <1>5, FS_Injection
<1>. QED BY <1>6, FS_CardinalityType

(* A push the cap let go keeps the cap. *)
LEMMA CapKeptByOneMore ==
    ASSUME LogAssumption, TypeOK, ToldInv, NEW at \in 0 .. MaxTime, NEW g \in SUBSET Notes,
           \A p \in told : Recorded(p) /\ p.at <= at,
           FreesAt(at, KindOfGroup(g)) = {},
           told' = told \cup {[at |-> at, notes |-> g]}
    PROVE  UnderCap'
<1>. DEFINE new == [at |-> at, notes |-> g]
            W == {q \in told : q.at > at - Window}
            within(p, S) == {q \in S : p.at - Window < q.at /\ q.at <= p.at}
            k == KindOfGroup(g)
<1>1. IsFiniteSet(W) /\ Cardinality(W) \in Nat /\ Cardinality(W) < PerDay
  <2>1. IsFiniteSet(W) /\ Cardinality(W) \in Nat /\ Cardinality(W) <= Cardinality(CountedFrom(at))
    BY WindowCounted
  <2>2. Cardinality(CountedFrom(at)) < PerDay /\ Cardinality(CountedFrom(at)) \in Nat
    BY FreesNow, CountedType
  <2>. QED BY <2>1, <2>2 DEF LogAssumption
<1>2. new.at = at /\ new.notes = g /\ at \in Int /\ Window \in Int /\ Spacing \in Int
  BY DEF LogAssumption
<1>3. \A p \in told' : p.at \in Int /\ p.at <= at
  BY <1>2, ToldType
<1>4. ASSUME NEW p \in told' PROVE Cardinality(within(p, told')) <= PerDay
  <2>1. CASE p.at < at
    <3>1. p \in told /\ within(p, told') = within(p, told)
      BY <1>2, <1>3, <2>1
    <3>. QED BY <3>1 DEF ToldInv, UnderCap
  <2>2. CASE p.at = at
    <3>1. within(p, told') \subseteq W \cup {new}
      BY <1>2, <1>3, <2>2
    <3>2. IsFiniteSet(W \cup {new}) /\ Cardinality(W \cup {new}) <= PerDay
      <4>1. /\ IsFiniteSet(W \cup {new})
            /\ Cardinality(W \cup {new}) = IF new \in W THEN Cardinality(W) ELSE Cardinality(W) + 1
        BY <1>1, FS_AddElement
      <4>. HIDE DEF W, new
      <4>. QED BY <1>1, <4>1 DEF LogAssumption
    <3>3. IsFiniteSet(within(p, told')) /\ Cardinality(within(p, told')) <= Cardinality(W \cup {new})
      <4>. HIDE DEF W, new, within
      <4>. QED BY <3>1, <3>2, FS_Subset
    <3>4. Cardinality(within(p, told')) \in Nat /\ Cardinality(W \cup {new}) \in Nat
      <4>. HIDE DEF W, new, within
      <4>. QED BY <3>2, <3>3, FS_CardinalityType
    <3>. HIDE DEF W, new, within
    <3>. QED BY <3>2, <3>3, <3>4 DEF LogAssumption
  <2>. QED BY <1>2, <1>3, <2>1, <2>2
<1>5. ASSUME k \notin Unspaced, NEW q \in told PROVE q.at + Spacing <= at
  <2>1. PICK n \in q.notes : n \in Notes /\ KindOf[n] \in Capped /\ status[n] = "sent" /\ sentAt[n] = q.at
    BY ToldType DEF ToldInv, Recorded
  <2>2. CASE q.at > at - Window
    <3>1. n \in CountedFrom(at)
      BY <2>1, <2>2 DEF CountedFrom
    <3>. QED BY <1>5, <2>1, <3>1, FreesNow
  <2>3. CASE ~(q.at > at - Window)
    BY <1>2, <2>3, ToldType DEF LogAssumption
  <2>. QED BY <2>2, <2>3
<1>6. ASSUME NEW p \in told', NEW q \in told' \ {p}, p.at <= q.at, p.at + Spacing > q.at
      PROVE  Kind(q) \in Unspaced \/ (Kind(p) \in Unspaced /\ p.at = q.at)
  <2>1. Kind(new) = k
    BY DEF Kind
  <2>2. CASE q = new
    <3>1. p \in told /\ p.at + Spacing > at
      BY <1>2, <1>6, <2>2
    <3>2. k \in Unspaced
      BY <1>2, <1>3, <1>5, <3>1
    <3>. QED BY <2>1, <2>2, <3>2
  <2>3. CASE p = new
    <3>1. q \in told /\ q.at = at
      BY <1>2, <1>3, <1>6, <2>3
    <3>2. k \in Unspaced
      <4>1. 0 < Spacing
        BY DEF LogAssumption
      <4>. QED BY <1>2, <1>5, <3>1, <4>1
    <3>. QED BY <1>2, <2>1, <2>3, <3>1, <3>2
  <2>4. CASE p # new /\ q # new
    BY <1>6, <2>4 DEF ToldInv, UnderCap
  <2>. QED BY <2>2, <2>3, <2>4
<1>. QED BY <1>4, <1>6 DEF UnderCap, Kind

LEMMA SentStays ==
    ASSUME HeldInv, stray = {}, [Next]_vars, NEW n \in Notes, status[n] = "sent"
    PROVE  status'[n] = "sent" /\ sentAt'[n] = sentAt[n]
<1>1. ASSUME NEW t \in Ticks, Write(t) PROVE status'[n] = "sent" /\ sentAt'[n] = sentAt[n]
  <2>1. n \notin local[t].group
    BY HeldApart DEF Mine
  <2>. QED BY <1>1, <2>1 DEF Write, HeldInv, TypeOK
<1>2. ASSUME NEW t \in Ticks, Reap(t) \/ ClaimDue(t) PROVE status'[n] = "sent" /\ sentAt'[n] = sentAt[n]
  BY <1>2 DEF Reap, ClaimDue
<1>3. ASSUME NEW m \in Notes, Schedule(m) PROVE status'[n] = "sent" /\ sentAt'[n] = sentAt[n]
  BY <1>3 DEF Schedule, HeldInv, TypeOK
<1>. QED BY <1>1, <1>2, <1>3 DEF Next, vars, log, TurnOff, SkipQueued, Begin, NextGroup, Cap, Push, Die, Advance

(* A step that reaches no device. *)
LEMMA ToldQuiet ==
    ASSUME HeldInv, ToldInv, stray = {}, [Next]_vars, UNCHANGED told, now' \in {now, now + 1},
           \A p \in told : Recording(p) => Recorded(p)' \/ Recording(p)',
           \A t \in Ticks : tick'[t] # "off" => \A p \in told : p.at <= local'[t].at,
           \A t \in Ticks : LetGo(t)'
    PROVE  ToldInv'
<1>1. ASSUME NEW p \in told PROVE p.at <= now' /\ (Recorded(p) => Recorded(p)')
  <2>1. p.at \in Int /\ now \in Int /\ p.notes \subseteq Notes
    BY ToldType, LocalType DEF HeldInv
  <2>2. Recorded(p) => Recorded(p)'
    BY <2>1, SentStays DEF Recorded
  <2>. QED BY <2>1, <2>2 DEF ToldInv
<1>2. UnderCap'
  BY DEF ToldInv, UnderCap, Kind, KindOfGroup
<1>3. \A p \in told : Kind(p)' = Kind(p)
  BY DEF Kind, KindOfGroup
<1>. QED BY <1>1, <1>2, <1>3 DEF ToldInv

LEMMA ToldOutside ==
    ASSUME HeldInv, ToldInv, stray = {}, [Next]_vars, UNCHANGED <<told, tick, local, sentAt>>, now' \in {now, now + 1},
           \A n \in Notes : status[n] = "sent" <=> status'[n] = "sent"
    PROVE  ToldInv'
<1>1. \A p \in told : Recording(p) => Recording(p)'
  BY DEF Recording, Landing
<1>2. ASSUME NEW t \in Ticks PROVE LetGo(t)'
  <2>1. CASE tick[t] = "push" /\ KindOfGroup(local[t].group) \in Capped
    BY <2>1, LetGoSame DEF ToldInv, LetGo
  <2>2. CASE ~(tick[t] = "push" /\ KindOfGroup(local[t].group) \in Capped)
    BY <2>2 DEF LetGo, KindOfGroup
  <2>. QED BY <2>1, <2>2
<1>3. \A t \in Ticks : tick'[t] # "off" => \A p \in told : p.at <= local'[t].at
  BY DEF ToldInv
<1>. QED BY <1>1, <1>2, <1>3, ToldQuiet

LEMMA ToldPush ==
    ASSUME LogAssumption, HeldInv, ToldInv, stray = {}, UNCHANGED faults,
           NEW t \in Ticks, Only(t), Push(t)
    PROVE  ToldInv'
<1>. DEFINE g == local[t].group
            at == local[t].at
<1>0. local[t] \in TickState /\ g \in SUBSET Notes /\ at \in 0 .. MaxTime
  BY LocalType DEF HeldInv, TickState
<1>1. /\ tick[t] = "push" /\ tick'[t] = "write" /\ UNCHANGED <<now, status, sentAt>>
      /\ local'[t].group = g /\ local'[t].at = at
  BY DEF Push, Step, NoneTookIt, log, HeldInv, TypeOK
<1>2. g # {} /\ Alike(g) /\ at <= now
  BY <1>1 DEF HeldInv, Placed, Parted, Whole
<1>3. \A u \in Ticks \ {t} : tick[u] = "off" /\ tick'[u] = "off"
  BY DEF Only, Push, Step, HeldInv, TypeOK
<1>4. \A p \in told : ~Recording(p)
  BY <1>1, <1>3 DEF Recording, Landing
<1>5. \A p \in told : Recorded(p) /\ Recorded(p)' /\ p.at <= at
  BY <1>1, <1>4 DEF ToldInv, Recorded
<1>6. CASE UNCHANGED told
  <2>1. [Next]_vars
    BY DEF Next
  <2>2. \A u \in Ticks : tick'[u] # "off" => \A p \in told : p.at <= local'[u].at
    BY <1>1, <1>3, <1>5
  <2>3. \A u \in Ticks : LetGo(u)'
    BY <1>1, <1>3 DEF LetGo
  <2>. QED BY <1>1, <1>4, <1>6, <2>1, <2>2, <2>3, ToldQuiet
<1>7. CASE /\ local'[t].put = "sent" /\ KindOfGroup(g) \in Capped
           /\ told' = told \cup {[at |-> at, notes |-> g]}
  <2>. DEFINE new == [at |-> at, notes |-> g]
  <2>1. UnderCap'
    <3>1. FreesAt(at, KindOfGroup(g)) = {}
      BY <1>1, <1>7 DEF ToldInv, LetGo
    <3>. QED BY <1>0, <1>5, <1>7, <3>1, CapKeptByOneMore DEF HeldInv
  <2>2. new.at = at /\ new.notes = g /\ Kind(new) = KindOfGroup(g) /\ new.notes # {}
    BY <1>2 DEF Kind
  <2>3. \A n \in g : KindOf[n] = KindOfGroup(g)
    BY <1>0, <1>2, KindOfAlike
  <2>4. \A p : p = new => Recording(p)'
    BY <1>1, <1>7 DEF Recording, Landing
  <2>5. \A p \in told : p.notes \cap g = {}
    <3>1. \A n \in g : status[n] = "sending"
      BY HeldApart DEF Mine
    <3>. QED BY <1>5, <3>1 DEF Recorded
  <2>6. \A u \in Ticks : tick'[u] = "off" \/ (tick'[u] = "write" /\ local'[u].at = at)
    BY <1>1, <1>3
  <2>7. at <= at
    BY <1>0
  <2>. HIDE DEF new, g, at
  <2>8. \A p \in told' : p.at <= at
    BY <1>5, <1>7, <2>2, <2>7 DEF new
  <2>9. \A p \in told' : /\ p.notes # {} /\ p.at <= now /\ Kind(p) \in Capped
                         /\ \A n \in p.notes : KindOf[n] = Kind(p)
                         /\ Recorded(p)' \/ Recording(p)'
    <3>1. \A p \in told : Kind(p)' = Kind(p) /\ Recorded(p)'
      BY <1>5 DEF Kind, KindOfGroup
    <3>2. ASSUME NEW p \in told
          PROVE  /\ p.notes # {} /\ p.at <= now /\ Kind(p) \in Capped
                 /\ \A n \in p.notes : KindOf[n] = Kind(p)
      BY DEF ToldInv
    <3>3. \A n \in new.notes : KindOf[n] = Kind(new)
      BY <2>2, <2>3
    <3>4. new.at <= now /\ Kind(new) \in Capped
      BY <1>2, <1>7, <2>2
    <3>5. \A p \in told' : p \in told \/ p = new
      BY <1>7 DEF new
    <3>6. \A p \in told' : Recorded(p)' \/ Recording(p)'
      BY <2>4, <3>1, <3>5
    <3>. QED BY <2>2, <3>2, <3>3, <3>4, <3>5, <3>6
  <2>10. \A p, q \in told' : p = q \/ p.notes \cap q.notes = {}
    BY <1>7, <2>2, <2>5 DEF ToldInv, new
  <2>11. \A p \in told' : Kind(p)' = Kind(p)
    BY DEF Kind, KindOfGroup
  <2>12. \A u \in Ticks : LetGo(u)' /\ (tick'[u] # "off" => \A p \in told' : p.at <= local'[u].at)
    BY <2>6, <2>8 DEF LetGo
  <2>. QED BY <1>1, <2>1, <2>9, <2>10, <2>11, <2>12 DEF ToldInv
<1>8. Reached(t) => UNCHANGED told \/ (KindOfGroup(g) \in Capped /\ told' = told \cup {[at |-> at, notes |-> g]})
  BY DEF Reached
<1>9. UNCHANGED told \/ (Reached(t) /\ local'[t].put = "sent")
  <2>1. faults' # faults + 1
    BY DEF HeldInv, TypeOK
  <2>. QED BY <2>1 DEF Push, HeldInv, TypeOK, outside
<1>. QED BY <1>6, <1>7, <1>8, <1>9

LEMMA ToldWrite ==
    ASSUME LogAssumption, HeldInv, ToldInv, stray = {}, NEW t \in Ticks, Only(t), Write(t) PROVE ToldInv'
<1>1. tick[t] = "write" /\ UNCHANGED <<now, told>> /\ tick'[t] \in {"off", "next"}
  BY DEF Write, Step, outside, HeldInv, TypeOK
<1>2. tick'[t] = "next" => local'[t].at = local[t].at
  <2>1. CASE local[t].groups = {}
    BY <2>1 DEF Write, Step, HeldInv, TypeOK
  <2>2. CASE local[t].groups # {}
    <3>1. local'[t] = [Nothing EXCEPT !.at = local[t].at, !.groups = local[t].groups]
      BY <2>2 DEF Write, HeldInv, TypeOK
    <3>. QED BY <3>1 DEF Nothing
  <2>. QED BY <2>1, <2>2
<1>3. \A u \in Ticks \ {t} : tick[u] = "off" /\ tick'[u] = "off"
  BY DEF Only, Write, Step, HeldInv, TypeOK
<1>4. ASSUME NEW p \in told, Recording(p) PROVE Recorded(p)'
  <2>1. local[t].put = "sent" /\ local[t].group = p.notes /\ local[t].at = p.at
    BY <1>3, <1>4 DEF Recording, Landing
  <2>. QED BY <2>1, ToldType DEF Write, Recorded, HeldInv, TypeOK
<1>5. [Next]_vars
  BY DEF Next
<1>6. \A u \in Ticks : tick'[u] # "off" => \A p \in told : p.at <= local'[u].at
  BY <1>1, <1>2, <1>3 DEF ToldInv
<1>7. \A u \in Ticks : LetGo(u)'
  BY <1>1, <1>3 DEF LetGo
<1>. QED BY <1>1, <1>4, <1>5, <1>6, <1>7, ToldQuiet

LEMMA ToldNext ==
    ASSUME LogAssumption, HeldInv, [Next]_vars, Single, OneByOne, OneByOne', ToldInv PROVE ToldInv'
<1>0. stray = {} /\ UNCHANGED faults /\ ~overlapped /\ ~overlapped'
  BY DEF OneByOne
<1>1. ASSUME NEW n \in Notes, Schedule(n) PROVE ToldInv'
  BY <1>0, <1>1, ToldOutside DEF Schedule, outside, HeldInv, TypeOK
<1>2. ASSUME NEW k \in Kinds, TurnOff(k) PROVE ToldInv'
  BY <1>0, <1>2, ToldOutside DEF TurnOff, log, outside
<1>3. ASSUME NEW k \in Kinds, SkipQueued(k) PROVE ToldInv'
  BY <1>0, <1>3, ToldOutside DEF SkipQueued, outside, HeldInv, TypeOK
<1>4. CASE Advance
  BY <1>0, <1>4, ToldOutside DEF Advance, log, outside
<1>5. CASE UNCHANGED vars
  BY <1>0, <1>5, ToldOutside DEF vars, log, outside
<1>6. ASSUME NEW t \in Ticks, Begin(t) \/ Reap(t) \/ ClaimDue(t) \/ NextGroup(t) \/ Cap(t)
      PROVE  ToldInv'
  <2>1. \A u \in Ticks \ {t} : tick[u] = "off" /\ tick'[u] = "off"
    <3>1. Only(t)
      BY <1>0, <1>6 DEF Only, Single, Begin, Reap, ClaimDue, NextGroup, Cap, Step
    <3>. QED BY <1>6, <3>1 DEF Only, HeldInv, TypeOK, Begin, Reap, ClaimDue, NextGroup, Cap, Step
  <2>2. tick[t] # "write" /\ UNCHANGED <<now, told, sentAt>>
    BY <1>6 DEF Begin, Reap, ClaimDue, NextGroup, Cap, Step, outside, log
  <2>3. \A p \in told : ~Recording(p)
    BY <2>1, <2>2 DEF Recording, Landing
  <2>4. tick'[t] # "off" => \A p \in told : p.at <= local'[t].at
    <3>1. CASE Begin(t)
      BY <3>1 DEF Begin, HeldInv, TypeOK, ToldInv
    <3>2. CASE ~Begin(t)
      <4>1. tick[t] # "off"
        BY <1>6, <3>2 DEF Reap, ClaimDue, NextGroup, Cap, Step
      <4>2. tick'[t] # "off" => local'[t].at = local[t].at
        <5>1. local \in [Ticks -> TickState]
          BY DEF HeldInv, TypeOK, TickState
        <5>2. Reap(t) \/ Cap(t) => local'[t].at = local[t].at
          BY <5>1 DEF Reap, Cap, TickState
        <5>4. NextGroup(t) => local'[t].at = local[t].at
          BY <5>1 DEF NextGroup, TickState
        <5>3. ClaimDue(t) => tick'[t] = "off" \/ local'[t].at = local[t].at
          BY <5>1 DEF ClaimDue, Step, HeldInv, TypeOK, TickState
        <5>. QED BY <1>6, <3>2, <5>2, <5>3, <5>4
      <4>. QED BY <4>1, <4>2 DEF ToldInv
    <3>. QED BY <3>1, <3>2
  <2>5. LetGo(t)'
    <3>1. CASE Cap(t) /\ tick'[t] = "push"
      <4>1. FreesAt(local[t].at, KindOfGroup(local[t].group)) = {} /\ UNCHANGED <<local, status>>
        BY <3>1 DEF Cap, Step, HeldInv, TypeOK, log
      <4>2. tick[t] = "cap"
        BY <3>1 DEF Cap
      <4>. QED BY <2>2, <4>1, <4>2, LetGoSame
    <3>2. CASE NextGroup(t)
      <4>1. PICK g \in local[t].groups :
               IF KindOfGroup(g) \in enabled
               THEN /\ Step(t, "next", IF KindOfGroup(g) \in Capped THEN "cap" ELSE "push")
                    /\ local' = [local EXCEPT ![t].groups = @ \ {g}, ![t].group = g]
               ELSE /\ Step(t, "next", "write")
                    /\ local' = [local EXCEPT ![t].groups = @ \ {g}, ![t].group = g, ![t].put = "skipped"]
        BY <3>2 DEF NextGroup
      <4>2. local'[t].group = g
        BY <4>1 DEF HeldInv, TypeOK
      <4>3. tick'[t] = "push" => KindOfGroup(g) \notin Capped
        BY <4>1 DEF Step, HeldInv, TypeOK
      <4>. QED BY <4>2, <4>3 DEF LetGo, KindOfGroup
    <3>3. CASE tick'[t] # "push"
      BY <3>3 DEF LetGo
    <3>. QED BY <1>6, <3>1, <3>2, <3>3 DEF Begin, Reap, ClaimDue, Step, HeldInv, TypeOK
  <2>6. \A u \in Ticks : LetGo(u)'
    BY <2>1, <2>5 DEF LetGo
  <2>. QED BY <1>0, <2>1, <2>2, <2>3, <2>4, <2>6, ToldQuiet
<1>7. ASSUME NEW t \in Ticks, Die(t) PROVE FALSE
  BY <1>0, <1>7 DEF Die, HeldInv, TypeOK
<1>8. ASSUME NEW t \in Ticks, Push(t) \/ Write(t) PROVE ToldInv'
  <2>1. Only(t)
    BY <1>0, <1>8 DEF Only, Single, Push, Write, Step
  <2>. QED BY <1>0, <1>8, <2>1, ToldPush, ToldWrite
<1>. QED BY <1>1, <1>2, <1>3, <1>4, <1>5, <1>6, <1>7, <1>8 DEF Next

LEMMA SingleNext ==
    ASSUME HeldInv, [Next]_vars, Single PROVE Single' /\ (OneByOne' => OneByOne)
<1>1. (~overlapped' => ~overlapped) /\ (OneByOne' => OneByOne)
  <2>1. ~overlapped' => ~overlapped
    BY DEF Next, vars, marks, Schedule, TurnOff, SkipQueued, Begin, Reap, ClaimDue, NextGroup, Cap,
       Push, Write, Die, Advance
  <2>2. faults \in Nat
    BY DEF HeldInv, TypeOK
  <2>4. faults' \in {faults, faults + 1}
    BY DEF Next, vars, Schedule, TurnOff, SkipQueued, Begin, Reap, ClaimDue, NextGroup, Cap,
       Push, Write, Die, Advance
  <2>3. stray \subseteq stray'
    BY CountsType DEF HeldInv
  <2>. QED BY <2>1, <2>2, <2>3, <2>4 DEF OneByOne
<1>2. ASSUME UNCHANGED tick PROVE Single'
  BY <1>1, <1>2 DEF Single
<1>3. ASSUME NEW t \in Ticks, Begin(t) PROVE Single'
  BY <1>3 DEF Begin, Step, Single, HeldInv, TypeOK
<1>4. ASSUME NEW t \in Ticks, tick[t] # "off", \A u \in Ticks \ {t} : tick'[u] = tick[u] PROVE Single'
  BY <1>1, <1>4 DEF Single
<1>5. ASSUME NEW t \in Ticks,
             Reap(t) \/ ClaimDue(t) \/ NextGroup(t) \/ Cap(t) \/ Push(t) \/ Write(t) \/ Die(t)
      PROVE  tick[t] # "off" /\ \A u \in Ticks \ {t} : tick'[u] = tick[u]
  BY <1>5 DEF Reap, ClaimDue, NextGroup, Cap, Push, Write, Die, Step, HeldInv, TypeOK
<1>. QED BY <1>1, <1>2, <1>3, <1>4, <1>5 DEF Next, vars, Schedule, TurnOff, SkipQueued, Advance

(* CapKept: as long as one tick runs at a time and none dies or outlives   *)
(* its claims, at most PerDay passive pushes go in any window and none     *)
(* within the spacing of another, whatever is due when.                    *)
THEOREM CapAlways == Spec => []CapKept
<1>1. Init => CapInv
  BY DEF Init, CapInv, Single, ToldInv, UnderCap, LetGo
<1>2. HeldInv /\ CapInv /\ [Next]_vars => CapInv'
  BY LogAssumption, SingleNext, ToldNext DEF CapInv
<1>3. CapInv => CapKept
  BY DEF CapInv, ToldInv, CapKept
<1>. QED BY <1>1, <1>2, <1>3, HeldAlways, PTL DEF Spec
-----------------------------------------------------------------------------
(* What the cap holds back.                                                *)

Entry(at, g) == [at |-> at, notes |-> g]

(* Every passive row that is sent, or about to be recorded, was told. *)
Listed ==
    /\ \A n \in Notes : status[n] = "sent" /\ KindOf[n] \in Capped =>
         \E p \in told : p.at = sentAt[n] /\ n \in p.notes
    /\ \A t \in Ticks : Landing(t) /\ KindOfGroup(local[t].group) \in Capped =>
         Entry(local[t].at, local[t].group) \in told

(* Pushes after a moment, and the rows they were of. *)
ToldSince(m) == {p \in told : p.at > m}

RowsSince(m) == UNION {p.notes : p \in ToldSince(m)}

CapReached(at) == Cardinality(RowsSince(at - Window)) >= PerDay \/ ToldSince(at - Spacing) # {}

ListedInv ==
    /\ Listed
    /\ \A t \in Ticks : tick[t] = "write" /\ local[t].put = "scheduled" /\ ~local[t].counts =>
         CapReached(local[t].at)

LEMMA RowsSinceType ==
    ASSUME LogAssumption, TypeOK, NEW m
    PROVE  IsFiniteSet(RowsSince(m)) /\ Cardinality(RowsSince(m)) \in Nat
<1>1. RowsSince(m) \subseteq Notes
  BY ToldType DEF RowsSince, ToldSince
<1>. QED BY <1>1, FS_Subset, FS_CardinalityType DEF LogAssumption

LEMMA CapReachedStays ==
    ASSUME LogAssumption, TypeOK, TypeOK', told \subseteq told', NEW at \in Int, CapReached(at)
    PROVE  CapReached(at)'
<1>. DEFINE W == RowsSince(at - Window)
            V == RowsSince(at - Window)'
<1>1. ToldSince(at - Spacing) \subseteq ToldSince(at - Spacing)' /\ W \subseteq V
  BY DEF ToldSince, RowsSince
<1>2. V \subseteq Notes
  BY DEF TypeOK, ToldSince, RowsSince
<1>3. IsFiniteSet(V) /\ Cardinality(V) \in Nat /\ Cardinality(W) \in Nat
  <2>1. IsFiniteSet(V)
    BY <1>2, FS_Subset DEF LogAssumption
  <2>. QED BY <2>1, RowsSinceType, FS_CardinalityType
<1>4. Cardinality(W) <= Cardinality(V)
  <2>. HIDE DEF W, V
  <2>. QED BY <1>1, <1>3, FS_Subset
<1>5. PerDay \in Nat
  BY DEF LogAssumption
<1>6. CASE Cardinality(W) >= PerDay
  <2>1. Cardinality(V) >= PerDay
    <3>. HIDE DEF W, V
    <3>. QED BY <1>3, <1>4, <1>5, <1>6
  <2>. QED BY <2>1 DEF CapReached
<1>7. CASE ToldSince(at - Spacing) # {}
  BY <1>1, <1>7 DEF CapReached
<1>. QED BY <1>6, <1>7 DEF CapReached

(* When the cap holds a push, the window is full or the last push near.    *)
LEMMA HoldsAtCap ==
    ASSUME LogAssumption, TypeOK, Listed, NEW at \in 0 .. MaxTime, NEW k, FreesAt(at, k) # {}
    PROVE  CapReached(at)
<1>. DEFINE C == CountedFrom(at)
<1>1. C \in SUBSET Notes /\ IsFiniteSet(C) /\ Cardinality(C) \in Nat
  BY CountedType
<1>2. \A n \in C : /\ \E p \in told : p.at = sentAt[n] /\ n \in p.notes
                   /\ sentAt[n] \in Int /\ sentAt[n] > at - Window
  BY DEF Listed, CountedFrom, TypeOK
<1>3. PICK m \in FreesAt(at, k) : TRUE
  OBVIOUS
<1>4. /\ m > at
      /\ \/ C # {} /\ m = NewestSent(1, C) + Spacing
         \/ Cardinality(C) >= PerDay
  BY <1>3 DEF FreesAt, StillAhead
<1>5. CASE C # {} /\ m = NewestSent(1, C) + Spacing
  <2>1. PICK n \in C : NewestSent(1, C) = sentAt[n]
    BY <1>5, NewestIsNewest
  <2>2. PICK p \in told : p.at = sentAt[n] /\ n \in p.notes
    BY <1>2
  <2>3. sentAt[n] > at - Spacing
    <3>1. sentAt[n] \in Int
      BY <1>2
    <3>2. Spacing \in Int /\ at \in Int
      BY DEF LogAssumption
    <3>3. sentAt[n] + Spacing > at
      BY <1>4, <1>5, <2>1
    <3>. HIDE DEF C
    <3>. QED BY <3>1, <3>2, <3>3
  <2>4. p \in ToldSince(at - Spacing)
    BY <2>2, <2>3 DEF ToldSince
  <2>. QED BY <2>4 DEF CapReached
<1>6. CASE Cardinality(C) >= PerDay
  <2>. DEFINE W == RowsSince(at - Window)
  <2>1. C \subseteq W
    <3>1. ASSUME NEW n \in C PROVE n \in W
      <4>1. PICK p \in told : p.at = sentAt[n] /\ n \in p.notes
        BY <1>2
      <4>2. p \in ToldSince(at - Window)
        BY <1>2, <4>1 DEF ToldSince
      <4>. QED BY <4>1, <4>2 DEF RowsSince
    <3>. QED BY <3>1
  <2>2. IsFiniteSet(W) /\ Cardinality(W) \in Nat
    BY RowsSinceType
  <2>3. Cardinality(C) <= Cardinality(W)
    <3>. HIDE DEF C, W
    <3>. QED BY <2>1, <2>2, FS_Subset
  <2>4. PerDay \in Nat
    BY DEF LogAssumption
  <2>5. Cardinality(W) >= PerDay
    <3>. HIDE DEF C, W
    <3>. QED BY <1>1, <1>6, <2>2, <2>3, <2>4
  <2>. QED BY <2>5 DEF CapReached
<1>. QED BY <1>4, <1>5, <1>6

(* A step of no push, after which no tick records or holds more.           *)
LEMMA ListedQuiet ==
    ASSUME LogAssumption, HeldInv, ListedInv, UNCHANGED told,
           \A n \in Notes : status'[n] = "sent" => status[n] = "sent" /\ sentAt'[n] = sentAt[n],
           \A t \in Ticks : tick'[t] = "write" =>
               \/ tick[t] = "write" /\ local'[t] = local[t]
               \/ local'[t].put = "skipped"
    PROVE  ListedInv'
<1>1. \A t \in Ticks : local[t].at \in Int
  BY LocalType DEF HeldInv
<1>2. Listed'
  BY DEF ListedInv, Listed, Landing, KindOfGroup
<1>3. \A at \in Int : CapReached(at)' = CapReached(at)
  BY DEF CapReached, RowsSince, ToldSince
<1>4. ASSUME NEW t \in Ticks, tick'[t] = "write", local'[t].put = "scheduled", ~local'[t].counts
      PROVE  CapReached(local[t].at)' /\ local'[t] = local[t]
  <2>1. tick[t] = "write" /\ local'[t] = local[t]
    BY <1>4
  <2>2. CapReached(local[t].at)
    BY <1>4, <2>1 DEF ListedInv
  <2>. QED BY <2>1, <2>2 DEF CapReached, RowsSince, ToldSince
<1>. QED BY <1>2, <1>4 DEF ListedInv

LEMMA ListedNext ==
    ASSUME LogAssumption, HeldInv, TypeOK', [Next]_vars, ListedInv PROVE ListedInv'
<1>1. ASSUME NEW n \in Notes, Schedule(n) PROVE ListedInv'
  BY <1>1, ListedQuiet DEF Schedule, outside, HeldInv, TypeOK
<1>2. ASSUME NEW k \in Kinds, TurnOff(k) PROVE ListedInv'
  BY <1>2, ListedQuiet DEF TurnOff, log, outside
<1>3. ASSUME NEW k \in Kinds, SkipQueued(k) PROVE ListedInv'
  BY <1>3, ListedQuiet DEF SkipQueued, outside, HeldInv, TypeOK
<1>4. CASE Advance
  BY <1>4, ListedQuiet DEF Advance, log, outside
<1>5. CASE UNCHANGED vars
  BY <1>5, ListedQuiet DEF vars, log, outside
<1>6. ASSUME NEW t \in Ticks, Begin(t) \/ Reap(t) \/ ClaimDue(t) \/ NextGroup(t) PROVE ListedInv'
  <2>1. UNCHANGED <<told, sentAt>>
    BY <1>6 DEF Begin, Reap, ClaimDue, NextGroup, outside, log
  <2>2. \A n \in Notes : status'[n] = "sent" => status[n] = "sent"
    BY <1>6 DEF Begin, Reap, Expired, ClaimDue, NextGroup, log
  <2>3. \A u \in Ticks \ {t} : tick'[u] = tick[u] /\ local'[u] = local[u]
    BY <1>6 DEF Begin, Reap, ClaimDue, NextGroup, Step, HeldInv, TypeOK
  <2>4. tick'[t] = "write" => local'[t].put = "skipped"
    <3>1. local \in [Ticks -> TickState]
      BY DEF HeldInv, TypeOK, TickState
    <3>2. CASE NextGroup(t)
      BY <3>1, <3>2 DEF NextGroup, Step, HeldInv, TypeOK, TickState
    <3>3. CASE Begin(t) \/ Reap(t) \/ ClaimDue(t)
      BY <3>3 DEF Begin, Reap, ClaimDue, Step, HeldInv, TypeOK
    <3>. QED BY <1>6, <3>2, <3>3
  <2>. QED BY <2>1, <2>2, <2>3, <2>4, ListedQuiet
<1>7. ASSUME NEW t \in Ticks, Cap(t) PROVE ListedInv'
  <2>1. UNCHANGED <<told, sentAt, status>>
    BY <1>7 DEF Cap, outside, log
  <2>2. \A u \in Ticks \ {t} : tick'[u] = tick[u] /\ local'[u] = local[u]
    BY <1>7 DEF Cap, Step, HeldInv, TypeOK
  <2>3. /\ local'[t].at = local[t].at
        /\ tick'[t] = "write" =>
             local'[t].put = "scheduled" /\ FreesAt(local[t].at, KindOfGroup(local[t].group)) # {}
    BY <1>7 DEF Cap, Step, HeldInv, TypeOK
  <2>4. local[t].at \in 0 .. MaxTime
    BY DEF HeldInv, TypeOK
  <2>5. tick'[t] = "write" => CapReached(local[t].at)
    BY <2>3, <2>4, HoldsAtCap DEF HeldInv, ListedInv
  <2>6. ~Landing(t)'
    BY <2>3 DEF Landing
  <2>7. Listed'
    BY <2>1, <2>2, <2>6 DEF ListedInv, Listed, Landing, KindOfGroup
  <2>. QED BY <2>1, <2>2, <2>3, <2>5, <2>7 DEF ListedInv, CapReached, RowsSince, ToldSince
<1>8. ASSUME NEW t \in Ticks, Push(t) PROVE ListedInv'
  <2>. DEFINE g == local[t].group
              at == local[t].at
  <2>0. local \in [Ticks -> TickState]
    BY DEF HeldInv, TypeOK, TickState
  <2>1. /\ UNCHANGED <<sentAt, status>> /\ tick[t] = "push"
        /\ \A u \in Ticks \ {t} : tick'[u] = tick[u] /\ local'[u] = local[u]
        /\ local'[t].group = g /\ local'[t].at = at
    BY <1>8, <2>0 DEF Push, Step, NoneTookIt, log, HeldInv, TypeOK, TickState
  <2>2. /\ told' = told \/ told' = told \cup {Entry(at, g)}
        /\ local'[t].put = "sent" /\ KindOfGroup(g) \in Capped => Entry(at, g) \in told'
        /\ local'[t].put = "scheduled" => local'[t].counts
    BY <1>8, <2>0 DEF Push, NoneTookIt, Reached, Entry, outside, TickState
  <2>3. told \subseteq told'
    BY <2>2
  <2>4. Listed'
    BY <2>1, <2>2, <2>3 DEF ListedInv, Listed, Landing, KindOfGroup, Entry
  <2>5. ASSUME NEW u \in Ticks, tick'[u] = "write", local'[u].put = "scheduled", ~local'[u].counts
        PROVE  CapReached(local[u].at)' /\ local'[u] = local[u]
    <3>1. u # t
      BY <2>2, <2>5
    <3>2. CapReached(local[u].at) /\ local'[u] = local[u]
      BY <2>1, <2>5, <3>1 DEF ListedInv
    <3>3. local[u].at \in Int
      BY LocalType DEF HeldInv
    <3>4. \A x \in Int : CapReached(x) => CapReached(x)'
      BY <2>3, CapReachedStays DEF HeldInv
    <3>. QED BY <3>2, <3>3, <3>4 DEF CapReached, RowsSince, ToldSince
  <2>. QED BY <2>4, <2>5 DEF ListedInv
<1>9. ASSUME NEW t \in Ticks, Write(t) PROVE ListedInv'
  <2>. DEFINE g == local[t].group
  <2>1. /\ UNCHANGED told /\ tick[t] = "write" /\ tick'[t] # "write"
        /\ \A u \in Ticks \ {t} : tick'[u] = tick[u] /\ local'[u] = local[u]
    BY <1>9 DEF Write, Step, outside, HeldInv, TypeOK
  <2>2. \A n \in Notes \ g : status'[n] = status[n] /\ sentAt'[n] = sentAt[n]
    BY <1>9 DEF Write, HeldInv, TypeOK
  <2>3. ASSUME NEW n \in g, status'[n] = "sent", KindOf[n] \in Capped
        PROVE  \E p \in told : p.at = sentAt'[n] /\ n \in p.notes
    <3>1. g \subseteq Notes /\ Alike(g)
      BY LocalType DEF HeldInv, Mine, Parted, Whole
    <3>2. Landing(t) /\ sentAt'[n] = local[t].at
      BY <1>9, <2>1, <2>3, <3>1 DEF Write, Landing, HeldInv, TypeOK
    <3>3. KindOfGroup(g) = KindOf[n]
      <4>. HIDE DEF g
      <4>. QED BY <3>1, <2>3, KindOfAlike
    <3>4. Entry(local[t].at, g) \in told
      BY <2>3, <3>2, <3>3 DEF ListedInv, Listed
    <3>5. Entry(local[t].at, g).at = sentAt'[n] /\ n \in Entry(local[t].at, g).notes
      BY <3>2 DEF Entry
    <3>. QED BY <3>4, <3>5
  <2>4. Listed'
    BY <2>1, <2>2, <2>3 DEF ListedInv, Listed, Landing, KindOfGroup, Entry
  <2>. QED BY <2>1, <2>4 DEF ListedInv, CapReached, RowsSince, ToldSince
<1>10. ASSUME NEW t \in Ticks, Die(t) PROVE ListedInv'
  <2>. DEFINE g == local[t].group
              at == local[t].at
  <2>1. /\ UNCHANGED <<sentAt, status>> /\ tick'[t] = "off"
        /\ \A u \in Ticks \ {t} : tick'[u] = tick[u] /\ local'[u] = local[u]
    BY <1>10 DEF Die, log, HeldInv, TypeOK
  <2>2. told' = told \/ told' = told \cup {Entry(at, g)}
    BY <1>10 DEF Die, Reached, Entry, outside
  <2>3. told \subseteq told'
    BY <2>2
  <2>4. Listed'
    BY <2>1, <2>3 DEF ListedInv, Listed, Landing, KindOfGroup, Entry
  <2>5. ASSUME NEW u \in Ticks, tick'[u] = "write", local'[u].put = "scheduled", ~local'[u].counts
        PROVE  CapReached(local[u].at)' /\ local'[u] = local[u]
    <3>1. CapReached(local[u].at) /\ local'[u] = local[u]
      BY <2>1, <2>5 DEF ListedInv
    <3>2. local[u].at \in Int
      BY LocalType DEF HeldInv
    <3>3. \A x \in Int : CapReached(x) => CapReached(x)'
      BY <2>3, CapReachedStays DEF HeldInv
    <3>. QED BY <3>1, <3>2, <3>3 DEF CapReached, RowsSince, ToldSince
  <2>. QED BY <2>4, <2>5 DEF ListedInv
<1>. QED BY <1>1, <1>2, <1>3, <1>4, <1>5, <1>6, <1>7, <1>8, <1>9, <1>10 DEF Next

(* HeldOnlyAtCap: a push is held back only if PerDay rows were pushed in   *)
(* the window or the last push is within the spacing, however ticks        *)
(* overlap, outlive their claims or die.                                   *)
THEOREM HeldForCap == Spec => []HeldOnlyAtCap
<1>1. Init => ListedInv
  BY DEF Init, ListedInv, Listed, Landing
<1>2. HeldInv /\ HeldInv' /\ ListedInv /\ [Next]_vars => ListedInv'
  BY LogAssumption, ListedNext DEF HeldInv
<1>3. ListedInv => HeldOnlyAtCap
  BY DEF ListedInv, HeldOnlyAtCap, CapReached, RowsSince, ToldSince
<1>. QED BY <1>1, <1>2, <1>3, HeldAlways, PTL DEF Spec
=============================================================================
