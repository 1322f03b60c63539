------------------------- MODULE NewJobAlerts_proofs -------------------------
(***************************************************************************)
(* Proofs about NewJobAlerts, for any jobs, devices, overlapping runs and  *)
(* days and any number of faults: a registration is alerted once about a   *)
(* job, a device gets one digest a day, and how a candidate ended is true. *)
(***************************************************************************)
EXTENDS NewJobAlerts, FiniteSetTheorems, TLAPS

-----------------------------------------------------------------------------
(* The inductive invariants.                                               *)

Locals == [key : 0 .. MaxDays, picks : SUBSET Jobs, subs : SUBSET Subs,
           seen : SUBSET SeenRows, sending : SUBSET SeenRows,
           went : {"ok", "fail", "dead"}, took : BOOLEAN,
           verdict : {"none", "retry", "sent", "failed", "skipped"},
           job : SUBSET Jobs]

Rows == Jobs \X Subs

(* Run r may still push row x, or puts it back since its push failed. *)
Carries(r, x) == x \in HoldsRows(r) /\ ~(run[r] = "record" /\ local[r].went = "ok")

Carriers(x) == {r \in Runs : Carries(r, x)}

(* Row x may be taken by another run: it waits or will be made to, or its  *)
(* claim is nobody's or expired.                                           *)
Loose(x) ==
    \/ row[x] \in Waiting \cup {"failed"}
    \/ row[x] = "none" /\ (Registered(x[2]) \/ x[2][2] > tokens[x[2][1]])
    \/ row[x] = "sending" /\ (x \in old.rows \/ \A r \in Runs : x \notin HoldsRows(r))

(* The pushes about x that were and those that may come without a fault.   *)
Charged(x) ==
    /\ IsFiniteSet(Carriers(x))
    /\ alerts[x] + Cardinality(Carriers(x)) + (IF Loose(x) THEN 1 ELSE 0) <= 1 + faults

RowInv == TypeOK /\ (\A d \in Devices : reg[d] <= tokens[d]) /\ \A x \in Rows : Charged(x)

-----------------------------------------------------------------------------
(* Every variable keeps its type.  It has one of these groups.             *)

CandsOK == cand \in [Jobs -> CandStates] /\ ctries \in [Jobs -> 0 .. MaxAttempts]
RowsOK == row \in [Rows -> RowStates] /\ rtries \in [Rows -> 0 .. MaxAttempts]
OldOK == old \in [jobs : SUBSET Jobs, rows : SUBSET Rows]
PersonOK == /\ reg \in [Devices -> 0 .. MaxTokens] /\ tokens \in [Devices -> 0 .. MaxTokens]
            /\ matched \subseteq Jobs /\ enabled \in BOOLEAN /\ daily \in BOOLEAN
DaysOK == day \in 1 .. MaxDays /\ digest \in [1 .. MaxDays -> {"none", "sending", "sent", "failed"}]
OthersOK == making \in [Jobs -> {"idle", "insert", "revive"}] /\ switch \in {"idle", "off", "on", "onrows"}
RunsOK == run \in [Runs -> Places] /\ local \in [Runs -> Locals]
OutsideOK == /\ alerts \in [Rows -> 0 .. MaxFaults + 2]
             /\ pushes \in [Devices \X (1 .. MaxDays) -> 0 .. MaxFaults + 2]
             /\ seized \subseteq Jobs
FaultsOK == faults \in 0 .. MaxFaults

LEMMA Types ==
    TypeOK <=> CandsOK /\ RowsOK /\ OldOK /\ PersonOK /\ DaysOK /\ OthersOK /\ RunsOK /\ OutsideOK /\ FaultsOK
BY DEF TypeOK, CandsOK, RowsOK, OldOK, PersonOK, DaysOK, OthersOK, RunsOK, OutsideOK, FaultsOK, Rows, Locals

LEMMA NextTypes ==
    TypeOK' <=> CandsOK' /\ RowsOK' /\ OldOK' /\ PersonOK' /\ DaysOK' /\ OthersOK' /\ RunsOK' /\ OutsideOK'
                /\ FaultsOK'
BY DEF TypeOK, CandsOK, RowsOK, OldOK, PersonOK, DaysOK, OthersOK, RunsOK, OutsideOK, FaultsOK, Rows, Locals

LEMMA GroupsStay ==
    ASSUME TypeOK
    PROVE  /\ UNCHANGED <<cand, ctries>> => CandsOK'
           /\ UNCHANGED <<row, rtries>> => RowsOK'
           /\ UNCHANGED old => OldOK'
           /\ UNCHANGED table => CandsOK' /\ RowsOK' /\ OldOK'
           /\ UNCHANGED person => PersonOK'
           /\ UNCHANGED days => DaysOK'
           /\ UNCHANGED others => OthersOK'
           /\ UNCHANGED <<run, local>> => RunsOK'
           /\ UNCHANGED outside => OutsideOK'
           /\ UNCHANGED faults => FaultsOK'
<1>1. CandsOK /\ RowsOK /\ OldOK /\ PersonOK /\ DaysOK /\ OthersOK /\ RunsOK /\ OutsideOK /\ FaultsOK
  BY Types
<1>2. (UNCHANGED <<cand, ctries>> => CandsOK') /\ (UNCHANGED <<row, rtries>> => RowsOK')
      /\ (UNCHANGED old => OldOK')
  BY <1>1 DEF CandsOK, RowsOK, OldOK
<1>3. UNCHANGED table => CandsOK' /\ RowsOK' /\ OldOK'
  BY <1>2 DEF table
<1>4. (UNCHANGED person => PersonOK') /\ (UNCHANGED days => DaysOK') /\ (UNCHANGED others => OthersOK')
  BY <1>1 DEF PersonOK, DaysOK, OthersOK, person, days, others
<1>5. (UNCHANGED <<run, local>> => RunsOK') /\ (UNCHANGED outside => OutsideOK') /\ (UNCHANGED faults => FaultsOK')
  BY <1>1 DEF RunsOK, OutsideOK, FaultsOK, outside
<1>. QED  BY <1>2, <1>3, <1>4, <1>5

LEMMA NothingTyped == Nothing \in Locals
BY AlertsAssumption DEF Nothing, Locals

LEMMA ReviveTypes == ASSUME RowsOK, NEW C, ReviveRows(C) PROVE RowsOK'
BY DEF RowsOK, ReviveRows, RowStates, Waiting, MaxAttempts, Rows

LEMMA MatchTypes ==
    ASSUME TypeOK, NEW j \in Jobs, Match(j) \/ Insert(j) \/ Revive(j) \/ Rematch(j)
    PROVE  TypeOK'
<1>1. CandsOK /\ RowsOK /\ PersonOK /\ OthersOK
  BY Types
<1>2. ASSUME NEW from, NEW to \in {"idle", "insert", "revive"}, Make(j, from, to), UNCHANGED switch
      PROVE  OthersOK'
  BY <1>1, <1>2 DEF Make, OthersOK
<1>3. ASSUME Match(j) PROVE TypeOK'
  BY <1>2, <1>3, GroupsStay, NextTypes DEF Match
<1>4. ASSUME Insert(j) PROVE TypeOK'
  <2>1. CandsOK'
    BY <1>1, <1>4 DEF Insert, CandsOK, CandStates, Waiting, MaxAttempts
  <2>. QED  BY <1>2, <1>4, <2>1, GroupsStay, NextTypes DEF Insert
<1>5. ASSUME Revive(j) PROVE TypeOK'
  <2>1. RowsOK'
    BY <1>1, <1>5, ReviveTypes DEF Revive
  <2>. QED  BY <1>2, <1>5, <2>1, GroupsStay, NextTypes DEF Revive
<1>6. ASSUME Rematch(j) PROVE TypeOK'
  <2>1. PersonOK'
    BY <1>1, <1>6 DEF Rematch, PersonOK
  <2>. QED  BY <1>6, <2>1, GroupsStay, NextTypes DEF Rematch
<1>. QED  BY <1>3, <1>4, <1>5, <1>6

LEMMA SettingTypes ==
    ASSUME TypeOK,
           \/ SwitchOff \/ SwitchOn \/ DropQueued \/ ReviveQueued \/ ReviveQueuedRows
           \/ ChangePreferences \/ NextDay
    PROVE  TypeOK'
<1>1. CandsOK /\ RowsOK /\ PersonOK /\ DaysOK /\ OthersOK /\ OutsideOK
  BY Types
<1>2. ASSUME NEW from, NEW to \in {"idle", "off", "on", "onrows"}, Turn(from, to), UNCHANGED making
      PROVE  OthersOK'
  BY <1>1, <1>2 DEF Turn, OthersOK
<1>3. ASSUME SwitchOff \/ SwitchOn PROVE TypeOK'
  <2>1. PersonOK'
    BY <1>1, <1>3 DEF SwitchOff, SwitchOn, PersonOK
  <2>. QED  BY <1>2, <1>3, <2>1, GroupsStay, NextTypes DEF SwitchOff, SwitchOn
<1>4. ASSUME DropQueued \/ ReviveQueued PROVE TypeOK'
  <2>1. CandsOK'
    BY <1>1, <1>4 DEF DropQueued, ReviveQueued, CandsOK, CandStates, Waiting, MaxAttempts
  <2>. QED  BY <1>2, <1>4, <2>1, GroupsStay, NextTypes DEF DropQueued, ReviveQueued
<1>5. ASSUME ReviveQueuedRows PROVE TypeOK'
  <2>1. RowsOK'
    BY <1>1, <1>5, ReviveTypes DEF ReviveQueuedRows
  <2>. QED  BY <1>2, <1>5, <2>1, GroupsStay, NextTypes DEF ReviveQueuedRows
<1>6. ASSUME ChangePreferences PROVE TypeOK'
  <2>1. CandsOK'
    BY <1>1, <1>6 DEF ChangePreferences, CandsOK, CandStates, Active
  <2>2. PersonOK'
    BY <1>1, <1>6 DEF ChangePreferences, PersonOK
  <2>3. OutsideOK'
    BY <1>1, <1>6 DEF ChangePreferences, OutsideOK, Claimed
  <2>. QED  BY <1>6, <2>1, <2>2, <2>3, GroupsStay, NextTypes DEF ChangePreferences
<1>7. ASSUME NextDay PROVE TypeOK'
  <2>1. DaysOK'
    BY <1>1, <1>7, AlertsAssumption DEF NextDay, DaysOK
  <2>. QED  BY <1>7, <2>1, GroupsStay, NextTypes DEF NextDay
<1>. QED  BY <1>3, <1>4, <1>5, <1>6, <1>7

LEMMA CascadeTypes == ASSUME RowsOK, OldOK, NEW s, Cascade(s) PROVE RowsOK' /\ OldOK'
<1>1. RowsOK'
  BY DEF RowsOK, Cascade, RowStates, MaxAttempts, Rows
<1>2. {x \in old.rows : x[2] # s} \subseteq Rows /\ old.jobs \subseteq Jobs
  BY DEF OldOK
<1>3. old' = [old EXCEPT !.rows = {x \in old.rows : x[2] # s}]
  BY DEF Cascade
<1>4. OldOK'
  BY <1>2, <1>3 DEF OldOK
<1>. QED  BY <1>1, <1>4

LEMMA DeviceTypes ==
    ASSUME TypeOK, NEW d \in Devices, Register(d) \/ Unregister(d)
    PROVE  TypeOK'
<1>1. CandsOK /\ RowsOK /\ OldOK /\ PersonOK
  BY Types
<1>2. RowsOK' /\ OldOK'
  BY <1>1, CascadeTypes DEF Register, Unregister
<1>3. PersonOK'
  BY <1>1, AlertsAssumption DEF Register, Unregister, PersonOK
<1>. QED  BY <1>2, <1>3, GroupsStay, NextTypes DEF Register, Unregister

LEMMA AgeTypes ==
    ASSUME TypeOK, TenMinutes \/ Hang
    PROVE  TypeOK'
<1>1. OldOK /\ FaultsOK /\ OutsideOK
  BY Types
<1>2. PICK js \in SUBSET Jobs, xs \in SUBSET Rows : Age(js, xs)
  BY DEF TenMinutes, Hang, Orphans, Claimed, OrphanRows, ClaimedRows, Rows
<1>3. OldOK'
  BY <1>1, <1>2 DEF Age, OldOK
<1>4. FaultsOK'
  BY <1>1, AlertsAssumption DEF FaultsOK, TenMinutes, Hang
<1>5. OutsideOK'
  BY <1>1, <1>2 DEF OutsideOK, TenMinutes, Hang, Age, Claimed
<1>. QED  BY <1>2, <1>3, <1>4, <1>5, GroupsStay, NextTypes DEF Age


(* A run's step changes its own place and its own locals. *)
LEMMA RunTypes ==
    ASSUME RunsOK, NEW r \in Runs, NEW place \in Places, run' = [run EXCEPT ![r] = place],
           \/ UNCHANGED local
           \/ \E locals \in Locals : local' = [local EXCEPT ![r] = locals]
    PROVE  RunsOK'
BY DEF RunsOK

LEMMA OverTypes ==
    ASSUME RunsOK, NEW r \in Runs, NEW from, Over(r, from)
    PROVE  RunsOK'
BY RunTypes, NothingTyped DEF Over, Places

LEMMA MyTypes ==
    ASSUME RunsOK, NEW r \in Runs
    PROVE  local[r] \in Locals /\ run[r] \in Places
BY DEF RunsOK

LEMMA BeginTypes ==
    ASSUME TypeOK, NEW r \in Runs, Begin(r) \/ Die(r)
    PROVE  TypeOK'
<1>1. RunsOK /\ DaysOK /\ FaultsOK
  BY Types
<1>2. ASSUME Begin(r) PROVE TypeOK'
  <2>1. [local[r] EXCEPT !.key = day] \in Locals
    BY <1>1, MyTypes DEF Locals, DaysOK
  <2>2. RunsOK'
    BY <1>1, <1>2, <2>1 DEF Begin, Step, RunsOK, Places
  <2>. QED  BY <1>2, <2>2, GroupsStay, NextTypes DEF Begin
<1>3. ASSUME Die(r) PROVE TypeOK'
  <2>1. RunsOK'
    BY <1>1, <1>3, OverTypes DEF Die
  <2>2. FaultsOK'
    BY <1>1, <1>3, AlertsAssumption DEF Die, FaultsOK
  <2>. QED  BY <1>3, <2>1, <2>2, GroupsStay, NextTypes DEF Die
<1>. QED  BY <1>2, <1>3

LEMMA ReapTypes ==
    ASSUME TypeOK, NEW r \in Runs, ReapCandidates(r) \/ ReapRows(r) \/ Sift(r)
    PROVE  TypeOK'
<1>1. CandsOK /\ RowsOK /\ OldOK /\ RunsOK
  BY Types
<1>2. RunsOK'
  BY <1>1 DEF ReapCandidates, ReapRows, Sift, Step, RunsOK, Places
<1>3. ASSUME NEW n PROVE Expired(n) \in {"failed", "retry"}
  BY DEF Expired
<1>4. ASSUME ReapCandidates(r) \/ Sift(r) PROVE CandsOK'
  BY <1>1, <1>3, <1>4 DEF ReapCandidates, Sift, CandsOK, CandStates, Waiting
<1>5. ASSUME ReapRows(r) PROVE RowsOK'
  BY <1>1, <1>3, <1>5 DEF ReapRows, RowsOK, RowStates, Waiting
<1>6. ASSUME ReapCandidates(r) \/ ReapRows(r) PROVE OldOK'
  BY <1>1, <1>6 DEF ReapCandidates, ReapRows, OldOK
<1>. QED  BY <1>2, <1>4, <1>5, <1>6, GroupsStay, NextTypes DEF ReapCandidates, ReapRows, Sift

LEMMA SelectTypes ==
    ASSUME TypeOK, NEW r \in Runs, Select(r) \/ SkipRuledOut(r) \/ Claim(r)
    PROVE  TypeOK'
<1>1. CandsOK /\ OldOK /\ RunsOK /\ PersonOK /\ OutsideOK
  BY Types
<1>2. local[r] \in Locals
  BY <1>1, MyTypes
<1>3. ASSUME Select(r) PROVE TypeOK'
  <2>1. PICK ruledOut \in SUBSET Selected(r) :
          \/ Over(r, "select")
          \/ /\ Step(r, "select", IF ruledOut = {} THEN "claim" ELSE "mismatch")
             /\ local' = [local EXCEPT ![r].picks = Selected(r) \ ruledOut, ![r].job = ruledOut]
    BY <1>3 DEF Select
  <2>2. Selected(r) \subseteq Jobs
    BY <1>1 DEF Selected, PersonOK
  <2>3. [local[r] EXCEPT !.picks = Selected(r) \ ruledOut, !.job = ruledOut] \in Locals
    BY <1>2, <2>2 DEF Locals
  <2>4. CASE Over(r, "select")
    BY <1>1, <1>3, <2>4, OverTypes, GroupsStay, NextTypes DEF Select
  <2>5. CASE ~Over(r, "select")
    <3>1. RunsOK'
      BY <1>1, <2>1, <2>3, <2>5 DEF Step, RunsOK, Places
    <3>. QED  BY <1>3, <3>1, GroupsStay, NextTypes DEF Select
  <2>. QED  BY <2>4, <2>5
<1>4. ASSUME SkipRuledOut(r) PROVE TypeOK'
  <2>1. [local[r] EXCEPT !.job = {}] \in Locals
    BY <1>2 DEF Locals
  <2>2. CandsOK'
    BY <1>1, <1>4 DEF SkipRuledOut, CandsOK, CandStates
  <2>3. CASE Over(r, "mismatch")
    BY <1>1, <1>4, <2>2, <2>3, OverTypes, GroupsStay, NextTypes DEF SkipRuledOut
  <2>4. CASE ~Over(r, "mismatch")
    <3>1. RunsOK'
      BY <1>1, <1>4, <2>1, <2>4 DEF SkipRuledOut, Step, RunsOK, Places
    <3>. QED  BY <1>4, <2>2, <3>1, GroupsStay, NextTypes DEF SkipRuledOut
  <2>. QED  BY <2>3, <2>4
<1>5. ASSUME Claim(r) PROVE TypeOK'
  <2>. DEFINE mine == {j \in local[r].picks : StillWaiting(j)}
  <2>1. mine \subseteq Jobs /\ [local[r] EXCEPT !.picks = mine] \in Locals
    BY <1>2 DEF Locals
  <2>2. ASSUME NEW n \in 0 .. MaxAttempts PROVE Least(n + 1, MaxAttempts) \in 0 .. MaxAttempts
    BY DEF Least, MaxAttempts
  <2>3. CandsOK'
    BY <1>1, <1>5, <2>2 DEF Claim, CandsOK, CandStates
  <2>4. OldOK' /\ OutsideOK'
    BY <1>1, <1>5 DEF Claim, OldOK, OutsideOK
  <2>5. CASE Over(r, "claim")
    BY <1>1, <1>5, <2>3, <2>4, <2>5, OverTypes, GroupsStay, NextTypes DEF Claim
  <2>6. CASE ~Over(r, "claim")
    <3>1. RunsOK'
      BY <1>1, <1>5, <2>1, <2>6 DEF Claim, Step, RunsOK, Places
    <3>. QED  BY <1>5, <2>3, <2>4, <3>1, GroupsStay, NextTypes DEF Claim
  <2>. QED  BY <2>5, <2>6
<1>. QED  BY <1>3, <1>4, <1>5

LEMMA ReadyTypes ==
    ASSUME TypeOK, NEW r \in Runs, ReadDevices(r) \/ MarkAll(r) \/ ClaimDay(r) \/ Log(r)
    PROVE  TypeOK'
<1>1. CandsOK /\ RunsOK /\ DaysOK
  BY Types
<1>2. local[r] \in Locals
  BY <1>1, MyTypes
<1>3. ASSUME ReadDevices(r) PROVE TypeOK'
  <2>1. Registrations \subseteq Subs
    BY DEF Registrations
  <2>2. /\ [local[r] EXCEPT !.verdict = "skipped"] \in Locals
        /\ [local[r] EXCEPT !.subs = Registrations] \in Locals
    BY <1>2, <2>1 DEF Locals
  <2>3. RunsOK'
    BY <1>1, <1>3, <2>2 DEF ReadDevices, Step, RunsOK, Places
  <2>. QED  BY <1>3, <2>3, GroupsStay, NextTypes DEF ReadDevices
<1>4. ASSUME MarkAll(r) PROVE TypeOK'
  <2>1. RunsOK'
    BY <1>1, <1>4, OverTypes DEF MarkAll
  <2>2. CandsOK'
    BY <1>1, <1>2, <1>4 DEF MarkAll, CandsOK, CandStates, Locals, Waiting
  <2>. QED  BY <1>4, <2>1, <2>2, GroupsStay, NextTypes DEF MarkAll
<1>5. ASSUME ClaimDay(r) PROVE TypeOK'
  <2>1. [local[r] EXCEPT !.verdict = "retry"] \in Locals
    BY <1>2 DEF Locals
  <2>2. RunsOK'
    BY <1>1, <1>5, <2>1 DEF ClaimDay, Step, RunsOK, Places
  <2>3. DaysOK'
    BY <1>1, <1>5 DEF ClaimDay, DaysOK
  <2>. QED  BY <1>5, <2>2, <2>3, GroupsStay, NextTypes DEF ClaimDay
<1>6. ASSUME Log(r) PROVE TypeOK'
  <2>1. RunsOK'
    BY <1>1, <1>6 DEF Log, Step, RunsOK, Places
  <2>2. DaysOK'
    BY <1>1, <1>6 DEF Log, DaysOK
  <2>. QED  BY <1>6, <2>1, <2>2, GroupsStay, NextTypes DEF Log
<1>. QED  BY <1>3, <1>4, <1>5, <1>6


LEMMA RowReadTypes ==
    ASSUME TypeOK, NEW r \in Runs, MakeRows(r) \/ ReadRows(r) \/ NextDevice(r)
    PROVE  TypeOK'
<1>1. RowsOK /\ OldOK /\ RunsOK
  BY Types
<1>2. local[r] \in Locals
  BY <1>1, MyTypes
<1>3. ASSUME MakeRows(r) PROVE TypeOK'
  <2>1. RowsOK'
    BY <1>1, <1>3 DEF MakeRows, RowsOK, RowStates, Waiting
  <2>2. CASE Over(r, "rows")
    BY <1>1, <1>3, <2>1, <2>2, OverTypes, GroupsStay, NextTypes DEF MakeRows
  <2>3. CASE ~Over(r, "rows")
    <3>1. RunsOK'
      BY <1>1, <1>3, <2>3 DEF MakeRows, Step, RunsOK, Places
    <3>. QED  BY <1>3, <2>1, <3>1, GroupsStay, NextTypes DEF MakeRows
  <2>. QED  BY <2>2, <2>3
<1>4. ASSUME ReadRows(r) PROVE TypeOK'
  <2>. DEFINE S == {<<x[1], x[2], rtries[x]>> : x \in {y \in local[r].picks \X local[r].subs : Owed(y)}}
  <2>1. S \subseteq SeenRows
    <3>1. SUFFICES ASSUME NEW x \in local[r].picks \X local[r].subs, Owed(x)
                   PROVE  <<x[1], x[2], rtries[x]>> \in SeenRows
      OBVIOUS
    <3>2. x \in Rows /\ x[1] \in Jobs /\ x[2] \in Subs
      BY <1>2 DEF Locals, Rows
    <3>3. rtries[x] \in 0 .. MaxAttempts - 1
      BY <1>1, <3>1, <3>2 DEF Owed, RowsOK, MaxAttempts
    <3>. QED  BY <3>2, <3>3 DEF SeenRows
  <2>2. [local[r] EXCEPT !.seen = S] \in Locals
    BY <1>2, <2>1 DEF Locals
  <2>3. local' = [local EXCEPT ![r] = [local[r] EXCEPT !.seen = S]] /\ run' = [run EXCEPT ![r] = "next"]
    BY <1>4 DEF ReadRows, Step
  <2>4. RunsOK'
    BY <1>1, <2>2, <2>3, RunTypes DEF Places
  <2>. QED  BY <1>4, <2>4, GroupsStay, NextTypes DEF ReadRows
<1>5. ASSUME NextDevice(r) PROVE TypeOK'
  <2>1. PICK s \in local[r].subs :
          LET mine == {y \in local[r].seen : y[2] = s /\ Owed(<<y[1], s>>)}
              taken == {<<y[1], s>> : y \in mine}
          IN  /\ Step(r, "next", IF mine = {} THEN "next" ELSE "send")
              /\ local' = [local EXCEPT ![r].subs = @ \ {s}, ![r].sending = mine, ![r].seen = {y \in @ : y[2] # s}]
              /\ row' = [y \in DOMAIN row |-> IF y \in taken THEN "sending" ELSE row[y]]
              /\ rtries' = [y \in DOMAIN rtries |-> IF y \in taken THEN rtries[y] + 1 ELSE rtries[y]]
              /\ old' = [old EXCEPT !.rows = @ \ taken]
              /\ UNCHANGED <<cand, ctries, person, days, others, outside, faults>>
    BY <1>5 DEF NextDevice
  <2>. DEFINE mine == {y \in local[r].seen : y[2] = s /\ Owed(<<y[1], s>>)}
              taken == {<<y[1], s>> : y \in mine}
  <2>a. local' = [local EXCEPT ![r] = [local[r] EXCEPT !.subs = @ \ {s}, !.sending = mine,
                                                       !.seen = {y \in @ : y[2] # s}]]
    BY <2>1
  <2>2. mine \subseteq SeenRows /\ s \in Subs
    BY <1>2 DEF Locals
  <2>3. \A x \in taken : Owed(x)
    OBVIOUS
  <2>4. RowsOK'
    <3>1. /\ row' = [y \in DOMAIN row |-> IF y \in taken THEN "sending" ELSE row[y]]
          /\ rtries' = [y \in DOMAIN rtries |-> IF y \in taken THEN rtries[y] + 1 ELSE rtries[y]]
      BY <2>1
    <3>. HIDE DEF mine, taken
    <3>. QED  BY <1>1, <2>3, <3>1 DEF RowsOK, RowStates, Owed, MaxAttempts
  <2>5. OldOK'
    BY <1>1, <2>1 DEF OldOK
  <2>6. [local[r] EXCEPT !.subs = @ \ {s}, !.sending = mine, !.seen = {y \in @ : y[2] # s}] \in Locals
    BY <1>2, <2>2 DEF Locals
  <2>7. RunsOK'
    BY <1>1, <2>1, <2>a, <2>6, RunTypes DEF Step, Places
  <2>. QED  BY <1>5, <2>4, <2>5, <2>7, GroupsStay, NextTypes DEF NextDevice
<1>. QED  BY <1>3, <1>4, <1>5

LEMMA SendTypes ==
    ASSUME TypeOK, NEW r \in Runs, Send(r) \/ Record(r) \/ DropDead(r)
    PROVE  TypeOK'
<1>1. RowsOK /\ OldOK /\ RunsOK /\ OutsideOK /\ FaultsOK /\ PersonOK
  BY Types
<1>2. local[r] \in Locals
  BY <1>1, MyTypes
<1>3. ASSUME Send(r) PROVE TypeOK'
  <2>1. ASSUME NEW n \in 0 .. MaxFaults + 2 PROVE Least(n + 1, MaxFaults + 2) \in 0 .. MaxFaults + 2
    BY AlertsAssumption DEF Least
  <2>2. ASSUME Arrives(r), UNCHANGED seized PROVE OutsideOK'
    BY <1>1, <2>1, <2>2 DEF Arrives, OutsideOK
  <2>3. OutsideOK'
    BY <1>3, <2>2, GroupsStay DEF Send, outside
  <2>4. FaultsOK'
    BY <1>1, <1>3, AlertsAssumption DEF Send, FaultsOK
  <2>5. /\ [local[r] EXCEPT !.went = "ok", !.took = TRUE] \in Locals
        /\ \A w \in {"fail", "dead"} : [local[r] EXCEPT !.went = w] \in Locals
    BY <1>2 DEF Locals
  <2>6. \E locals \in Locals : local' = [local EXCEPT ![r] = locals]
    BY <1>3, <2>5 DEF Send
  <2>7. RunsOK'
    BY <1>1, <1>3, <2>6, RunTypes DEF Send, Step, Places
  <2>. QED  BY <1>3, <2>3, <2>4, <2>7, GroupsStay, NextTypes DEF Send
<1>4. ASSUME Record(r) PROVE TypeOK'
  <2>1. ASSUME NEW n PROVE FailureStatus(n) \in {"failed", "retry"}
    BY DEF FailureStatus
  <2>2. RowsOK'
    BY <1>1, <1>4, <2>1 DEF Record, RowsOK, RowStates, Waiting
  <2>3. [local[r] EXCEPT !.sending = IF local[r].went = "dead" THEN @ ELSE {},
                         !.went = IF @ = "dead" THEN @ ELSE "ok"] \in Locals
    BY <1>2 DEF Locals
  <2>4. local' = [local EXCEPT ![r] = [local[r] EXCEPT !.sending = IF local[r].went = "dead" THEN @ ELSE {},
                                                       !.went = IF @ = "dead" THEN @ ELSE "ok"]]
    BY <1>4 DEF Record
  <2>5. RunsOK'
    BY <1>1, <1>4, <2>3, <2>4, RunTypes DEF Record, Step, Places
  <2>. QED  BY <1>4, <2>2, <2>5, GroupsStay, NextTypes DEF Record
<1>5. ASSUME DropDead(r) PROVE TypeOK'
  <2>. DEFINE s == (CHOOSE y \in local[r].sending : TRUE)[2]
  <2>1. RowsOK' /\ OldOK'
    BY <1>1, <1>5, CascadeTypes, GroupsStay DEF DropDead
  <2>2. PersonOK'
    <3>1. reg' = reg \/ reg' = [reg EXCEPT ![s[1]] = 0]
      BY <1>5 DEF DropDead
    <3>. HIDE DEF s
    <3>. QED  BY <1>1, <1>5, <3>1, AlertsAssumption DEF DropDead, PersonOK
  <2>3. [local[r] EXCEPT !.sending = {}, !.went = "ok"] \in Locals
    BY <1>2 DEF Locals
  <2>4. local' = [local EXCEPT ![r] = [local[r] EXCEPT !.sending = {}, !.went = "ok"]]
    BY <1>5 DEF DropDead
  <2>5. RunsOK'
    BY <1>1, <1>5, <2>3, <2>4, RunTypes DEF DropDead, Step, Places
  <2>. QED  BY <1>5, <2>1, <2>2, <2>5, GroupsStay, NextTypes DEF DropDead
<1>. QED  BY <1>3, <1>4, <1>5

LEMMA SettleTypes ==
    ASSUME TypeOK, NEW r \in Runs, Count(r) \/ Write(r)
    PROVE  TypeOK'
<1>1. CandsOK /\ RunsOK
  BY Types
<1>2. local[r] \in Locals
  BY <1>1, MyTypes
<1>3. ASSUME Count(r) PROVE TypeOK'
  <2>1. PICK j \in local[r].picks :
          local' = [local EXCEPT ![r] = [local[r] EXCEPT !.job = {j}, !.verdict = Verdict(j), !.picks = @ \ {j}]]
    BY <1>3 DEF Count
  <2>2. Verdict(j) \in {"retry", "sent", "failed", "skipped"}
    BY DEF Verdict
  <2>3. [local[r] EXCEPT !.job = {j}, !.verdict = Verdict(j), !.picks = @ \ {j}] \in Locals
    BY <1>2, <2>2 DEF Locals
  <2>4. RunsOK'
    BY <1>1, <1>3, <2>1, <2>3, RunTypes DEF Count, Step, Places
  <2>. QED  BY <1>3, <2>4, GroupsStay, NextTypes DEF Count
<1>4. ASSUME Write(r) PROVE TypeOK'
  <2>1. [local[r] EXCEPT !.job = {}, !.verdict = "none"] \in Locals
    BY <1>2 DEF Locals
  <2>2. CandsOK'
    BY <1>1, <1>2, <1>4 DEF Write, CandsOK, CandStates, Locals, Waiting
  <2>3. CASE Over(r, "write")
    BY <1>1, <1>4, <2>2, <2>3, OverTypes, GroupsStay, NextTypes DEF Write
  <2>4. CASE ~Over(r, "write")
    <3>1. RunsOK'
      BY <1>1, <1>4, <2>1, <2>4 DEF Write, Step, RunsOK, Places
    <3>. QED  BY <1>4, <2>2, <3>1, GroupsStay, NextTypes DEF Write
  <2>. QED  BY <2>3, <2>4
<1>. QED  BY <1>3, <1>4

LEMMA TypesInit == ASSUME Init PROVE TypeOK
<1>1. CandsOK /\ RowsOK /\ OldOK
  BY DEF Init, CandsOK, RowsOK, OldOK, CandStates, RowStates, MaxAttempts, Rows
<1>2. PersonOK /\ DaysOK /\ OthersOK /\ OutsideOK /\ FaultsOK
  BY AlertsAssumption DEF Init, PersonOK, DaysOK, OthersOK, OutsideOK, FaultsOK, Rows
<1>3. RunsOK
  BY NothingTyped DEF Init, RunsOK, Places
<1>. QED  BY <1>1, <1>2, <1>3, Types

LEMMA TypesStay == ASSUME TypeOK, [Next]_vars PROVE TypeOK'
<1>1. CASE UNCHANGED vars
  BY <1>1, GroupsStay, NextTypes DEF vars
<1>2. CASE Next
  BY <1>2, MatchTypes, SettingTypes, DeviceTypes, AgeTypes, BeginTypes, ReapTypes, SelectTypes, ReadyTypes,
     RowReadTypes, SendTypes, SettleTypes DEF Next, RunStep
<1>. QED  BY <1>1, <1>2

-----------------------------------------------------------------------------
(* A row's sum in the steps that change it.                                *)

LEMMA Sizes ==
    ASSUME NEW C, IsFiniteSet(C)
    PROVE  /\ Cardinality(C) \in Nat
           /\ \A D \in SUBSET C : IsFiniteSet(D) /\ Cardinality(D) <= Cardinality(C)
           /\ \A r \in C : \A D \in SUBSET (C \ {r}) : IsFiniteSet(D) /\ Cardinality(D) + 1 <= Cardinality(C)
           /\ \A r : \A D \in SUBSET (C \cup {r}) : IsFiniteSet(D) /\ Cardinality(D) <= Cardinality(C) + 1
<1>1. Cardinality(C) \in Nat
  BY FS_CardinalityType
<1>2. ASSUME NEW E, IsFiniteSet(E), NEW D \in SUBSET E
      PROVE  IsFiniteSet(D) /\ Cardinality(D) <= Cardinality(E) /\ Cardinality(D) \in Nat
  BY <1>2, FS_Subset, FS_CardinalityType
<1>3. ASSUME NEW r \in C, NEW D \in SUBSET (C \ {r})
      PROVE  IsFiniteSet(D) /\ Cardinality(D) + 1 <= Cardinality(C)
  <2>1. IsFiniteSet(C \ {r}) /\ Cardinality(C \ {r}) = Cardinality(C) - 1
    BY FS_RemoveElement
  <2>2. IsFiniteSet(D) /\ Cardinality(D) <= Cardinality(C \ {r}) /\ Cardinality(D) \in Nat
    BY <1>2, <2>1
  <2>. QED  BY <1>1, <2>1, <2>2
<1>4. ASSUME NEW r, NEW D \in SUBSET (C \cup {r})
      PROVE  IsFiniteSet(D) /\ Cardinality(D) <= Cardinality(C) + 1
  <2>1. IsFiniteSet(C \cup {r}) /\ Cardinality(C \cup {r}) \in {Cardinality(C), Cardinality(C) + 1}
    BY FS_AddElement
  <2>2. IsFiniteSet(D) /\ Cardinality(D) <= Cardinality(C \cup {r}) /\ Cardinality(D) \in Nat
    BY <1>2, <2>1
  <2>. QED  BY <1>1, <2>1, <2>2
<1>. QED  BY <1>1, <1>2, <1>3, <1>4

LEMMA SumStays ==
    ASSUME TypeOK, TypeOK', NEW x \in Rows, Charged(x), Carriers(x)' \subseteq Carriers(x),
           alerts'[x] = alerts[x], faults' = faults, Loose(x)' => Loose(x)
    PROVE  Charged(x)'
<1>1. alerts[x] \in Nat /\ alerts'[x] \in Nat /\ faults \in Nat
  BY AlertsAssumption DEF TypeOK, Rows
<1>. QED  BY <1>1, Sizes DEF Charged

LEMMA RowFreed ==
    ASSUME TypeOK, TypeOK', NEW x \in Rows, Charged(x), NEW r \in Carriers(x),
           Carriers(x)' \subseteq Carriers(x) \ {r}, alerts'[x] = alerts[x], faults' = faults
    PROVE  Charged(x)'
<1>1. alerts[x] \in Nat /\ alerts'[x] \in Nat /\ faults \in Nat
  BY AlertsAssumption DEF TypeOK, Rows
<1>2. /\ IsFiniteSet(Carriers(x)') /\ Cardinality(Carriers(x)') + 1 <= Cardinality(Carriers(x))
      /\ Cardinality(Carriers(x)) \in Nat /\ Cardinality(Carriers(x)') \in Nat
  BY Sizes DEF Charged
<1>. QED  BY <1>1, <1>2 DEF Charged

LEMMA RowTaken ==
    ASSUME TypeOK, TypeOK', NEW x \in Rows, Charged(x), NEW r, Loose(x), ~Loose(x)',
           Carriers(x)' \subseteq Carriers(x) \cup {r}, alerts'[x] = alerts[x], faults' = faults
    PROVE  Charged(x)'
<1>1. alerts[x] \in Nat /\ alerts'[x] \in Nat /\ faults \in Nat
  BY AlertsAssumption DEF TypeOK, Rows
<1>2. /\ IsFiniteSet(Carriers(x)') /\ Cardinality(Carriers(x)') <= Cardinality(Carriers(x)) + 1
      /\ Cardinality(Carriers(x)) \in Nat /\ Cardinality(Carriers(x)') \in Nat
  BY Sizes DEF Charged
<1>. QED  BY <1>1, <1>2 DEF Charged

LEMMA FaultPaid ==
    ASSUME TypeOK, TypeOK', NEW x \in Rows, Charged(x), Carriers(x)' \subseteq Carriers(x),
           faults' = faults + 1, alerts'[x] = alerts[x] \/ (alerts'[x] <= alerts[x] + 1 /\ (Loose(x)' => Loose(x)))
    PROVE  Charged(x)'
<1>1. alerts[x] \in Nat /\ alerts'[x] \in Nat /\ faults \in Nat
  BY AlertsAssumption DEF TypeOK, Rows
<1>2. /\ IsFiniteSet(Carriers(x)') /\ Cardinality(Carriers(x)') <= Cardinality(Carriers(x))
      /\ Cardinality(Carriers(x)) \in Nat /\ Cardinality(Carriers(x)') \in Nat
  BY Sizes DEF Charged
<1>. QED  BY <1>1, <1>2 DEF Charged

LEMMA AlertArrived ==
    ASSUME TypeOK, TypeOK', NEW x \in Rows, Charged(x), NEW r \in Carriers(x),
           Carriers(x)' \subseteq Carriers(x) \ {r}, alerts'[x] <= alerts[x] + 1, faults' = faults,
           Loose(x)' => Loose(x)
    PROVE  Charged(x)'
<1>1. alerts[x] \in Nat /\ alerts'[x] \in Nat /\ faults \in Nat
  BY AlertsAssumption DEF TypeOK, Rows
<1>2. /\ IsFiniteSet(Carriers(x)') /\ Cardinality(Carriers(x)') + 1 <= Cardinality(Carriers(x))
      /\ Cardinality(Carriers(x)) \in Nat /\ Cardinality(Carriers(x)') \in Nat
  BY Sizes DEF Charged
<1>. QED  BY <1>1, <1>2 DEF Charged

-----------------------------------------------------------------------------
(* Whose step it is.                                                       *)

(* Only run r goes on. *)
Moves(r) == \A q \in Runs \ {r} : run'[q] = run[q] /\ local'[q] = local[q]

Away(r) == run[r] \notin {"send", "record"}

LEMMA OnlyMine ==
    ASSUME TypeOK, NEW r \in Runs, Begin(r) \/ RunStep(r) \/ Die(r)
    PROVE  Moves(r)
<1>1. run \in [Runs -> Places] /\ local \in [Runs -> Locals]
  BY Types DEF RunsOK
<1>. USE <1>1 DEF Moves, Step, Over
<1>2. CASE Begin(r) \/ Die(r)
  BY <1>2 DEF Begin, Die
<1>3. CASE ReapCandidates(r) \/ ReapRows(r) \/ Sift(r)
  BY <1>3 DEF ReapCandidates, ReapRows, Sift
<1>4. CASE Select(r)
  BY <1>4 DEF Select
<1>5. CASE SkipRuledOut(r) \/ Claim(r)
  BY <1>5 DEF SkipRuledOut, Claim
<1>6. CASE ReadDevices(r) \/ MarkAll(r) \/ ClaimDay(r) \/ Log(r)
  BY <1>6 DEF ReadDevices, MarkAll, ClaimDay, Log
<1>7. CASE MakeRows(r) \/ ReadRows(r)
  BY <1>7 DEF MakeRows, ReadRows
<1>8. CASE NextDevice(r)
  BY <1>8 DEF NextDevice
<1>9. CASE Send(r)
  BY <1>9 DEF Send
<1>10. CASE Record(r) \/ DropDead(r)
  BY <1>10 DEF Record, DropDead
<1>11. CASE Count(r) \/ Write(r)
  BY <1>11 DEF Count, Write
<1>. QED  BY <1>2, <1>3, <1>4, <1>5, <1>6, <1>7, <1>8, <1>9, <1>10, <1>11 DEF RunStep

(* Who holds and carries what stays. *)
HoldsStay == \A q \in Runs : HoldsRows(q)' = HoldsRows(q) /\ \A x \in Rows : Carries(q, x)' = Carries(q, x)

LEMMA OthersHold ==
    ASSUME NEW r \in Runs, Moves(r), NEW q \in Runs \ {r}
    PROVE  HoldsRows(q)' = HoldsRows(q) /\ \A x \in Rows : Carries(q, x)' = Carries(q, x)
BY DEF Moves, HoldsRows, Carries, Sending

LEMMA NothingHeld ==
    /\ \A r \in Runs : Away(r) => HoldsRows(r) = {} /\ \A x \in Rows : Carries(r, x) = FALSE
    /\ \A r \in Runs : Away(r)' => HoldsRows(r)' = {} /\ \A x \in Rows : Carries(r, x)' = FALSE
BY DEF Away, HoldsRows, Carries

LEMMA AwayHolds ==
    ASSUME NEW r \in Runs, Moves(r), Away(r), Away(r)'
    PROVE  HoldsStay
<1>1. ASSUME NEW q \in Runs, q # r
      PROVE  HoldsRows(q)' = HoldsRows(q) /\ \A x \in Rows : Carries(q, x)' = Carries(q, x)
  BY <1>1, OthersHold
<1>2. HoldsRows(r)' = HoldsRows(r) /\ \A x \in Rows : Carries(r, x)' = Carries(r, x)
  BY NothingHeld
<1>. QED  BY <1>1, <1>2 DEF HoldsStay

LEMMA NobodyMoves ==
    ASSUME UNCHANGED <<run, local>>
    PROVE  HoldsStay
BY DEF HoldsStay, HoldsRows, Carries, Sending

LEMMA CarriersStay == ASSUME HoldsStay PROVE \A x \in Rows : Carriers(x)' = Carriers(x)
<1>1. ASSUME NEW x \in Rows, NEW r \in Runs PROVE Carries(r, x)' = Carries(r, x)
  BY DEF HoldsStay
<1>. QED  BY <1>1 DEF Carriers

LEMMA LooseStays ==
    ASSUME NEW x \in Rows, HoldsStay, row'[x] = row[x], UNCHANGED <<reg, tokens>>,
           x \in old'.rows => x \in old.rows
    PROVE  Loose(x)' => Loose(x)
BY DEF Loose, HoldsStay, Registered

LEMMA Quiet ==
    ASSUME RowInv, TypeOK', HoldsStay, UNCHANGED <<row, reg, tokens, alerts, faults>>,
           old'.rows = old.rows
    PROVE  RowInv'
<1>1. ASSUME NEW x \in Rows PROVE Charged(x)'
  BY CarriersStay, LooseStays, SumStays DEF RowInv
<1>. QED  BY <1>1 DEF RowInv

-----------------------------------------------------------------------------
(* Every action keeps the sums.                                            *)

LEMMA QuietRuns ==
    ASSUME RowInv, NEW r \in Runs,
           \/ Begin(r) \/ ReapCandidates(r) \/ Sift(r) \/ Select(r) \/ SkipRuledOut(r) \/ Claim(r)
           \/ ReadDevices(r) \/ MarkAll(r) \/ ClaimDay(r) \/ ReadRows(r) \/ Log(r) \/ Count(r)
           \/ Write(r)
    PROVE  RowInv'
<1>1. TypeOK /\ TypeOK'
  BY BeginTypes, ReapTypes, SelectTypes, ReadyTypes, RowReadTypes, SettleTypes DEF RowInv
<1>2. run \in [Runs -> Places] /\ old \in [jobs : SUBSET Jobs, rows : SUBSET Rows]
  BY <1>1, Types DEF RunsOK, OldOK
<1>3. /\ \E from, to \in Places \ {"send", "record"} : Step(r, from, to) \/ Over(r, from)
      /\ UNCHANGED <<row, reg, tokens, alerts, faults>> /\ old'.rows = old.rows
  <2>1. CASE Begin(r) \/ ReapCandidates(r) \/ Sift(r)
    BY <1>2, <2>1 DEF Begin, ReapCandidates, Sift, table, person, outside, Places
  <2>2. CASE Select(r)
    BY <1>2, <2>2 DEF Select, table, person, outside, Places
  <2>3. CASE SkipRuledOut(r) \/ Claim(r)
    BY <1>2, <2>3 DEF SkipRuledOut, Claim, person, outside, Places
  <2>4. CASE ReadDevices(r) \/ MarkAll(r)
    BY <1>2, <2>4 DEF ReadDevices, MarkAll, table, person, outside, Places
  <2>5. CASE ClaimDay(r) \/ Log(r) \/ ReadRows(r)
    BY <1>2, <2>5 DEF ClaimDay, Log, ReadRows, table, person, outside, Places
  <2>6. CASE Count(r) \/ Write(r)
    BY <1>2, <2>6 DEF Count, Write, table, person, outside, Places
  <2>. QED  BY <2>1, <2>2, <2>3, <2>4, <2>5, <2>6
<1>4. Away(r) /\ Away(r)'
  BY <1>2, <1>3 DEF Away, Step, Over
<1>5. HoldsStay
  BY <1>1, <1>4, OnlyMine, AwayHolds DEF RunStep
<1>. QED  BY <1>1, <1>3, <1>5, Quiet

LEMMA QuietOthers ==
    ASSUME RowInv,
           \/ \E j \in Jobs : Match(j) \/ Insert(j) \/ Rematch(j)
           \/ SwitchOff \/ SwitchOn \/ DropQueued \/ ReviveQueued \/ ChangePreferences \/ NextDay
    PROVE  RowInv'
<1>1. TypeOK'
  BY MatchTypes, SettingTypes DEF RowInv
<1>2. UNCHANGED <<row, reg, tokens, alerts, faults, run, local, old>>
  BY DEF Match, Insert, Rematch, SwitchOff, SwitchOn, DropQueued, ReviveQueued, ChangePreferences, NextDay,
         table, person, outside
<1>. QED  BY <1>1, <1>2, NobodyMoves, Quiet

LEMMA RevivesKeep ==
    ASSUME RowInv, ReviveQueuedRows \/ \E j \in Jobs : Revive(j)
    PROVE  RowInv'
<1>1. TypeOK /\ TypeOK' /\ RowsOK
  BY MatchTypes, SettingTypes, Types DEF RowInv
<1>2. UNCHANGED <<reg, tokens, alerts, faults, run, local, old>> /\ \E C : ReviveRows(C)
  BY DEF Revive, ReviveQueuedRows, person, outside
<1>3. ASSUME NEW x \in Rows PROVE Charged(x)'
  <2>1. row'[x] = row[x] \/ (row[x] = "failed" /\ row'[x] = "retry")
    BY <1>1, <1>2 DEF ReviveRows, RowsOK, Rows
  <2>2. Loose(x)' => Loose(x)
    BY <1>2, <2>1, NobodyMoves, LooseStays DEF Loose
  <2>. QED  BY <1>1, <1>2, <2>2, NobodyMoves, CarriersStay, SumStays DEF RowInv
<1>. QED  BY <1>1, <1>2, <1>3 DEF RowInv

(* A registration ends and its rows go. *)
LEMMA EndsKeep ==
    ASSUME RowInv, TypeOK', HoldsStay, NEW s, Registered(s), Cascade(s),
           reg' = [reg EXCEPT ![s[1]] = 0], UNCHANGED <<tokens, alerts, faults>>
    PROVE  RowInv'
<1>1. RowsOK /\ OldOK /\ PersonOK
  BY Types DEF RowInv
<1>2. ASSUME NEW d \in Devices PROVE reg'[d] <= tokens'[d] /\ reg'[d] \in {0, reg[d]}
  BY <1>1, AlertsAssumption DEF PersonOK, RowInv
<1>3. ASSUME NEW x \in Rows PROVE Charged(x)'
  <2>1. x[2] \in Subs /\ x[2][1] \in Devices /\ x[2][2] \in 1 .. MaxTokens
    BY DEF Rows, Subs
  <2>2. ~Registered(x[2])' \/ (Registered(x[2]) /\ x[2][1] # s[1])
    BY <1>1, <2>1, AlertsAssumption DEF Registered, PersonOK
  <2>3. row'[x] = IF x[2] = s THEN "none" ELSE row[x]
    BY <1>1 DEF Cascade, RowsOK
  <2>4. x \in old'.rows => x \in old.rows
    BY <1>1 DEF Cascade, OldOK
  <2>5. x[2] = s => x[2][2] <= tokens[x[2][1]]
    BY <2>1 DEF Registered, RowInv
  <2>6. tokens[x[2][1]] \in Nat
    BY <1>1, <2>1 DEF PersonOK
  <2>7. Loose(x)' => Loose(x)
    <3>1. CASE x[2] = s
      BY <2>1, <2>2, <2>3, <2>5, <2>6, <3>1 DEF Loose, Waiting
    <3>2. CASE x[2] # s
      BY <2>2, <2>3, <2>4, <3>2 DEF Loose, HoldsStay
    <3>. QED  BY <3>1, <3>2
  <2>. QED  BY <2>7, CarriersStay, SumStays DEF RowInv
<1>. QED  BY <1>2, <1>3 DEF RowInv

LEMMA UnregisterKeeps ==
    ASSUME RowInv, NEW d \in Devices, Unregister(d)
    PROVE  RowInv'
<1>1. TypeOK'
  BY DeviceTypes DEF RowInv
<1>2. Registered(<<d, reg[d]>>) /\ Cascade(<<d, reg[d]>>) /\ reg' = [reg EXCEPT ![<<d, reg[d]>>[1]] = 0]
  BY DEF Unregister, Registered
<1>3. UNCHANGED <<tokens, alerts, faults, run, local>>
  BY DEF Unregister, outside
<1>. QED  BY <1>1, <1>2, <1>3, NobodyMoves, EndsKeep

LEMMA RegisterKeeps ==
    ASSUME RowInv, NEW d \in Devices, Register(d)
    PROVE  RowInv'
<1>1. RowsOK /\ OldOK /\ PersonOK /\ TypeOK' /\ TypeOK
  BY Types, DeviceTypes DEF RowInv
<1>2. UNCHANGED <<alerts, faults, run, local>> /\ Cascade(<<d, reg[d]>>)
  BY DEF Register, outside
<1>3. /\ reg' = [reg EXCEPT ![d] = tokens[d] + 1] /\ tokens' = [tokens EXCEPT ![d] = tokens[d] + 1]
      /\ tokens[d] \in Nat /\ reg[d] \in Nat /\ reg[d] <= tokens[d]
  BY <1>1 DEF Register, PersonOK, RowInv
<1>4. \A e \in Devices : reg'[e] <= tokens'[e]
  BY <1>1, <1>3 DEF PersonOK, RowInv
<1>5. ASSUME NEW x \in Rows PROVE Charged(x)'
  <2>1. x[2] = <<x[2][1], x[2][2]>> /\ x[2][1] \in Devices /\ x[2][2] \in 1 .. MaxTokens
    BY DEF Rows, Subs
  <2>2. row'[x] = IF x[2] = <<d, reg[d]>> THEN "none" ELSE row[x]
    BY <1>1, <1>2 DEF Cascade, RowsOK
  <2>3. x \in old'.rows => x \in old.rows
    BY <1>1, <1>2 DEF Cascade, OldOK
  <2>4. tokens[x[2][1]] \in Nat /\ tokens'[x[2][1]] = IF x[2][1] = d THEN tokens[d] + 1 ELSE tokens[x[2][1]]
    BY <1>1, <1>3, <2>1 DEF PersonOK
  <2>5. reg'[x[2][1]] = IF x[2][1] = d THEN tokens[d] + 1 ELSE reg[x[2][1]]
    BY <1>1, <1>3, <2>1 DEF PersonOK
  <2>6. Loose(x)' => Loose(x)
    <3>1. CASE x[2] = <<d, reg[d]>>
      <4>1. x[2][1] = d /\ x[2][2] = reg[d]
        BY <3>1
      <4>2. ~Registered(x[2])' /\ ~(x[2][2] > tokens'[x[2][1]])
        BY <1>3, <2>1, <2>4, <2>5, <4>1 DEF Registered
      <4>. QED  BY <2>2, <3>1, <4>2 DEF Loose, Waiting
    <3>2. CASE x[2] # <<d, reg[d]>> /\ row[x] = "none"
      <4>1. Registered(x[2])' \/ x[2][2] > tokens'[x[2][1]] => Registered(x[2]) \/ x[2][2] > tokens[x[2][1]]
        BY <1>3, <2>1, <2>4, <2>5 DEF Registered
      <4>. QED  BY <2>2, <3>2, <4>1 DEF Loose
    <3>3. CASE x[2] # <<d, reg[d]>> /\ row[x] # "none"
      BY <1>2, <2>2, <2>3, <3>3, NobodyMoves DEF Loose, HoldsStay
    <3>. QED  BY <3>1, <3>2, <3>3
  <2>. QED  BY <1>1, <1>2, <2>6, NobodyMoves, CarriersStay, SumStays DEF RowInv
<1>. QED  BY <1>1, <1>4, <1>5 DEF RowInv

LEMMA AgesKeep ==
    ASSUME RowInv, TenMinutes \/ Hang
    PROVE  RowInv'
<1>1. TypeOK /\ TypeOK'
  BY AgeTypes DEF RowInv
<1>2. UNCHANGED <<row, reg, tokens, alerts, run, local>>
  BY DEF TenMinutes, Hang, Age, person, outside
<1>3. HoldsStay
  BY <1>2, NobodyMoves
<1>4. ASSUME NEW x \in Rows PROVE Charged(x)'
  <2>1. CASE TenMinutes
    <3>1. x \in old'.rows => x \in old.rows \/ x \in OrphanRows
      BY <2>1 DEF TenMinutes, Age
    <3>2. x \in OrphanRows => Loose(x)
      BY DEF OrphanRows, ClaimedRows, Loose
    <3>3. Loose(x)' => Loose(x)
      BY <1>2, <1>3, <3>1, <3>2 DEF Loose, HoldsStay, Registered
    <3>. QED  BY <1>1, <1>2, <1>3, <2>1, <3>3, CarriersStay, SumStays DEF RowInv, TenMinutes
  <2>2. CASE Hang
    BY <1>1, <1>2, <1>3, <2>2, CarriersStay, FaultPaid DEF RowInv, Hang
  <2>. QED  BY <2>1, <2>2
<1>. QED  BY <1>1, <1>2, <1>4 DEF RowInv

LEMMA DieKeepsSums ==
    ASSUME RowInv, NEW r \in Runs, Die(r)
    PROVE  RowInv'
<1>1. TypeOK /\ TypeOK' /\ RunsOK
  BY BeginTypes, Types DEF RowInv
<1>2. UNCHANGED <<reg, tokens, alerts>> /\ faults' = faults + 1
  BY DEF Die, person, outside
<1>3. Away(r)' /\ Moves(r)
  BY <1>1, OnlyMine DEF Die, Over, Away, RunsOK
<1>4. ASSUME NEW x \in Rows PROVE Charged(x)'
  <2>1. Carriers(x)' \subseteq Carriers(x)
    BY <1>3, OthersHold, NothingHeld DEF Carriers
  <2>. QED  BY <1>1, <1>2, <2>1, FaultPaid DEF RowInv
<1>. QED  BY <1>1, <1>2, <1>4 DEF RowInv

LEMMA ReapRowsKeeps ==
    ASSUME RowInv, NEW r \in Runs, ReapRows(r)
    PROVE  RowInv'
<1>1. TypeOK /\ TypeOK' /\ RunsOK /\ RowsOK /\ OldOK
  BY ReapTypes, Types DEF RowInv
<1>2. UNCHANGED <<reg, tokens, alerts, faults>>
  BY DEF ReapRows, person, outside
<1>3. HoldsStay
  BY <1>1, OnlyMine, AwayHolds DEF ReapRows, Step, Away, RunsOK, RunStep
<1>4. ASSUME NEW x \in Rows PROVE Charged(x)'
  <2>1. row'[x] = row[x] \/ (x \in old.rows /\ row[x] = "sending" /\ row'[x] \in {"failed", "retry"})
    BY <1>1 DEF ReapRows, RowsOK, Expired
  <2>2. old'.rows = {}
    BY <1>1 DEF ReapRows, OldOK
  <2>3. Loose(x)' => Loose(x)
    BY <1>2, <1>3, <2>1, <2>2, LooseStays DEF Loose
  <2>. QED  BY <1>1, <1>2, <1>3, <2>3, CarriersStay, SumStays DEF RowInv
<1>. QED  BY <1>1, <1>2, <1>4 DEF RowInv

LEMMA MakeRowsKeeps ==
    ASSUME RowInv, NEW r \in Runs, MakeRows(r)
    PROVE  RowInv'
<1>1. TypeOK /\ TypeOK' /\ RunsOK /\ RowsOK
  BY RowReadTypes, Types DEF RowInv
<1>2. UNCHANGED <<reg, tokens, alerts, faults, old>>
  BY DEF MakeRows, person, outside
<1>3. HoldsStay
  <2>1. Away(r) /\ Away(r)'
    BY <1>1 DEF MakeRows, Step, Over, Away, RunsOK
  <2>. QED  BY <1>1, <2>1, OnlyMine, AwayHolds DEF RunStep
<1>4. ASSUME NEW x \in Rows PROVE Charged(x)'
  <2>1. row'[x] = row[x] \/ (row[x] = "none" /\ Registered(x[2]))
    BY <1>1 DEF MakeRows, RowsOK
  <2>2. Loose(x)' => Loose(x)
    BY <1>2, <1>3, <2>1, LooseStays DEF Loose
  <2>. QED  BY <1>1, <1>2, <1>3, <2>2, CarriersStay, SumStays DEF RowInv
<1>. QED  BY <1>1, <1>2, <1>4 DEF RowInv


(* What NextDevice does to the rows, and to what its run holds. *)
LEMMA Takes ==
    ASSUME TypeOK, NEW r \in Runs, NextDevice(r)
    PROVE  \E taken \in SUBSET Rows :
             /\ \A x \in taken : Owed(x)
             /\ run[r] = "next" /\ HoldsRows(r)' = taken
             /\ \A x \in taken : run'[r] = "send"
             /\ row' = [x \in Rows |-> IF x \in taken THEN "sending" ELSE row[x]]
             /\ old'.rows = old.rows \ taken
<1>1. RowsOK /\ OldOK /\ RunsOK /\ local[r] \in Locals
  BY Types, MyTypes
<1>2. PICK s \in local[r].subs :
          LET mine == {y \in local[r].seen : y[2] = s /\ Owed(<<y[1], s>>)}
              taken == {<<y[1], s>> : y \in mine}
          IN  /\ Step(r, "next", IF mine = {} THEN "next" ELSE "send")
              /\ local' = [local EXCEPT ![r].subs = @ \ {s}, ![r].sending = mine, ![r].seen = {y \in @ : y[2] # s}]
              /\ row' = [y \in DOMAIN row |-> IF y \in taken THEN "sending" ELSE row[y]]
              /\ old' = [old EXCEPT !.rows = @ \ taken]
  BY DEF NextDevice
<1>. DEFINE mine == {y \in local[r].seen : y[2] = s /\ Owed(<<y[1], s>>)}
            taken == {<<y[1], s>> : y \in mine}
<1>3. local'[r].sending = mine
  BY <1>1, <1>2 DEF RunsOK, Locals
<1>4. run[r] = "next" /\ run'[r] = IF mine = {} THEN "next" ELSE "send"
  BY <1>1, <1>2 DEF Step, RunsOK
<1>5. taken \subseteq Rows /\ \A x \in taken : Owed(x)
  <2>1. \A y \in mine : y[1] \in Jobs /\ Owed(<<y[1], s>>)
    BY <1>1 DEF Locals, SeenRows
  <2>2. s \in Subs
    BY <1>1 DEF Locals
  <2>. HIDE DEF mine
  <2>. QED  BY <2>1, <2>2 DEF Rows
<1>6. \A y \in mine : <<y[1], y[2]>> = <<y[1], s>>
  OBVIOUS
<1>7. Sending(r)' = taken
  BY <1>3, <1>6 DEF Sending
<1>8. row' = [x \in Rows |-> IF x \in taken THEN "sending" ELSE row[x]]
  BY <1>1, <1>2 DEF RowsOK
<1>9. old'.rows = old.rows \ taken
  BY <1>1, <1>2 DEF OldOK
<1>10. mine = {} => taken = {}
  OBVIOUS
<1>11. (run' = run /\ local' = local => Sending(r)' = Sending(r))
       /\ HoldsRows(r)' = IF run'[r] \in {"send", "record"} THEN Sending(r)' ELSE {}
  BY DEF HoldsRows, Sending
<1>12. HoldsRows(r)' = taken /\ \A x \in taken : run'[r] = "send"
  BY <1>4, <1>7, <1>10, <1>11
<1>. HIDE DEF mine, taken
<1>. QED  BY <1>4, <1>5, <1>8, <1>9, <1>12

LEMMA NextDeviceKeeps ==
    ASSUME RowInv, NEW r \in Runs, NextDevice(r)
    PROVE  RowInv'
<1>1. TypeOK /\ TypeOK' /\ Moves(r)
  BY RowReadTypes, OnlyMine DEF RowInv, RunStep
<1>2. UNCHANGED <<reg, tokens, alerts, faults>>
  BY DEF NextDevice, person, outside
<1>3. PICK taken \in SUBSET Rows :
        /\ \A x \in taken : Owed(x)
        /\ run[r] = "next" /\ HoldsRows(r)' = taken
        /\ \A x \in taken : run'[r] = "send"
        /\ row' = [x \in Rows |-> IF x \in taken THEN "sending" ELSE row[x]]
        /\ old'.rows = old.rows \ taken
  BY <1>1, Takes
<1>4. HoldsRows(r) = {}
      /\ \A q \in Runs \ {r} : HoldsRows(q)' = HoldsRows(q) /\ \A x \in Rows : Carries(q, x)' = Carries(q, x)
  BY <1>1, <1>3, OthersHold, NothingHeld DEF Away
<1>5. ASSUME NEW x \in taken PROVE Charged(x)'
  <2>1. Loose(x)
    BY <1>3 DEF Owed, Loose
  <2>2. ~Loose(x)'
    BY <1>3 DEF Loose, Waiting
  <2>3. Carriers(x)' \subseteq Carriers(x) \cup {r}
    BY <1>4 DEF Carriers
  <2>. QED  BY <1>1, <1>2, <2>1, <2>2, <2>3, RowTaken DEF RowInv
<1>6. ASSUME NEW x \in Rows, x \notin taken PROVE Charged(x)'
  <2>1. ~Carries(r, x)'
    BY <1>3, <1>6 DEF Carries
  <2>2. Carriers(x)' \subseteq Carriers(x)
    BY <1>4, <2>1 DEF Carriers
  <2>3. (\A q \in Runs : x \notin HoldsRows(q)') => \A q \in Runs : x \notin HoldsRows(q)
    BY <1>4
  <2>4. Loose(x)' => Loose(x)
    BY <1>2, <1>3, <1>6, <2>3 DEF Loose, Registered
  <2>. QED  BY <1>1, <1>2, <2>2, <2>4, SumStays DEF RowInv
<1>. QED  BY <1>1, <1>2, <1>5, <1>6 DEF RowInv

LEMMA SendKeeps ==
    ASSUME RowInv, NEW r \in Runs, Send(r)
    PROVE  RowInv'
<1>1. TypeOK /\ TypeOK' /\ Moves(r) /\ RunsOK /\ OutsideOK /\ FaultsOK /\ local[r] \in Locals
  BY SendTypes, OnlyMine, Types, MyTypes DEF RowInv, RunStep
<1>2. UNCHANGED <<row, reg, tokens, old>> /\ run[r] = "send" /\ run'[r] = "record"
  BY <1>1 DEF Send, Step, table, person, RunsOK
<1>3. local'[r].sending = local[r].sending
  BY <1>1 DEF Send, RunsOK, Locals
<1>4. Sending(r)' = Sending(r)
  BY <1>3 DEF Sending
<1>5. HoldsRows(r)' = Sending(r) /\ HoldsRows(r) = Sending(r)
  BY <1>2, <1>4 DEF HoldsRows
<1>6. \A q \in Runs \ {r} : HoldsRows(q)' = HoldsRows(q) /\ \A x \in Rows : Carries(q, x)' = Carries(q, x)
  BY <1>1, OthersHold
<1>7. \A x \in Rows : (Carries(r, x) <=> x \in Sending(r)) /\ (Carries(r, x)' => x \in Sending(r))
  BY <1>2, <1>5 DEF Carries
<1>8. ASSUME NEW x \in Rows PROVE Carriers(x)' \subseteq Carriers(x) /\ (Loose(x)' => Loose(x))
  <2>1. Carriers(x)' \subseteq Carriers(x)
    BY <1>6, <1>7 DEF Carriers
  <2>2. (\A q \in Runs : x \notin HoldsRows(q)') => \A q \in Runs : x \notin HoldsRows(q)
    BY <1>5, <1>6
  <2>3. Loose(x)' => Loose(x)
    BY <1>2, <2>2 DEF Loose, Registered
  <2>. QED  BY <2>1, <2>3
<1>9. ASSUME Arrives(r), NEW x \in Rows
      PROVE  alerts'[x] <= alerts[x] + 1 /\ (x \notin Sending(r) => alerts'[x] = alerts[x])
  BY <1>1, <1>9, AlertsAssumption DEF Arrives, OutsideOK, Least
<1>10. ASSUME NEW x \in Rows PROVE Charged(x)'
  <2>1. CASE Arrives(r) /\ local'[r].went = "ok" /\ faults' = faults
    <3>1. CASE x \in Sending(r)
      <4>1. ~Carries(r, x)'
        BY <1>2, <2>1 DEF Carries
      <4>2. r \in Carriers(x) /\ Carriers(x)' \subseteq Carriers(x) \ {r}
        BY <1>7, <1>8, <3>1, <4>1 DEF Carriers
      <4>. QED  BY <1>1, <1>8, <1>9, <2>1, <4>2, AlertArrived DEF RowInv
    <3>2. CASE x \notin Sending(r)
      BY <1>1, <1>8, <1>9, <2>1, <3>2, SumStays DEF RowInv
    <3>. QED  BY <3>1, <3>2
  <2>2. CASE UNCHANGED <<alerts, faults>>
    BY <1>1, <1>8, <2>2, SumStays DEF RowInv
  <2>3. CASE Arrives(r) /\ faults' = faults + 1
    BY <1>1, <1>8, <1>9, <2>3, FaultPaid DEF RowInv
  <2>. QED  BY <1>1, <2>1, <2>2, <2>3 DEF Send, outside, RunsOK, Locals
<1>. QED  BY <1>1, <1>2, <1>10 DEF RowInv

LEMMA RecordKeeps ==
    ASSUME RowInv, NEW r \in Runs, Record(r)
    PROVE  RowInv'
<1>1. TypeOK /\ TypeOK' /\ Moves(r) /\ RunsOK /\ RowsOK
  BY SendTypes, OnlyMine, Types DEF RowInv, RunStep
<1>2. UNCHANGED <<reg, tokens, alerts, faults, old>> /\ run[r] = "record" /\ Away(r)'
  BY <1>1 DEF Record, Step, person, outside, RunsOK, Away
<1>3. HoldsRows(r) = Sending(r) /\ HoldsRows(r)' = {} /\ \A x \in Rows : ~Carries(r, x)'
  BY <1>2, NothingHeld DEF HoldsRows
<1>4. \A q \in Runs \ {r} : HoldsRows(q)' = HoldsRows(q) /\ \A x \in Rows : Carries(q, x)' = Carries(q, x)
  BY <1>1, OthersHold
<1>5. ASSUME NEW x \in Rows PROVE Charged(x)'
  <2>1. Carriers(x)' \subseteq Carriers(x) \ {r}
    BY <1>3, <1>4 DEF Carriers
  <2>2. \/ row'[x] = row[x] /\ (row[x] = "none" \/ x \notin Sending(r))
        \/ x \in Sending(r) /\ local[r].went = "ok" /\ row'[x] = "sent"
        \/ x \in Sending(r) /\ local[r].went # "ok"
    BY <1>1 DEF Record, RowsOK
  <2>3. CASE row'[x] = row[x] /\ (row[x] = "none" \/ x \notin Sending(r))
    <3>1. (\A q \in Runs : x \notin HoldsRows(q)') => row[x] = "none" \/ \A q \in Runs : x \notin HoldsRows(q)
      BY <1>3, <1>4, <2>3
    <3>2. Loose(x)' => Loose(x)
      BY <1>2, <2>3, <3>1 DEF Loose, Registered
    <3>. QED  BY <1>1, <1>2, <2>1, <3>2, SumStays DEF RowInv
  <2>4. CASE x \in Sending(r) /\ local[r].went = "ok" /\ row'[x] = "sent"
    <3>1. ~Loose(x)'
      BY <2>4 DEF Loose, Waiting
    <3>. QED  BY <1>1, <1>2, <2>1, <3>1, SumStays DEF RowInv
  <2>5. CASE x \in Sending(r) /\ local[r].went # "ok"
    <3>1. r \in Carriers(x)
      BY <1>3, <2>5 DEF Carriers, Carries
    <3>. QED  BY <1>1, <1>2, <2>1, <3>1, RowFreed DEF RowInv
  <2>. QED  BY <2>2, <2>3, <2>4, <2>5
<1>. QED  BY <1>1, <1>2, <1>5 DEF RowInv

LEMMA DropDeadKeeps ==
    ASSUME RowInv, NEW r \in Runs, DropDead(r)
    PROVE  RowInv'
<1>1. TypeOK /\ TypeOK' /\ RunsOK
  BY SendTypes, Types DEF RowInv
<1>2. HoldsStay
  <2>1. Away(r) /\ Away(r)'
    BY <1>1 DEF DropDead, Step, Away, RunsOK
  <2>. QED  BY <1>1, <2>1, OnlyMine, AwayHolds DEF RunStep
<1>3. UNCHANGED <<tokens, alerts, faults>>
  BY DEF DropDead, outside
<1>4. CASE UNCHANGED <<reg, row, rtries, old>>
  BY <1>1, <1>2, <1>3, <1>4, Quiet
<1>5. CASE ~UNCHANGED <<reg, row, rtries, old>>
  <2>. DEFINE s == (CHOOSE y \in local[r].sending : TRUE)[2]
  <2>1. Registered(s) /\ reg' = [reg EXCEPT ![s[1]] = 0] /\ Cascade(s)
    BY <1>5 DEF DropDead
  <2>. HIDE DEF s
  <2>. QED  BY <1>1, <1>2, <1>3, <2>1, EndsKeep
<1>. QED  BY <1>4, <1>5

LEMMA RowsInit == ASSUME Init PROVE RowInv
<1>1. TypeOK
  BY TypesInit
<1>2. \A d \in Devices : reg[d] <= tokens[d]
  BY DEF Init
<1>3. ASSUME NEW x \in Rows PROVE Charged(x)
  <2>1. Carriers(x) = {}
    BY DEF Init, Carriers, Carries, HoldsRows
  <2>2. alerts[x] = 0 /\ faults = 0
    BY DEF Init, Rows
  <2>. QED  BY <2>1, <2>2, FS_EmptySet DEF Charged
<1>. QED  BY <1>1, <1>2, <1>3 DEF RowInv

LEMMA RowsStay == ASSUME RowInv, [Next]_vars PROVE RowInv'
<1>1. CASE UNCHANGED vars
  <2>1. TypeOK' /\ UNCHANGED <<row, reg, tokens, alerts, faults, run, local, old>>
    BY <1>1, TypesStay DEF RowInv, vars, table, person, outside
  <2>. QED  BY <2>1, NobodyMoves, Quiet
<1>2. CASE Next
  BY <1>2, QuietRuns, QuietOthers, RevivesKeep, RegisterKeeps, UnregisterKeeps, AgesKeep, DieKeepsSums,
     ReapRowsKeeps, MakeRowsKeeps, NextDeviceKeeps, SendKeeps, RecordKeeps, DropDeadKeeps DEF Next, RunStep
<1>. QED  BY <1>1, <1>2

(* A row is not taken beyond its last attempt, and what runs hold and the  *)
(* rows say stays well typed, however runs overlap, hang and die.          *)
THEOREM TypeCorrect == Spec => []TypeOK
<1>1. RowInv => TypeOK
  BY DEF RowInv
<1>. QED  BY <1>1, RowsInit, RowsStay, PTL DEF Spec

(* AlertedOnce: a registration is alerted once about a job, however many   *)
(* runs overlap and whatever the person changes meanwhile; each crash,     *)
(* lost answer or run slower than its claims costs at most one repeat.     *)
THEOREM OneAlertEach == Spec => []AlertedOnce
<1>1. RowInv => AlertedOnce
  <2>. SUFFICES ASSUME RowInv, NEW x \in Rows PROVE alerts[x] <= 1 + faults
    BY Types DEF AlertedOnce, RowInv, OutsideOK
  <2>2. Charged(x)
    BY DEF RowInv
  <2>3. Cardinality(Carriers(x)) \in Nat
    BY <2>2, FS_CardinalityType DEF Charged
  <2>4. alerts[x] \in Int /\ faults \in Int
    BY Types, AlertsAssumption DEF RowInv, OutsideOK, FaultsOK
  <2>. QED  BY <2>2, <2>3, <2>4 DEF Charged
<1>. QED  BY <1>1, RowsInit, RowsStay, PTL DEF Spec

-----------------------------------------------------------------------------
(* One digest a day.                                                       *)

(* Run r has its day, and devices to send its digest to. *)
Past(r) == run[r] \in {"rows", "read", "next", "send", "record", "drop"} /\ local[r].key # 0

(* One subscription per device. *)
OneEach(S) == \A s, t \in S : s[1] = t[1] => s = t

(* The subscriptions r's digest has yet to reach. *)
Ahead(r) == local[r].subs \cup (IF run[r] = "send" THEN {y[2] : y \in local[r].sending} ELSE {})

(* A run that has its day took it, alone; it comes to each device once.    *)
Days ==
    /\ \A r \in Runs : Past(r) => digest[local[r].key] # "none"
    /\ \A q, r \in Runs : Past(q) /\ Past(r) /\ local[q].key = local[r].key => q = r

Trips(r) ==
    /\ run[r] = "day" => OneEach(local[r].subs)
    /\ Past(r) => OneEach(Ahead(r))
    /\ Past(r) /\ run[r] = "send" => \A y \in local[r].sending : y[2] \notin local[r].subs

(* What reached a device: nothing before the day is taken, nothing while   *)
(* the run that took it has yet to come there.                             *)
Reached(p) ==
    /\ pushes[p] <= 1
    /\ digest[p[2]] = "none" => pushes[p] = 0
    /\ \A r \in Runs : Past(r) /\ local[r].key = p[2] /\ (\E s \in Ahead(r) : s[1] = p[1]) => pushes[p] = 0

Digests == Devices \X (1 .. MaxDays)

DigestInv == TypeOK /\ Days /\ (\A r \in Runs : Trips(r)) /\ \A p \in Digests : Reached(p)

-----------------------------------------------------------------------------
(* Most steps take no day and send nothing.                                *)

(* Run r has no more to do for its digest than it had. *)
Follows(r) ==
    /\ Past(r)' => Past(r) /\ local'[r].key = local[r].key /\ Ahead(r)' \subseteq Ahead(r)
    /\ Trips(r)'

LEMMA QuietDays ==
    ASSUME DigestInv, TypeOK', UNCHANGED pushes,
           \A n \in 1 .. MaxDays : digest'[n] = "none" <=> digest[n] = "none",
           \A r \in Runs : Follows(r)
    PROVE  DigestInv'
<1>1. local \in [Runs -> Locals]
  BY Types DEF DigestInv, RunsOK
<1>2. Days'
  <2>1. ASSUME NEW r \in Runs, Past(r)' PROVE digest'[local'[r].key] # "none"
    <3>1. Past(r) /\ local'[r].key = local[r].key /\ digest[local[r].key] # "none"
      BY <2>1 DEF Follows, DigestInv, Days
    <3>2. local[r].key \in 1 .. MaxDays
      BY <1>1, <3>1 DEF Past, Locals
    <3>. QED  BY <3>1, <3>2
  <2>2. ASSUME NEW q \in Runs, NEW r \in Runs, Past(q)', Past(r)', local'[q].key = local'[r].key
        PROVE  q = r
    BY <2>2 DEF Follows, DigestInv, Days
  <2>. QED  BY <2>1, <2>2 DEF Days
<1>3. ASSUME NEW p \in Digests PROVE Reached(p)'
  <2>1. p[2] \in 1 .. MaxDays
    BY DEF Digests
  <2>2. Reached(p)
    BY DEF DigestInv
  <2>. QED  BY <2>1, <2>2 DEF Reached, Follows
<1>. QED  BY <1>2, <1>3 DEF DigestInv, Follows

LEMMA OthersFollow ==
    ASSUME DigestInv, NEW r \in Runs, Moves(r), NEW q \in Runs \ {r}
    PROVE  Follows(q)
<1>1. run'[q] = run[q] /\ local'[q] = local[q] /\ Trips(q)
  BY DEF Moves, DigestInv
<1>. QED  BY <1>1 DEF Follows, Past, Ahead, Trips

LEMMA StillFollow ==
    ASSUME DigestInv, UNCHANGED <<run, local>>
    PROVE  \A q \in Runs : Follows(q)
<1>1. \A q \in Runs : Trips(q)
  BY DEF DigestInv
<1>. QED  BY <1>1 DEF Follows, Past, Ahead, Trips

LEMMA QuietMoves ==
    ASSUME DigestInv, TypeOK', NEW r \in Runs, Begin(r) \/ RunStep(r) \/ Die(r), Follows(r),
           UNCHANGED <<digest, pushes>>
    PROVE  DigestInv'
<1>1. \A q \in Runs : Follows(q)
  BY OnlyMine, OthersFollow DEF DigestInv
<1>. QED  BY <1>1, QuietDays

-----------------------------------------------------------------------------
(* Every action keeps the digests.                                         *)

LEMMA DigestPersonKeeps ==
    ASSUME DigestInv,
           \/ \E j \in Jobs : Match(j) \/ Insert(j) \/ Revive(j) \/ Rematch(j)
           \/ \E d \in Devices : Register(d) \/ Unregister(d)
           \/ SwitchOff \/ SwitchOn \/ DropQueued \/ ReviveQueued \/ ReviveQueuedRows
           \/ ChangePreferences \/ NextDay \/ TenMinutes \/ Hang
    PROVE  DigestInv'
<1>1. TypeOK'
  BY MatchTypes, SettingTypes, DeviceTypes, AgeTypes DEF DigestInv
<1>2. UNCHANGED <<run, local, digest, pushes>>
  BY DEF Match, Insert, Revive, Rematch, Register, Unregister, SwitchOff, SwitchOn, DropQueued, ReviveQueued,
         ReviveQueuedRows, ChangePreferences, NextDay, TenMinutes, Hang, Age, days, outside
<1>. QED  BY <1>1, <1>2, StillFollow, QuietDays

LEMMA DigestOutsideKeeps ==
    ASSUME DigestInv, NEW r \in Runs,
           \/ Begin(r) \/ ReapCandidates(r) \/ ReapRows(r) \/ Sift(r) \/ Select(r) \/ SkipRuledOut(r)
           \/ Claim(r)
           \/ MarkAll(r) \/ Count(r) \/ Write(r) \/ Die(r)
    PROVE  DigestInv'
<1>1. TypeOK' /\ TypeOK
  BY BeginTypes, ReapTypes, SelectTypes, ReadyTypes, SettleTypes DEF DigestInv
<1>2. run \in [Runs -> Places]
  BY <1>1, Types DEF RunsOK
<1>3. UNCHANGED <<digest, pushes>> /\ run'[r] \in {"off", "reap", "reaprows", "sift", "select", "mismatch",
                                                          "claim", "devices", "settle", "write"}
  <2>1. CASE Begin(r) \/ ReapCandidates(r) \/ ReapRows(r) \/ Sift(r)
    BY <1>2, <2>1 DEF Begin, ReapCandidates, ReapRows, Sift, Step, days, outside
  <2>2. CASE Select(r) \/ SkipRuledOut(r) \/ Claim(r)
    BY <1>2, <2>2 DEF Select, SkipRuledOut, Claim, Step, Over, days, outside
  <2>3. CASE MarkAll(r) \/ Count(r) \/ Write(r) \/ Die(r)
    BY <1>2, <2>3 DEF MarkAll, Count, Write, Die, Step, Over, days, outside
  <2>. QED  BY <2>1, <2>2, <2>3
<1>4. Follows(r)
  BY <1>3 DEF Follows, Trips, Past
<1>. QED  BY <1>1, <1>3, <1>4, QuietMoves DEF RunStep

LEMMA DigestReadDevices ==
    ASSUME DigestInv, NEW r \in Runs, ReadDevices(r)
    PROVE  DigestInv'
<1>1. TypeOK' /\ TypeOK /\ RunsOK
  BY ReadyTypes, Types DEF DigestInv
<1>2. local[r] \in Locals
  BY <1>1, MyTypes
<1>3. OneEach(Registrations)
  BY DEF OneEach, Registrations, Registered, Subs
<1>4. \/ run'[r] = "markall"
      \/ run'[r] = "rows" /\ local'[r].key = 0
      \/ run'[r] = "day" /\ local'[r].subs = Registrations
  BY <1>1, <1>2 DEF ReadDevices, Step, RunsOK, Locals
<1>5. Follows(r)
  BY <1>3, <1>4 DEF Follows, Trips, Past
<1>6. UNCHANGED <<digest, pushes>>
  BY DEF ReadDevices, days, outside
<1>. QED  BY <1>1, <1>5, <1>6, QuietMoves DEF RunStep

LEMMA DigestRowsKeep ==
    ASSUME DigestInv, NEW r \in Runs, MakeRows(r) \/ ReadRows(r) \/ Record(r) \/ DropDead(r)
    PROVE  DigestInv'
<1>1. TypeOK' /\ TypeOK /\ RunsOK
  BY RowReadTypes, SendTypes, Types DEF DigestInv
<1>2. local[r] \in Locals
  BY <1>1, MyTypes
<1>3. CASE run'[r] = "off"
  <2>1. Follows(r) /\ UNCHANGED <<digest, pushes>>
    BY <1>3 DEF Follows, Trips, Past, MakeRows, ReadRows, Record, DropDead, days, outside
  <2>. QED  BY <1>1, <2>1, QuietMoves DEF RunStep
<1>4. CASE run'[r] # "off"
  <2>1. /\ run[r] \in {"rows", "read", "record", "drop"} /\ run'[r] \in {"read", "next", "drop"}
        /\ UNCHANGED <<digest, pushes>>
    <3>1. CASE MakeRows(r)
      BY <1>1, <1>4, <3>1 DEF MakeRows, Step, Over, RunsOK, days, outside
    <3>2. CASE ReadRows(r) \/ Record(r) \/ DropDead(r)
      BY <1>1, <3>2 DEF ReadRows, Record, DropDead, Step, RunsOK, days, outside
    <3>. QED  BY <3>1, <3>2
  <2>2. local'[r].key = local[r].key /\ local'[r].subs = local[r].subs
    <3>1. CASE MakeRows(r)
      BY <1>1, <1>4, <3>1 DEF MakeRows, Over, RunsOK
    <3>2. CASE ReadRows(r)
      BY <1>1, <1>2, <3>2 DEF ReadRows, RunsOK, Locals
    <3>3. CASE Record(r)
      BY <1>1, <1>2, <3>3 DEF Record, RunsOK, Locals
    <3>4. CASE DropDead(r)
      BY <1>1, <1>2, <3>4 DEF DropDead, RunsOK, Locals
    <3>. QED  BY <3>1, <3>2, <3>3, <3>4
  <2>3. Trips(r) /\ Ahead(r)' = local[r].subs /\ Ahead(r) = local[r].subs
    BY <2>1, <2>2 DEF DigestInv, Ahead
  <2>4. Follows(r)
    BY <2>1, <2>2, <2>3 DEF Follows, Trips, Past
  <2>. QED  BY <1>1, <2>1, <2>4, QuietMoves DEF RunStep
<1>. QED  BY <1>3, <1>4

LEMMA DigestNextDevice ==
    ASSUME DigestInv, NEW r \in Runs, NextDevice(r)
    PROVE  DigestInv'
<1>1. TypeOK' /\ TypeOK /\ RunsOK
  BY RowReadTypes, Types DEF DigestInv
<1>2. local[r] \in Locals
  BY <1>1, MyTypes
<1>3. PICK s \in local[r].subs, mine \in SUBSET local[r].seen :
        /\ \A y \in mine : y[2] = s
        /\ run[r] = "next" /\ run'[r] \in {"next", "send"}
        /\ local' = [local EXCEPT ![r].subs = @ \ {s}, ![r].sending = mine, ![r].seen = {y \in @ : y[2] # s}]
  BY <1>1 DEF NextDevice, Step, RunsOK
<1>4. local'[r].key = local[r].key /\ local'[r].subs = local[r].subs \ {s} /\ local'[r].sending = mine
  BY <1>1, <1>2, <1>3 DEF RunsOK, Locals
<1>5. \A y \in mine : y[2] = s
  BY <1>3
<1>6. Ahead(r)' \subseteq local[r].subs /\ Ahead(r) = local[r].subs
  BY <1>3, <1>4, <1>5 DEF Ahead
<1>7. Past(r)' => Past(r) /\ OneEach(local[r].subs)
  BY <1>3, <1>4, <1>6 DEF Past, DigestInv, Trips
<1>8. OneEach(local[r].subs) => OneEach(Ahead(r)')
  BY <1>6 DEF OneEach
<1>9. OneEach(Ahead(r))' <=> OneEach(Ahead(r)')
  BY DEF OneEach
<1>10. Follows(r)
  BY <1>3, <1>4, <1>5, <1>6, <1>7, <1>8, <1>9 DEF Follows, Trips
<1>11. UNCHANGED <<digest, pushes>>
  BY DEF NextDevice, days, outside
<1>. QED  BY <1>1, <1>10, <1>11, QuietMoves DEF RunStep

LEMMA DigestLogs ==
    ASSUME DigestInv, NEW r \in Runs, Log(r)
    PROVE  DigestInv'
<1>1. TypeOK' /\ TypeOK /\ RunsOK /\ DaysOK
  BY ReadyTypes, Types DEF DigestInv
<1>2. run[r] = "next" /\ run'[r] = "settle" /\ UNCHANGED <<pushes, local>> /\ Moves(r)
  BY <1>1, OnlyMine DEF Log, Step, RunsOK, outside, RunStep
<1>3. ASSUME NEW n \in 1 .. MaxDays PROVE digest'[n] = "none" <=> digest[n] = "none"
  <2>1. local[r].key # 0 => digest[local[r].key] # "none"
    BY <1>2 DEF DigestInv, Days, Past
  <2>2. digest'[n] = digest[n] \/ (n = local[r].key /\ digest'[n] \in {"sent", "failed"})
    BY <1>1 DEF Log, DaysOK
  <2>. QED  BY <2>1, <2>2
<1>4. Follows(r)
  BY <1>2 DEF Follows, Trips, Past
<1>5. \A q \in Runs : Follows(q)
  BY <1>2, <1>4, OthersFollow
<1>. QED  BY <1>1, <1>2, <1>3, <1>5, QuietDays

LEMMA DigestClaims ==
    ASSUME DigestInv, NEW r \in Runs, ClaimDay(r)
    PROVE  DigestInv'
<1>1. TypeOK' /\ TypeOK /\ RunsOK /\ DaysOK
  BY ReadyTypes, Types DEF DigestInv
<1>2. local[r] \in Locals
  BY <1>1, MyTypes
<1>3. UNCHANGED pushes /\ Moves(r) /\ run[r] = "day"
  BY OnlyMine, <1>1 DEF ClaimDay, outside, RunStep
<1>4. CASE ~TakesDay(r)
  <2>1. run'[r] = "markall" /\ UNCHANGED digest
    BY <1>1, <1>4 DEF ClaimDay, Step, RunsOK
  <2>2. Follows(r)
    BY <2>1 DEF Follows, Trips, Past
  <2>. QED  BY <1>1, <1>3, <2>1, <2>2, QuietMoves DEF RunStep
<1>5. CASE TakesDay(r) /\ local[r].key = 0
  <2>1. UNCHANGED local /\ run'[r] = "rows" /\ digest' = [digest EXCEPT ![0] = "sending"]
    BY <1>1, <1>5 DEF ClaimDay, Step, RunsOK
  <2>2. \A n \in 1 .. MaxDays : digest'[n] = digest[n]
    BY <1>1, <2>1 DEF DaysOK
  <2>3. Follows(r)
    BY <1>5, <2>1 DEF Follows, Trips, Past
  <2>4. \A q \in Runs : Follows(q)
    BY <1>3, <2>3, OthersFollow
  <2>. QED  BY <1>1, <1>3, <2>2, <2>4, QuietDays
<1>6. CASE TakesDay(r) /\ local[r].key # 0
  <2>. DEFINE k == local[r].key
  <2>1. k \in 1 .. MaxDays
    BY <1>2, <1>6 DEF Locals
  <2>2. UNCHANGED local /\ run'[r] = "rows" /\ digest' = [digest EXCEPT ![k] = "sending"] /\ digest[k] = "none"
    BY <1>1, <1>6 DEF ClaimDay, TakesDay, Step, RunsOK
  <2>3. ASSUME NEW q \in Runs, Past(q) PROVE local[q].key # k
    BY <2>2, <2>3 DEF DigestInv, Days
  <2>4. ASSUME NEW q \in Runs, q # r
        PROVE  (Past(q)' <=> Past(q)) /\ Ahead(q)' = Ahead(q) /\ (Trips(q)' <=> Trips(q))
    <3>1. run'[q] = run[q] /\ local'[q] = local[q]
      BY <1>3, <2>4 DEF Moves
    <3>. QED  BY <3>1 DEF Past, Ahead, Trips
  <2>5. Ahead(r)' = local[r].subs /\ OneEach(local[r].subs)
    BY <1>3, <2>2 DEF Ahead, DigestInv, Trips
  <2>6. Days'
    <3>1. ASSUME NEW q \in Runs, Past(q)' PROVE digest'[local[q].key] # "none"
      <4>1. local[q].key \in 1 .. MaxDays
        BY <1>1, <2>2, <3>1, MyTypes DEF Past, Locals
      <4>2. CASE q = r
        BY <1>1, <2>1, <2>2, <4>2 DEF DaysOK
      <4>3. CASE q # r
        BY <1>1, <2>2, <2>4, <3>1, <4>1, <4>3 DEF DigestInv, Days, DaysOK
      <4>. QED  BY <4>2, <4>3
    <3>2. ASSUME NEW q \in Runs, NEW o \in Runs, Past(q)', Past(o)', local[q].key = local[o].key
          PROVE  q = o
      BY <2>3, <2>4, <3>2 DEF DigestInv, Days
    <3>. QED  BY <2>2, <3>1, <3>2 DEF Days
  <2>7. ASSUME NEW q \in Runs PROVE Trips(q)'
    <3>1. CASE q = r
      BY <2>2, <2>5, <3>1 DEF Trips, OneEach
    <3>2. CASE q # r
      BY <2>4, <3>2 DEF DigestInv
    <3>. QED  BY <3>1, <3>2
  <2>8. ASSUME NEW p \in Digests PROVE Reached(p)'
    <3>1. Reached(p) /\ p[2] \in 1 .. MaxDays
      BY DEF DigestInv, Digests
    <3>2. digest'[p[2]] = "none" => digest[p[2]] = "none"
      BY <1>1, <2>2, <3>1 DEF DaysOK
    <3>3. p[2] = k => pushes[p] = 0
      BY <2>2, <3>1 DEF Reached
    <3>4. ASSUME NEW q \in Runs, Past(q)', local'[q].key = p[2], \E s \in Ahead(q)' : s[1] = p[1]
          PROVE  pushes[p] = 0
      <4>1. CASE q = r
        BY <2>2, <3>3, <3>4, <4>1
      <4>2. CASE q # r
        BY <2>2, <2>4, <3>1, <3>4, <4>2 DEF Reached
      <4>. QED  BY <4>1, <4>2
    <3>. QED  BY <1>3, <3>1, <3>2, <3>4 DEF Reached
  <2>. QED  BY <1>1, <2>6, <2>7, <2>8 DEF DigestInv
<1>. QED  BY <1>4, <1>5, <1>6

LEMMA DigestSends ==
    ASSUME DigestInv, NEW r \in Runs, Send(r)
    PROVE  DigestInv'
<1>1. TypeOK' /\ TypeOK /\ RunsOK /\ OutsideOK
  BY SendTypes, Types DEF DigestInv
<1>2. local[r] \in Locals
  BY <1>1, MyTypes
<1>3. Moves(r) /\ run[r] = "send" /\ run'[r] = "record" /\ UNCHANGED digest
  BY <1>1, OnlyMine DEF Send, Step, RunsOK, days, RunStep
<1>4. local'[r].key = local[r].key /\ local'[r].subs = local[r].subs /\ local'[r].sending = local[r].sending
  BY <1>1, <1>2 DEF Send, RunsOK, Locals
<1>5. Past(r)' <=> Past(r)
  BY <1>3, <1>4 DEF Past
<1>6. Ahead(r)' = local[r].subs /\ Ahead(r) = local[r].subs \cup {y[2] : y \in local[r].sending}
  BY <1>3, <1>4 DEF Ahead
<1>7. Follows(r)
  <2>1. Ahead(r)' \subseteq Ahead(r)
    BY <1>6
  <2>2. Past(r) => OneEach(Ahead(r))
    BY DEF DigestInv, Trips
  <2>3. Past(r)' => OneEach(Ahead(r))'
    BY <1>5, <2>1, <2>2 DEF OneEach
  <2>. QED  BY <1>3, <1>4, <1>5, <2>1, <2>3 DEF Follows, Trips
<1>8. \A q \in Runs : Follows(q)
  BY <1>3, <1>7, OthersFollow
<1>9. CASE UNCHANGED pushes
  BY <1>1, <1>3, <1>8, <1>9, QuietDays
<1>10. CASE Arrives(r)
  <2>1. Days'
    <3>1. \A q \in Runs : Past(q)' => Past(q) /\ local'[q].key = local[q].key
      BY <1>8 DEF Follows
    <3>. QED  BY <1>3, <3>1 DEF Days, DigestInv
  <2>2. ASSUME NEW p \in Digests PROVE Reached(p)'
    <3>. DEFINE hit == p[2] = local[r].key /\ \E x \in Sending(r) : x[2][1] = p[1]
    <3>1. Reached(p) /\ p[2] \in 1 .. MaxDays /\ pushes[p] \in Nat
      BY <1>1, AlertsAssumption DEF DigestInv, Digests, OutsideOK
    <3>2. pushes'[p] = IF hit THEN Least(pushes[p] + 1, MaxFaults + 2) ELSE pushes[p]
      BY <1>1, <1>10 DEF Arrives, OutsideOK, Digests
    <3>3. CASE ~hit
      <4>1. pushes'[p] = pushes[p]
        BY <3>2, <3>3
      <4>. QED  BY <1>3, <1>8, <3>1, <4>1 DEF Reached, Follows
    <3>4. CASE hit
      <4>1. Past(r) /\ digest[p[2]] # "none"
        BY <1>3, <3>1, <3>4 DEF Past, DigestInv, Days
      <4>2. PICK y \in local[r].sending : y[2][1] = p[1]
        BY <3>4 DEF Sending
      <4>3. y[2] \in Ahead(r)
        BY <1>6
      <4>4. pushes[p] = 0
        BY <3>1, <3>4, <4>1, <4>2, <4>3 DEF Reached
      <4>5. pushes'[p] = 1
        BY <3>2, <3>4, <4>4, AlertsAssumption DEF Least
      <4>6. ASSUME NEW q \in Runs, Past(q)', local'[q].key = p[2], NEW s \in Ahead(q)', s[1] = p[1]
            PROVE  FALSE
        <5>1. q = r
          BY <1>8, <3>4, <4>1, <4>6 DEF Follows, DigestInv, Days
        <5>2. s \in local[r].subs /\ s \in Ahead(r) /\ s[1] = y[2][1]
          BY <1>6, <4>2, <4>6, <5>1
        <5>3. s = y[2]
          BY <4>1, <4>3, <5>2 DEF DigestInv, Trips, OneEach
        <5>. QED  BY <1>3, <4>1, <5>2, <5>3 DEF DigestInv, Trips
      <4>. QED  BY <1>3, <4>1, <4>5, <4>6 DEF Reached
    <3>. QED  BY <3>3, <3>4
  <2>. QED  BY <1>1, <1>8, <2>1, <2>2 DEF DigestInv, Follows
<1>. QED  BY <1>9, <1>10 DEF Send, outside

LEMMA DigestInit == ASSUME Init PROVE DigestInv
<1>1. TypeOK
  BY TypesInit
<1>2. \A r \in Runs : ~Past(r) /\ run[r] = "off"
  BY DEF Init, Past
<1>3. \A p \in Digests : pushes[p] = 0
  BY DEF Init, Digests
<1>. QED  BY <1>1, <1>2, <1>3 DEF DigestInv, Days, Trips, Reached

LEMMA DigestStays == ASSUME DigestInv, [Next]_vars PROVE DigestInv'
<1>1. CASE UNCHANGED vars
  <2>1. TypeOK' /\ UNCHANGED <<run, local, digest, pushes>>
    BY <1>1, TypesStay DEF DigestInv, vars, days, outside
  <2>. QED  BY <2>1, StillFollow, QuietDays
<1>2. CASE Next
  BY <1>2, DigestPersonKeeps, DigestOutsideKeeps, DigestReadDevices, DigestRowsKeep, DigestNextDevice,
     DigestLogs, DigestClaims, DigestSends DEF Next, RunStep
<1>. QED  BY <1>1, <1>2

(* DigestOnce: a device gets one digest a day, whatever runs overlap and    *)
(* whatever fails.                                                         *)
THEOREM OneDigestADay == Spec => []DigestOnce
<1>1. DigestInv => DigestOnce
  <2>1. TypeOK => DOMAIN pushes = Digests
    BY DEF TypeOK, Digests
  <2>. QED  BY <2>1 DEF DigestInv, DigestOnce, Reached
<1>. QED  BY <1>1, DigestInit, DigestStays, PTL DEF Spec

-----------------------------------------------------------------------------
(* How a candidate ends.                                                   *)

(* A candidate said to be sent, by its status or by the verdict a run is   *)
(* about to write, reached a device.                                       *)
Alerted(j) == \E s \in Subs : alerts[<<j, s>>] > 0

Truthful(r) ==
    /\ run[r] = "record" /\ local[r].went = "ok" => \A x \in Sending(r) : alerts[x] > 0
    /\ run[r] = "write" /\ local[r].verdict = "sent" => \A j \in local[r].job : Alerted(j)
    /\ run[r] = "markall" => local[r].verdict # "sent"

TruthInv ==
    /\ TypeOK
    /\ \A r \in Runs : Truthful(r)
    /\ \A x \in Rows : row[x] = "sent" => alerts[x] > 0
    /\ \A j \in Jobs : cand[j] = "sent" => Alerted(j)


LEMMA AlertsGrow ==
    ASSUME TypeOK, [Next]_vars
    PROVE  \A x \in Rows : alerts[x] > 0 => alerts'[x] > 0
<1>. SUFFICES ASSUME NEW x \in Rows, alerts[x] > 0, alerts'[x] # alerts[x] PROVE alerts'[x] > 0
  OBVIOUS
<1>1. OutsideOK
  BY Types
<1>2. PICK r \in Runs : Arrives(r)
  <2>1. CASE \E r \in Runs : Send(r)
    BY <2>1 DEF Send, outside
  <2>2. CASE ~\E r \in Runs : Send(r)
    <3>1. ASSUME NEW r \in Runs, Begin(r) \/ RunStep(r) \/ Die(r) PROVE UNCHANGED alerts
      BY <2>2, <3>1 DEF outside, RunStep, Begin, ReapCandidates, ReapRows, Sift, Select, SkipRuledOut, Claim,
         ReadDevices, MarkAll, ClaimDay, MakeRows, ReadRows, NextDevice, Record, DropDead, Log, Count, Write, Die
    <3>2. CASE UNCHANGED vars
      BY <3>2 DEF vars, outside
    <3>3. ASSUME NEW j \in Jobs, Match(j) \/ Insert(j) \/ Revive(j) \/ Rematch(j) PROVE UNCHANGED alerts
      BY <3>3 DEF outside, Match, Insert, Revive, Rematch
    <3>4. ASSUME NEW d \in Devices, Register(d) \/ Unregister(d) PROVE UNCHANGED alerts
      BY <3>4 DEF outside, Register, Unregister
    <3>5. CASE \/ SwitchOff \/ SwitchOn \/ DropQueued \/ ReviveQueued \/ ReviveQueuedRows
               \/ ChangePreferences \/ NextDay \/ TenMinutes \/ Hang
      BY <3>5 DEF outside, SwitchOff, SwitchOn, DropQueued, ReviveQueued, ReviveQueuedRows, ChangePreferences,
         NextDay, TenMinutes, Hang, Age
    <3>. QED  BY <3>1, <3>2, <3>3, <3>4, <3>5 DEF Next
  <2>. QED  BY <2>1, <2>2
<1>3. alerts'[x] = Least(alerts[x] + 1, MaxFaults + 2)
  BY <1>1, <1>2 DEF Arrives, OutsideOK
<1>. QED  BY <1>1, <1>3, AlertsAssumption DEF OutsideOK, Least

(* Nothing is recorded as sent that was not. *)
LEMMA QuietTruth ==
    ASSUME TruthInv, TypeOK', [Next]_vars, \A r \in Runs : Truthful(r)',
           \A x \in Rows : row'[x] = "sent" => row[x] = "sent" \/ alerts[x] > 0,
           \A j \in Jobs : cand'[j] = "sent" => cand[j] = "sent" \/ Alerted(j)
    PROVE  TruthInv'
<1>1. \A x \in Rows : alerts[x] > 0 => alerts'[x] > 0
  BY AlertsGrow DEF TruthInv
<1>2. \A j \in Jobs : Alerted(j) => Alerted(j)'
  BY <1>1 DEF Alerted, Rows
<1>. QED  BY <1>1, <1>2 DEF TruthInv

LEMMA StillTruthful ==
    ASSUME TruthInv, [Next]_vars, NEW r \in Runs, run'[r] = run[r], local'[r] = local[r]
    PROVE  Truthful(r)'
<1>1. \A x \in Rows : alerts[x] > 0 => alerts'[x] > 0
  BY AlertsGrow DEF TruthInv
<1>2. \A j \in Jobs : Alerted(j) => Alerted(j)'
  BY <1>1 DEF Alerted, Rows
<1>3. local[r] \in Locals
  BY Types, MyTypes DEF TruthInv
<1>4. Sending(r) \subseteq Rows /\ local[r].job \subseteq Jobs
  BY <1>3 DEF Sending, Locals, SeenRows, Rows
<1>5. Sending(r)' = Sending(r) /\ Truthful(r)
  BY DEF Sending, TruthInv
<1>. QED  BY <1>1, <1>2, <1>4, <1>5 DEF Truthful

(* The statuses a step may make sent. *)
LEMMA TruthRows ==
    ASSUME TruthInv, [Next]_vars, NEW x \in Rows, row'[x] = "sent"
    PROVE  row[x] = "sent" \/ alerts[x] > 0
<1>1. RowsOK
  BY Types DEF TruthInv
<1>2. CASE \E C : ReviveRows(C)
  BY <1>1, <1>2 DEF ReviveRows, RowsOK
<1>3. CASE \E s : Cascade(s)
  BY <1>1, <1>3 DEF Cascade, RowsOK
<1>4. ASSUME NEW r \in Runs, ReapRows(r) \/ MakeRows(r) \/ NextDevice(r) PROVE row[x] = "sent"
  <2>1. CASE ReapRows(r)
    BY <1>1, <2>1 DEF ReapRows, RowsOK, Expired
  <2>2. CASE MakeRows(r)
    BY <1>1, <2>2 DEF MakeRows, RowsOK
  <2>3. CASE NextDevice(r)
    BY <1>1, <2>3 DEF NextDevice, RowsOK
  <2>. QED  BY <1>4, <2>1, <2>2, <2>3
<1>5. ASSUME NEW r \in Runs, Record(r) PROVE row[x] = "sent" \/ alerts[x] > 0
  <2>1. row'[x] = row[x] \/ (x \in Sending(r) /\ local[r].went = "ok") \/ row'[x] \in {"failed", "retry"}
    BY <1>1, <1>5 DEF Record, RowsOK, FailureStatus
  <2>. QED  BY <1>5, <2>1 DEF Record, Step, TruthInv, Truthful
<1>6. CASE UNCHANGED row
  BY <1>6
<1>7. \/ \E C : ReviveRows(C)
      \/ \E s : Cascade(s)
      \/ \E r \in Runs : ReapRows(r) \/ MakeRows(r) \/ NextDevice(r) \/ Record(r)
      \/ UNCHANGED row
  <2>1. CASE UNCHANGED vars
    BY <2>1 DEF vars, table
  <2>2. ASSUME NEW j \in Jobs, Match(j) \/ Insert(j) \/ Revive(j) \/ Rematch(j)
        PROVE  (\E C : ReviveRows(C)) \/ UNCHANGED row
    BY <2>2 DEF Match, Insert, Revive, Rematch, table
  <2>3. ASSUME NEW d \in Devices, Register(d) \/ Unregister(d) PROVE \E s : Cascade(s)
    BY <2>3 DEF Register, Unregister
  <2>4. CASE \/ SwitchOff \/ SwitchOn \/ DropQueued \/ ReviveQueued \/ ReviveQueuedRows
             \/ ChangePreferences \/ NextDay \/ TenMinutes \/ Hang
    BY <2>4 DEF SwitchOff, SwitchOn, DropQueued, ReviveQueued, ReviveQueuedRows, ChangePreferences, NextDay,
       TenMinutes, Hang, Age, table
  <2>5. ASSUME NEW r \in Runs, DropDead(r) PROVE (\E s : Cascade(s)) \/ UNCHANGED row
    BY <2>5 DEF DropDead
  <2>6. ASSUME NEW r \in Runs,
               \/ Begin(r) \/ ReapCandidates(r) \/ Sift(r) \/ Select(r) \/ SkipRuledOut(r) \/ Claim(r)
               \/ ReadDevices(r) \/ MarkAll(r) \/ ClaimDay(r) \/ ReadRows(r) \/ Send(r) \/ Log(r)
               \/ Count(r)
               \/ Write(r) \/ Die(r)
        PROVE  UNCHANGED row
    BY <2>6 DEF Begin, ReapCandidates, Sift, Select, SkipRuledOut, Claim, ReadDevices, MarkAll, ClaimDay,
       ReadRows, Send, Log, Count, Write, Die, table
  <2>. QED  BY <2>1, <2>2, <2>3, <2>4, <2>5, <2>6 DEF Next, RunStep
<1>. QED  BY <1>2, <1>3, <1>4, <1>5, <1>6, <1>7

LEMMA TruthCands ==
    ASSUME TruthInv, [Next]_vars, NEW j \in Jobs, cand'[j] = "sent"
    PROVE  cand[j] = "sent" \/ Alerted(j)
<1>1. CandsOK
  BY Types DEF TruthInv
<1>2. ASSUME NEW r \in Runs, MarkAll(r) PROVE cand[j] = "sent"
  BY <1>1, <1>2 DEF MarkAll, Over, TruthInv, Truthful
<1>3. ASSUME NEW r \in Runs, Write(r) PROVE cand[j] = "sent" \/ Alerted(j)
  <2>1. run[r] = "write" /\ (cand'[j] = cand[j] \/ (j \in local[r].job /\ cand'[j] = local[r].verdict))
    BY <1>3 DEF Write, Over, Step
  <2>. QED  BY <2>1 DEF TruthInv, Truthful
<1>4. ASSUME NEW r \in Runs, ReapCandidates(r) \/ Sift(r) \/ SkipRuledOut(r) \/ Claim(r)
      PROVE  cand[j] = "sent"
  BY <1>4 DEF ReapCandidates, Expired, Sift, SkipRuledOut, Claim
<1>5. ASSUME NEW i \in Jobs, Match(i) \/ Insert(i) \/ Revive(i) \/ Rematch(i) PROVE cand[j] = "sent"
  BY <1>1, <1>5 DEF Match, Insert, Revive, Rematch, table, CandsOK
<1>6. CASE \/ SwitchOff \/ SwitchOn \/ DropQueued \/ ReviveQueued \/ ReviveQueuedRows
           \/ ChangePreferences \/ NextDay \/ TenMinutes \/ Hang
  BY <1>6 DEF SwitchOff, SwitchOn, DropQueued, ReviveQueued, ReviveQueuedRows, ChangePreferences, NextDay,
       TenMinutes, Hang, Age, table
<1>7. ASSUME NEW d \in Devices, Register(d) \/ Unregister(d) PROVE cand[j] = "sent"
  BY <1>7 DEF Register, Unregister
<1>8. ASSUME NEW r \in Runs,
             \/ Begin(r) \/ ReapRows(r) \/ Select(r) \/ ReadDevices(r) \/ ClaimDay(r) \/ MakeRows(r)
             \/ ReadRows(r) \/ NextDevice(r) \/ Send(r) \/ Record(r) \/ DropDead(r) \/ Log(r)
             \/ Count(r) \/ Die(r)
      PROVE  cand[j] = "sent"
  BY <1>8 DEF Begin, ReapRows, Select, ReadDevices, ClaimDay, MakeRows, ReadRows, NextDevice, Send, Record,
     DropDead, Log, Count, Die, table
<1>9. CASE UNCHANGED vars
  BY <1>9 DEF vars, table
<1>. QED  BY <1>2, <1>3, <1>4, <1>5, <1>6, <1>7, <1>8, <1>9 DEF Next, RunStep

LEMMA TruthRuns ==
    ASSUME TruthInv, TypeOK', [Next]_vars, NEW r \in Runs
    PROVE  Truthful(r)'
<1>1. RunsOK /\ TypeOK /\ OutsideOK /\ local[r] \in Locals
  BY Types, MyTypes DEF TruthInv
<1>2. CASE run'[r] = run[r] /\ local'[r] = local[r]
  BY <1>2, StillTruthful
<1>3. CASE run'[r] \notin {"record", "write", "markall"}
  BY <1>3 DEF Truthful
<1>4. ASSUME Begin(r) \/ RunStep(r) \/ Die(r), run'[r] \in {"record", "write", "markall"}
      PROVE  Send(r) \/ Count(r) \/ ReadDevices(r) \/ ClaimDay(r)
  <2>1. CASE Begin(r) \/ ReapCandidates(r) \/ ReapRows(r) \/ Sift(r) \/ MarkAll(r) \/ Die(r)
    BY <1>1, <1>4, <2>1 DEF Begin, ReapCandidates, ReapRows, Sift, MarkAll, Die, Step, Over, RunsOK
  <2>2. CASE Select(r) \/ SkipRuledOut(r) \/ Claim(r)
    BY <1>1, <1>4, <2>2 DEF Select, SkipRuledOut, Claim, Step, Over, RunsOK
  <2>3. CASE MakeRows(r) \/ ReadRows(r) \/ Record(r) \/ DropDead(r) \/ Log(r) \/ Write(r)
    BY <1>1, <1>4, <2>3 DEF MakeRows, ReadRows, Record, DropDead, Log, Write, Step, Over, RunsOK
  <2>4. CASE NextDevice(r)
    BY <1>1, <1>4, <2>4 DEF NextDevice, Step, RunsOK
  <2>. QED  BY <1>4, <2>1, <2>2, <2>3, <2>4 DEF RunStep
<1>5. CASE Send(r)
  <2>1. run'[r] = "record" /\ local'[r].sending = local[r].sending /\ (local'[r].went = "ok" => Arrives(r))
    BY <1>1, <1>5 DEF Send, Step, RunsOK, Locals
  <2>2. Sending(r)' = Sending(r) /\ Sending(r) \subseteq Rows
    BY <1>1, <2>1 DEF Sending, Locals, SeenRows, Rows
  <2>3. ASSUME Arrives(r), NEW x \in Sending(r) PROVE alerts'[x] > 0
    BY <1>1, <2>2, <2>3, AlertsAssumption DEF Arrives, OutsideOK, Least
  <2>. QED  BY <2>1, <2>2, <2>3 DEF Truthful
<1>6. CASE Count(r)
  <2>1. PICK j \in local[r].picks : run'[r] = "write" /\ local'[r].job = {j} /\ local'[r].verdict = Verdict(j)
    BY <1>1, <1>6 DEF Count, Step, RunsOK, Locals
  <2>2. UNCHANGED alerts /\ j \in Jobs
    BY <1>1, <1>6 DEF Count, outside, Locals
  <2>3. Verdict(j) = "sent" => \E s \in Subs : row[<<j, s>>] = "sent"
    BY DEF Verdict, Some
  <2>4. Verdict(j) = "sent" => Alerted(j)'
    BY <2>2, <2>3 DEF TruthInv, Alerted, Rows
  <2>. QED  BY <2>1, <2>4 DEF Truthful
<1>7. CASE ReadDevices(r) \/ ClaimDay(r)
  <2>1. run'[r] \notin {"record", "write"} /\ (run'[r] = "markall" => local'[r].verdict \in {"skipped", "retry"})
    BY <1>1, <1>7 DEF ReadDevices, ClaimDay, Step, RunsOK, Locals
  <2>. QED  BY <2>1 DEF Truthful
<1>8. (Begin(r) \/ RunStep(r) \/ Die(r)) \/ (run'[r] = run[r] /\ local'[r] = local[r])
  <2>1. ASSUME NEW q \in Runs, Begin(q) \/ RunStep(q) \/ Die(q), q # r
        PROVE  run'[r] = run[r] /\ local'[r] = local[r]
    BY <1>1, <2>1, OnlyMine DEF Moves
  <2>2. CASE \/ \E j \in Jobs : Match(j) \/ Insert(j) \/ Revive(j) \/ Rematch(j)
             \/ \E d \in Devices : Register(d) \/ Unregister(d)
             \/ SwitchOff \/ SwitchOn \/ DropQueued \/ ReviveQueued \/ ReviveQueuedRows
             \/ ChangePreferences \/ NextDay \/ TenMinutes \/ Hang
    BY <2>2 DEF Match, Insert, Revive, Rematch, Register, Unregister, SwitchOff, SwitchOn, DropQueued, ReviveQueued,
         ReviveQueuedRows, ChangePreferences, NextDay, TenMinutes, Hang, Age
  <2>. QED  BY <2>1, <2>2 DEF Next, vars
<1>. QED  BY <1>2, <1>3, <1>4, <1>5, <1>6, <1>7, <1>8

LEMMA TruthStays == ASSUME TruthInv, [Next]_vars PROVE TruthInv'
BY TypesStay, TruthRows, TruthCands, TruthRuns, QuietTruth DEF TruthInv

LEMMA TruthInit == ASSUME Init PROVE TruthInv
BY TypesInit DEF Init, TruthInv, Truthful, Rows

-----------------------------------------------------------------------------
(* What is settled stays settled, of every job no run has lost.            *)

(* A candidate a run works on is claimed, by that run alone.               *)
Claims ==
    \A r \in Runs : \A j \in Holds(r) \ seized :
        cand[j] = "sending" /\ j \notin old.jobs /\ \A q \in Runs : j \in Holds(q) => q = r

(* The candidates a run works on, and the rows it read, while it sends and *)
(* while it settles.                                                       *)
Works(r) ==
    /\ run[r] \in {"claim", "devices", "day", "rows", "read", "next", "send", "record", "drop", "settle", "markall"}
         => local[r].job = {}
    /\ run[r] = "markall" => local[r].verdict \in {"retry", "skipped"}
    /\ run[r] = "write" => local[r].picks \cap local[r].job = {}
    /\ run[r] = "next" => \A y \in local[r].seen : y[1] \in local[r].picks
    /\ run[r] \in {"send", "record", "drop"} =>
         \A y \in local[r].seen \cup local[r].sending : y[1] \in local[r].picks

(* What a verdict says of j's deliveries stays so until it is written, and *)
(* after.                                                                  *)
Closed(j, verdict) ==
    /\ verdict = "sent" => ~Some(j, Active)
    /\ verdict = "failed" => ~Some(j, Active \cup {"sent"})

Written(j) ==
    /\ cand[j] = "sent" => Closed(j, "sent")
    /\ cand[j] = "failed" => ctries[j] = MaxAttempts \/ Closed(j, "failed")

Settles(r) == run[r] = "write" => \A j \in local[r].job \ seized : Closed(j, local[r].verdict)

EndInv ==
    /\ TypeOK
    /\ Claims
    /\ \A r \in Runs : Works(r)
    /\ \A r \in Runs : Settles(r)
    /\ \A j \in Jobs \ seized : Written(j)


(* What j's deliveries show stays shut. *)
RowsShut(j) ==
    \A s \in Subs :
        /\ row'[<<j, s>>] \in Active => row[<<j, s>>] \in Active
        /\ row'[<<j, s>>] = "sent" => row[<<j, s>>] = "sent"

LEMMA ClosedStays ==
    ASSUME NEW j, RowsShut(j), NEW verdict, Closed(j, verdict)
    PROVE  Closed(j, verdict)'
BY DEF RowsShut, Closed, Some, Active, Waiting

LEMMA HeldJobs ==
    ASSUME EndInv
    PROVE  /\ \A r \in Runs : Holds(r) \subseteq Jobs
           /\ \A r \in Runs : run[r] = "write" => local[r].job \subseteq Holds(r)
           /\ \A r \in Runs : Works(r) => (run[r] \in {"devices", "day", "rows", "read", "next",
                                                      "send", "record", "drop", "settle", "markall"}
                => Holds(r) = local[r].picks)
<1>1. ASSUME NEW r \in Runs PROVE local[r] \in Locals
  BY Types, MyTypes DEF EndInv
<1>. QED  BY <1>1 DEF Holds, Locals, Works

(* A step that changes no candidate, and the deliveries of no job but those *)
(* of Busy, which is settled nowhere.                                      *)
LEMMA RowsMove ==
    ASSUME EndInv, TypeOK', UNCHANGED <<cand, ctries, seized>>, NEW Busy,
           \A j \in Jobs \ (Busy \cup seized) : RowsShut(j),
           \A j \in Busy \ seized : cand[j] \notin {"sent", "failed"},
           \A r \in Runs : \A j \in Holds(r)' \ seized : j \in Holds(r) /\ j \notin old'.jobs,
           \A r \in Runs : Works(r)',
           \A r \in Runs : run'[r] = "write" =>
              \A j \in local'[r].job \ seized : Closed(j, local'[r].verdict) /\ j \notin Busy
    PROVE  EndInv'
<1>1. Claims'
  BY DEF EndInv, Claims
<1>2. ASSUME NEW r \in Runs PROVE Settles(r)'
  <2>1. SUFFICES ASSUME run'[r] = "write", NEW j \in local'[r].job \ seized
                 PROVE  /\ local'[r].verdict = "sent" => ~Some(j, Active)'
                        /\ local'[r].verdict = "failed" => ~Some(j, Active \cup {"sent"})'
    BY DEF Settles, Closed
  <2>2. j \in Jobs
    BY <2>1, NextTypes DEF RunsOK, Locals
  <2>3. RowsShut(j) /\ Closed(j, local'[r].verdict)
    BY <2>1, <2>2
  <2>. QED  BY <2>3 DEF RowsShut, Closed, Some, Active, Waiting
<1>3. ASSUME NEW j \in Jobs \ seized PROVE Written(j)'
  <2>1. CASE j \in Busy
    BY <2>1 DEF Written
  <2>2. CASE j \notin Busy
    <3>1. Closed(j, "sent") => Closed(j, "sent")'
      BY <2>2, ClosedStays
    <3>2. Closed(j, "failed") => Closed(j, "failed")'
      BY <2>2, ClosedStays
    <3>. QED  BY <3>1, <3>2 DEF EndInv, Written
  <2>. QED  BY <2>1, <2>2
<1>. QED  BY <1>1, <1>2, <1>3 DEF EndInv

(* A step that changes no delivery. *)
LEMMA CandsMove ==
    ASSUME EndInv, TypeOK', UNCHANGED row,
           \A r \in Runs : \A j \in Holds(r)' \ seized' : cand'[j] = "sending" /\ j \notin old'.jobs,
           \A q, r \in Runs : \A j \in (Holds(q)' \cap Holds(r)') \ seized' : q = r,
           \A r \in Runs : Works(r)',
           \A r \in Runs : run'[r] = "write" =>
              /\ run[r] = "write" /\ local'[r] = local[r]
              /\ \A j \in local[r].job \ seized' : j \notin seized,
           \A j \in Jobs \ seized' :
              (cand'[j] = cand[j] /\ ctries'[j] = ctries[j] /\ j \notin seized) \/ Written(j)'
    PROVE  EndInv'
<1>1. Claims'
  BY DEF Claims
<1>2. \A j \in Jobs : Closed(j, "sent")' = Closed(j, "sent") /\ Closed(j, "failed")' = Closed(j, "failed")
  BY DEF Closed, Some
<1>3. \A j \in Jobs \ seized' : Written(j)'
  BY <1>2 DEF EndInv, Written
<1>4. \A r \in Runs : Settles(r)'
  BY DEF EndInv, Settles, Closed, Some
<1>. QED  BY <1>1, <1>3, <1>4 DEF EndInv

LEMMA OthersWork ==
    ASSUME EndInv, NEW r \in Runs, run'[r] = run[r], local'[r] = local[r]
    PROVE  Holds(r)' = Holds(r) /\ Works(r)'
<1>1. Works(r)
  BY DEF EndInv
<1>. QED  BY <1>1 DEF Holds, Works


-----------------------------------------------------------------------------
(* Every action keeps what is settled.                                     *)

LEMMA Writers ==
    ASSUME EndInv
    PROVE  \A r \in Runs : run[r] = "write" => \A j \in local[r].job \ seized :
              Closed(j, local[r].verdict) /\ cand[j] = "sending" /\ j \in Holds(r)
BY HeldJobs DEF EndInv, Settles, Claims

LEMMA NobodyWorks ==
    ASSUME EndInv, TypeOK', UNCHANGED <<run, local, cand, ctries, seized>>, NEW Busy,
           \A j \in Jobs \ Busy : RowsShut(j), \A j \in Busy : cand[j] \in Waiting,
           \A r \in Runs : \A j \in Holds(r) \ seized : j \notin old'.jobs
    PROVE  EndInv'
<1>1. \A r \in Runs : Holds(r)' = Holds(r) /\ Works(r)'
  BY OthersWork
<1>2. ASSUME NEW r \in Runs, run'[r] = "write", NEW j \in local'[r].job \ seized
      PROVE  Closed(j, local'[r].verdict) /\ j \notin Busy
  BY <1>2, Writers DEF Waiting
<1>3. \A j \in Busy : cand[j] \notin {"sent", "failed"}
  BY DEF Waiting
<1>. QED  BY <1>1, <1>2, <1>3, RowsMove

LEMMA AllShut ==
    ASSUME EndInv, TypeOK', UNCHANGED <<run, local, cand, ctries, seized>>, \A j \in Jobs : RowsShut(j),
           \A r \in Runs : \A j \in Holds(r) \ seized : j \notin old'.jobs
    PROVE  EndInv'
<1>. DEFINE Busy == {}
<1>1. (\A j \in Jobs \ Busy : RowsShut(j)) /\ \A j \in Busy : cand[j] \in Waiting
  OBVIOUS
<1>. HIDE DEF Busy
<1>. QED  BY <1>1, NobodyWorks

LEMMA EndPersonKeeps ==
    ASSUME EndInv,
           \/ \E j \in Jobs : Match(j) \/ Revive(j) \/ Rematch(j)
           \/ \E d \in Devices : Register(d) \/ Unregister(d)
           \/ SwitchOff \/ SwitchOn \/ ReviveQueuedRows \/ NextDay \/ TenMinutes
    PROVE  EndInv'
<1>1. TypeOK' /\ RowsOK /\ OldOK
  BY MatchTypes, SettingTypes, DeviceTypes, AgeTypes, Types DEF EndInv
<1>2. UNCHANGED <<run, local, cand, ctries, seized>>
  BY DEF Match, Revive, Rematch, Register, Unregister, SwitchOff, SwitchOn, ReviveQueuedRows, NextDay, TenMinutes,
     Age, table, outside
<1>3. \A r \in Runs : \A j \in Holds(r) \ seized : j \notin old.jobs
  BY DEF EndInv, Claims
<1>4. CASE UNCHANGED <<row, old>>
  BY <1>1, <1>2, <1>3, <1>4, AllShut DEF RowsShut
<1>5. ASSUME NEW C, ReviveRows(C), \A j \in C : cand[j] \in Waiting, UNCHANGED old PROVE EndInv'
  <2>1. ASSUME NEW j \in Jobs \ C PROVE RowsShut(j)
    BY <1>1, <1>5 DEF RowsShut, ReviveRows, RowsOK, Rows
  <2>. QED  BY <1>1, <1>2, <1>3, <1>5, <2>1, NobodyWorks
<1>6. ASSUME NEW s, Cascade(s) PROVE EndInv'
  <2>1. ASSUME NEW j \in Jobs PROVE RowsShut(j)
    BY <1>1, <1>6 DEF RowsShut, Cascade, RowsOK, Rows, Active, Waiting
  <2>2. old'.jobs = old.jobs
    BY <1>1, <1>6 DEF Cascade, OldOK
  <2>. QED  BY <1>1, <1>2, <1>3, <2>1, <2>2, AllShut
<1>7. CASE TenMinutes
  <2>1. \A r \in Runs : \A j \in Holds(r) \ seized : j \notin old'.jobs
    BY <1>3, <1>7 DEF TenMinutes, Age, Orphans, Held
  <2>2. \A j \in Jobs : RowsShut(j)
    BY <1>7 DEF TenMinutes, Age, RowsShut
  <2>. QED  BY <1>1, <1>2, <2>1, <2>2, AllShut
<1>8. \/ UNCHANGED <<row, old>>
      \/ \E C : ReviveRows(C) /\ UNCHANGED old /\ \A j \in C : cand[j] \in Waiting
      \/ \E s : Cascade(s)
      \/ TenMinutes
  <2>1. CASE \E j \in Jobs : Match(j) \/ Rematch(j)
    BY <2>1 DEF Match, Rematch, table
  <2>2. CASE \E j \in Jobs : Revive(j)
    BY <2>2 DEF Revive, Waiting
  <2>3. CASE \E d \in Devices : Register(d) \/ Unregister(d)
    BY <2>3 DEF Register, Unregister
  <2>4. CASE SwitchOff \/ SwitchOn \/ NextDay
    BY <2>4 DEF SwitchOff, SwitchOn, NextDay, table
  <2>5. CASE ReviveQueuedRows
    BY <2>5 DEF ReviveQueuedRows, Waiting
  <2>. QED  BY <2>1, <2>2, <2>3, <2>4, <2>5
<1>. QED  BY <1>4, <1>5, <1>6, <1>7, <1>8

(* A profile edit and a slow run take claims away: what is said of those   *)
(* jobs ends there.                                                        *)
LEMMA EndSeizeKeeps ==
    ASSUME EndInv, ChangePreferences \/ Hang
    PROVE  EndInv'
<1>1. TypeOK' /\ CandsOK
  BY SettingTypes, AgeTypes, Types DEF EndInv
<1>2. UNCHANGED <<row, run, local, ctries>> /\ seized' = seized \cup (Claimed \cap Held)
  BY DEF ChangePreferences, Hang, Age
<1>3. \A r \in Runs : Holds(r)' = Holds(r) /\ Works(r)'
  BY <1>2, OthersWork
<1>4. ASSUME NEW r \in Runs, NEW j \in Holds(r)' PROVE j \in seized'
  <2>1. j \in Held /\ j \in Jobs
    BY <1>3, <1>4, HeldJobs DEF Held
  <2>2. j \in seized \/ j \in Claimed
    BY <1>3, <1>4, <2>1 DEF EndInv, Claims, Claimed
  <2>. QED  BY <1>2, <2>1, <2>2
<1>5. \A j \in Jobs : cand'[j] = cand[j] \/ cand'[j] = "skipped"
  BY <1>1 DEF ChangePreferences, Hang, Age, CandsOK
<1>6. \A j \in Jobs \ seized' :
         (cand'[j] = cand[j] /\ ctries'[j] = ctries[j] /\ j \notin seized) \/ Written(j)'
  BY <1>2, <1>5 DEF Written
<1>7. \A r \in Runs : run'[r] = "write" =>
         /\ run[r] = "write" /\ local'[r] = local[r]
         /\ \A j \in local[r].job \ seized' : j \notin seized
  BY <1>2
<1>. QED  BY <1>1, <1>2, <1>3, <1>4, <1>6, <1>7, CandsMove

(* A step of run r that changes deliveries of jobs it works on only. *)
LEMMA MyRowsMove ==
    ASSUME EndInv, TypeOK', NEW r \in Runs, Moves(r), UNCHANGED <<cand, ctries, seized>>, old'.jobs = old.jobs,
           Holds(r)' \subseteq Holds(r), Works(r)', run'[r] # "write", \A j \in Jobs \ Holds(r) : RowsShut(j)
    PROVE  EndInv'
<1>1. ASSUME NEW q \in Runs, q # r
      PROVE  run'[q] = run[q] /\ local'[q] = local[q] /\ Holds(q)' = Holds(q) /\ Works(q)'
  BY <1>1, OthersWork DEF Moves
<1>2. \A j \in Holds(r) \ seized : cand[j] \notin {"sent", "failed"}
  BY DEF EndInv, Claims
<1>3. ASSUME NEW q \in Runs, NEW j \in Holds(q)' \ seized PROVE j \in Holds(q) /\ j \notin old'.jobs
  BY <1>1, <1>3 DEF EndInv, Claims
<1>4. ASSUME NEW q \in Runs, run'[q] = "write", NEW j \in local'[q].job \ seized
      PROVE  Closed(j, local'[q].verdict) /\ j \notin Holds(r)
  <2>1. q # r /\ run[q] = "write" /\ local'[q] = local[q]
    BY <1>1, <1>4
  <2>. QED  BY <1>4, <2>1, Writers DEF EndInv, Claims
<1>. QED  BY <1>1, <1>2, <1>3, <1>4, RowsMove

LEMMA EndRunKeeps ==
    ASSUME EndInv, NEW r \in Runs,
           Begin(r) \/ Die(r) \/ Select(r) \/ ReapRows(r) \/ ReadDevices(r) \/ ClaimDay(r) \/ Log(r) \/ Send(r)
    PROVE  EndInv'
<1>1. TypeOK /\ TypeOK' /\ RunsOK /\ RowsOK /\ OldOK /\ Works(r) /\ local[r] \in Locals
  BY BeginTypes, SelectTypes, ReapTypes, ReadyTypes, SendTypes, Types, MyTypes DEF EndInv
<1>2. Moves(r)
  BY <1>1, OnlyMine DEF RunStep
<1>3. UNCHANGED <<cand, ctries, seized>> /\ old'.jobs = old.jobs
  BY <1>1 DEF Begin, Die, Select, ReapRows, ReadDevices, ClaimDay, Log, Send, table, outside, OldOK
<1>4. \A j \in Jobs : RowsShut(j)
  <2>1. CASE ReapRows(r)
    BY <1>1, <2>1 DEF ReapRows, RowsOK, Rows, RowsShut, Expired, Active, Waiting
  <2>2. CASE ~ReapRows(r)
    BY <2>2 DEF Begin, Die, Select, ReadDevices, ClaimDay, Log, Send, table, RowsShut
  <2>. QED  BY <2>1, <2>2
<1>5. Holds(r)' \subseteq Holds(r) /\ Works(r)' /\ run'[r] # "write"
  <2>1. CASE Begin(r) \/ Die(r) \/ ReapRows(r)
    <3>1. run'[r] \in {"reap", "off", "sift"}
      BY <1>1, <2>1 DEF Begin, Die, ReapRows, Step, Over, RunsOK
    <3>. QED  BY <3>1 DEF Holds, Works
  <2>2. CASE Select(r)
    <3>1. \/ run'[r] \in {"off", "mismatch"}
          \/ run'[r] = "claim" /\ local'[r].job = {}
      BY <1>1, <2>2 DEF Select, Step, Over, RunsOK, Locals
    <3>. QED  BY <3>1 DEF Holds, Works
  <2>3. CASE ReadDevices(r)
    <3>1. /\ run[r] = "devices" /\ run'[r] \in {"markall", "rows", "day"}
          /\ local'[r].picks = local[r].picks /\ local'[r].job = local[r].job
          /\ run'[r] = "markall" => local'[r].verdict = "skipped"
      BY <1>1, <2>3 DEF ReadDevices, Step, RunsOK, Locals
    <3>. QED  BY <1>1, <3>1 DEF Holds, Works
  <2>4. CASE ClaimDay(r)
    <3>1. /\ run[r] = "day" /\ run'[r] \in {"markall", "rows"}
          /\ local'[r].picks = local[r].picks /\ local'[r].job = local[r].job
          /\ run'[r] = "markall" => local'[r].verdict = "retry"
      BY <1>1, <2>4 DEF ClaimDay, Step, RunsOK, Locals
    <3>. QED  BY <1>1, <3>1 DEF Holds, Works
  <2>5. CASE Log(r)
    <3>1. run[r] = "next" /\ run'[r] = "settle" /\ local'[r] = local[r]
      BY <1>1, <2>5 DEF Log, Step, RunsOK
    <3>. QED  BY <1>1, <3>1 DEF Holds, Works
  <2>6. CASE Send(r)
    <3>1. /\ run[r] = "send" /\ run'[r] = "record"
          /\ local'[r].picks = local[r].picks /\ local'[r].job = local[r].job
          /\ local'[r].seen = local[r].seen /\ local'[r].sending = local[r].sending
      BY <1>1, <2>6 DEF Send, Step, RunsOK, Locals
    <3>. QED  BY <1>1, <3>1 DEF Holds, Works
  <2>. QED  BY <2>1, <2>2, <2>3, <2>4, <2>5, <2>6
<1>. QED  BY <1>1, <1>2, <1>3, <1>4, <1>5, MyRowsMove

LEMMA EndRowsKeep ==
    ASSUME EndInv, NEW r \in Runs,
           MakeRows(r) \/ ReadRows(r) \/ NextDevice(r) \/ Record(r) \/ DropDead(r)
    PROVE  EndInv'
<1>1. TypeOK /\ TypeOK' /\ RunsOK /\ RowsOK /\ OldOK /\ Works(r) /\ local[r] \in Locals
  BY RowReadTypes, SendTypes, Types, MyTypes DEF EndInv
<1>2. Moves(r)
  BY <1>1, OnlyMine DEF RunStep
<1>3. Holds(r) = local[r].picks /\ local[r].job = {}
  BY <1>1 DEF MakeRows, ReadRows, NextDevice, Record, DropDead, Step, Over, Holds, Works
<1>4. CASE MakeRows(r)
  <2>1. UNCHANGED <<cand, ctries, seized>> /\ old'.jobs = old.jobs
    BY <1>4 DEF MakeRows, outside
  <2>2. ASSUME NEW j \in Jobs \ Holds(r) PROVE RowsShut(j)
    BY <1>1, <1>3, <1>4 DEF MakeRows, RowsOK, Rows, RowsShut
  <2>3. run'[r] = "off" \/ (run'[r] = "read" /\ local'[r] = local[r])
    BY <1>1, <1>4 DEF MakeRows, Step, Over, RunsOK
  <2>4. Holds(r)' \subseteq Holds(r) /\ Works(r)' /\ run'[r] # "write"
    BY <1>3, <2>3 DEF Holds, Works
  <2>. QED  BY <1>1, <1>2, <2>1, <2>2, <2>4, MyRowsMove
<1>5. CASE ReadRows(r)
  <2>1. UNCHANGED <<cand, ctries, seized>> /\ old'.jobs = old.jobs /\ \A j \in Jobs : RowsShut(j)
    BY <1>5 DEF ReadRows, table, outside, RowsShut
  <2>2. /\ run'[r] = "next" /\ local'[r].picks = local[r].picks /\ local'[r].job = local[r].job
        /\ \A y \in local'[r].seen : y[1] \in local[r].picks
    BY <1>1, <1>5 DEF ReadRows, Step, RunsOK, Locals
  <2>3. Holds(r)' \subseteq Holds(r) /\ Works(r)' /\ run'[r] # "write"
    BY <1>3, <2>2 DEF Holds, Works
  <2>. QED  BY <1>1, <1>2, <2>1, <2>3, MyRowsMove
<1>6. CASE NextDevice(r)
  <2>1. PICK s \in local[r].subs :
          LET mine == {y \in local[r].seen : y[2] = s /\ Owed(<<y[1], s>>)}
              taken == {<<y[1], s>> : y \in mine}
          IN  /\ Step(r, "next", IF mine = {} THEN "next" ELSE "send")
              /\ local' = [local EXCEPT ![r].subs = @ \ {s}, ![r].sending = mine, ![r].seen = {y \in @ : y[2] # s}]
              /\ row' = [y \in DOMAIN row |-> IF y \in taken THEN "sending" ELSE row[y]]
              /\ old' = [old EXCEPT !.rows = @ \ taken]
              /\ UNCHANGED <<cand, ctries, seized>>
    BY <1>6 DEF NextDevice, outside
  <2>. DEFINE mine == {y \in local[r].seen : y[2] = s /\ Owed(<<y[1], s>>)}
              taken == {<<y[1], s>> : y \in mine}
  <2>2. run[r] = "next" /\ \A y \in local[r].seen : y[1] \in local[r].picks
    BY <1>1, <2>1 DEF Step, Works
  <2>3. \A x \in taken : x[1] \in local[r].picks
    <3>1. \A y \in mine : y[1] \in local[r].picks
      BY <2>2
    <3>. HIDE DEF mine
    <3>. QED  BY <3>1
  <2>4. row' = [y \in DOMAIN row |-> IF y \in taken THEN "sending" ELSE row[y]] /\ old' = [old EXCEPT !.rows = @ \ taken]
    BY <2>1
  <2>5. /\ run'[r] \in {"next", "send"} /\ local'[r].picks = local[r].picks /\ local'[r].job = local[r].job
        /\ \A y \in local'[r].seen \cup local'[r].sending : y[1] \in local[r].picks
    BY <1>1, <2>1, <2>2 DEF Step, RunsOK, Locals
  <2>. HIDE DEF mine, taken
  <2>6. ASSUME NEW j \in Jobs \ Holds(r) PROVE RowsShut(j)
    BY <1>1, <1>3, <2>3, <2>4 DEF RowsOK, Rows, RowsShut
  <2>7. Holds(r)' \subseteq Holds(r) /\ Works(r)' /\ run'[r] # "write"
    BY <1>3, <2>5 DEF Holds, Works
  <2>8. old'.jobs = old.jobs
    BY <1>1, <2>4 DEF OldOK
  <2>. QED  BY <1>1, <1>2, <2>1, <2>6, <2>7, <2>8, MyRowsMove
<1>7. CASE Record(r)
  <2>1. UNCHANGED <<cand, ctries, seized>> /\ old'.jobs = old.jobs
    BY <1>7 DEF Record, outside
  <2>2. \A y \in local[r].seen \cup local[r].sending : y[1] \in local[r].picks
    BY <1>1, <1>7 DEF Record, Step, Works
  <2>3. \A x \in Sending(r) : x[1] \in local[r].picks
    BY <2>2 DEF Sending
  <2>4. ASSUME NEW j \in Jobs \ Holds(r) PROVE RowsShut(j)
    <3>1. \A x \in Rows : x \notin Sending(r) => row'[x] = row[x]
      BY <1>1, <1>7 DEF Record, RowsOK
    <3>. QED  BY <1>3, <2>3, <3>1 DEF Rows, RowsShut
  <2>5. /\ run'[r] \in {"drop", "next"} /\ local'[r].picks = local[r].picks /\ local'[r].job = local[r].job
        /\ local'[r].seen = local[r].seen /\ local'[r].sending \subseteq local[r].sending
    BY <1>1, <1>7 DEF Record, Step, RunsOK, Locals
  <2>6. Holds(r)' \subseteq Holds(r) /\ Works(r)' /\ run'[r] # "write"
    BY <1>3, <2>2, <2>5 DEF Holds, Works
  <2>. QED  BY <1>1, <1>2, <2>1, <2>4, <2>6, MyRowsMove
<1>8. CASE DropDead(r)
  <2>1. UNCHANGED <<cand, ctries, seized>> /\ ((\E s : Cascade(s)) \/ UNCHANGED <<row, old>>)
    BY <1>8 DEF DropDead, outside
  <2>2. old'.jobs = old.jobs /\ \A j \in Jobs : RowsShut(j)
    BY <1>1, <2>1 DEF Cascade, RowsShut, OldOK, RowsOK, Rows, Active, Waiting
  <2>3. /\ run[r] = "drop" /\ run'[r] = "next" /\ local'[r].picks = local[r].picks /\ local'[r].job = local[r].job
        /\ local'[r].seen = local[r].seen
    BY <1>1, <1>8 DEF DropDead, Step, RunsOK, Locals
  <2>4. Holds(r)' \subseteq Holds(r) /\ Works(r)' /\ run'[r] # "write"
    BY <1>1, <1>3, <2>3 DEF Holds, Works
  <2>. QED  BY <1>1, <1>2, <2>1, <2>2, <2>4, MyRowsMove
<1>. QED  BY <1>4, <1>5, <1>6, <1>7, <1>8


LEMMA EndCountKeeps ==
    ASSUME EndInv, NEW r \in Runs, Count(r)
    PROVE  EndInv'
<1>1. TypeOK /\ TypeOK' /\ RunsOK /\ local[r] \in Locals /\ Works(r)
  BY SettleTypes, Types, MyTypes DEF EndInv
<1>2. Moves(r) /\ UNCHANGED <<cand, ctries, row, old, seized>>
  BY <1>1, OnlyMine DEF RunStep, Count, table, outside
<1>3. PICK j \in local[r].picks :
        /\ run[r] = "settle" /\ run'[r] = "write"
        /\ local'[r].job = {j} /\ local'[r].verdict = Verdict(j) /\ local'[r].picks = local[r].picks \ {j}
  BY <1>1 DEF Count, Step, RunsOK, Locals
<1>4. Holds(r) = local[r].picks /\ Holds(r)' = local[r].picks
  BY <1>1, <1>3 DEF Holds, Works
<1>5. Works(r)'
  BY <1>3 DEF Works
<1>6. ASSUME NEW q \in Runs, q # r
      PROVE  run'[q] = run[q] /\ local'[q] = local[q] /\ Holds(q)' = Holds(q) /\ Works(q)'
  BY <1>2, <1>6, OthersWork DEF Moves
<1>7. Closed(j, Verdict(j))
  BY DEF Verdict, Closed, Some
<1>8. ASSUME NEW q \in Runs, run'[q] = "write", NEW i \in local'[q].job \ seized
      PROVE  Closed(i, local'[q].verdict)
  BY <1>3, <1>6, <1>7, <1>8, Writers
<1>9. ASSUME NEW q \in Runs, NEW i \in Holds(q)' \ seized PROVE i \in Holds(q) /\ i \notin old'.jobs
  BY <1>2, <1>4, <1>6, <1>9 DEF EndInv, Claims
<1>10. \A q \in Runs : Works(q)'
  BY <1>5, <1>6
<1>. DEFINE Busy == {}
<1>11. /\ \A i \in Jobs \ Busy : RowsShut(i)
       /\ \A i \in Busy : cand[i] \notin {"sent", "failed"}
       /\ \A i : i \notin Busy
  BY <1>2 DEF RowsShut
<1>. HIDE DEF Busy
<1>. QED  BY <1>1, <1>2, <1>8, <1>9, <1>10, <1>11, RowsMove

(* Changes of candidates nobody works on. *)
LEMMA EndQueueKeeps ==
    ASSUME EndInv, (\E j \in Jobs : Insert(j)) \/ DropQueued \/ ReviveQueued
    PROVE  EndInv'
<1>1. TypeOK' /\ CandsOK
  BY MatchTypes, SettingTypes, Types DEF EndInv
<1>2. UNCHANGED <<row, old, run, local, seized>>
  BY DEF Insert, DropQueued, ReviveQueued, outside
<1>3. \A j \in Jobs : (cand'[j] = cand[j] /\ ctries'[j] = ctries[j])
                       \/ (cand[j] # "sending" /\ cand'[j] \notin {"sent", "failed"})
  BY <1>1 DEF Insert, DropQueued, ReviveQueued, Revived, Waiting, CandsOK
<1>4. \A r \in Runs : Holds(r)' = Holds(r) /\ Works(r)'
  BY <1>2, OthersWork
<1>5. ASSUME NEW r \in Runs, NEW j \in Holds(r)' \ seized PROVE cand'[j] = "sending" /\ j \notin old'.jobs
  BY <1>2, <1>3, <1>4, <1>5, HeldJobs DEF EndInv, Claims
<1>6. ASSUME NEW q \in Runs, NEW r \in Runs, NEW j \in (Holds(q)' \cap Holds(r)') \ seized PROVE q = r
  BY <1>4, <1>6 DEF EndInv, Claims
<1>7. \A j \in Jobs : (cand'[j] = cand[j] /\ ctries'[j] = ctries[j]) \/ Written(j)'
  BY <1>3 DEF Written
<1>. QED  BY <1>1, <1>2, <1>4, <1>5, <1>6, <1>7, CandsMove

LEMMA EndReapKeeps ==
    ASSUME EndInv, NEW r \in Runs, ReapCandidates(r) \/ Sift(r) \/ SkipRuledOut(r)
    PROVE  EndInv'
<1>1. TypeOK /\ TypeOK' /\ CandsOK /\ OldOK /\ RunsOK /\ local[r] \in Locals
  BY ReapTypes, SelectTypes, Types, MyTypes DEF EndInv
<1>2. UNCHANGED <<row, ctries, seized>> /\ Moves(r)
  BY <1>1, OnlyMine DEF ReapCandidates, Sift, SkipRuledOut, RunStep, outside
<1>3. old'.jobs \subseteq old.jobs
  BY <1>1 DEF ReapCandidates, Sift, SkipRuledOut, OldOK
<1>4. ASSUME NEW j \in Jobs, cand'[j] # cand[j]
      PROVE  (cand[j] # "sending" \/ j \in old.jobs) /\ Written(j)'
  <2>1. CASE ReapCandidates(r)
    <3>1. j \in old.jobs /\ cand'[j] = Expired(ctries[j])
      BY <1>4, <2>1 DEF ReapCandidates
    <3>2. ctries[j] \in 0 .. MaxAttempts /\ ctries'[j] = ctries[j]
      BY <1>1, <1>2 DEF CandsOK
    <3>. QED  BY <3>1, <3>2 DEF Expired, Written, MaxAttempts
  <2>2. CASE Sift(r) \/ SkipRuledOut(r)
    <3>1. cand[j] \in Waiting /\ cand'[j] = "skipped"
      BY <1>4, <2>2 DEF Sift, SkipRuledOut, StillWaiting
    <3>. QED  BY <3>1 DEF Waiting, Written
  <2>. QED  BY <2>1, <2>2
<1>5. Holds(r)' = {} /\ Works(r)' /\ run'[r] # "write"
  <2>1. \/ run'[r] \in {"reaprows", "select", "off"}
        \/ run'[r] = "claim" /\ local'[r].job = {}
    BY <1>1 DEF ReapCandidates, Sift, SkipRuledOut, Step, Over, RunsOK, Locals
  <2>. QED  BY <2>1 DEF Holds, Works
<1>6. ASSUME NEW q \in Runs, q # r
      PROVE  run'[q] = run[q] /\ local'[q] = local[q] /\ Holds(q)' = Holds(q) /\ Works(q)'
  BY <1>2, <1>6, OthersWork DEF Moves
<1>7. ASSUME NEW q \in Runs, NEW j \in Holds(q)' \ seized PROVE cand'[j] = "sending" /\ j \notin old'.jobs
  <2>1. j \in Holds(q) /\ j \in Jobs /\ cand[j] = "sending" /\ j \notin old.jobs
    BY <1>5, <1>6, <1>7, HeldJobs DEF EndInv, Claims
  <2>. QED  BY <1>3, <1>4, <2>1
<1>8. ASSUME NEW q \in Runs, NEW o \in Runs, NEW j \in (Holds(q)' \cap Holds(o)') \ seized PROVE q = o
  BY <1>5, <1>6, <1>8 DEF EndInv, Claims
<1>9. \A q \in Runs : Works(q)' /\ (run'[q] = "write" => run[q] = "write" /\ local'[q] = local[q])
  BY <1>5, <1>6
<1>10. \A j \in Jobs : (cand'[j] = cand[j] /\ ctries'[j] = ctries[j]) \/ Written(j)'
  BY <1>2, <1>4
<1>. QED  BY <1>1, <1>2, <1>7, <1>8, <1>9, <1>10, CandsMove

LEMMA EndClaimKeeps ==
    ASSUME EndInv, NEW r \in Runs, Claim(r)
    PROVE  EndInv'
<1>. DEFINE mine == {j \in local[r].picks : StillWaiting(j)}
<1>1. TypeOK /\ TypeOK' /\ CandsOK /\ OldOK /\ RunsOK /\ local[r] \in Locals /\ Works(r)
  BY SelectTypes, Types, MyTypes DEF EndInv
<1>2. UNCHANGED row /\ Moves(r) /\ run[r] = "claim"
  BY <1>1, OnlyMine DEF Claim, RunStep
<1>3. /\ cand' = [j \in Jobs |-> IF j \in mine THEN "sending" ELSE cand[j]]
      /\ \A j \in Jobs : j \notin mine => ctries'[j] = ctries[j]
      /\ old'.jobs = old.jobs \ mine
      /\ mine \subseteq Jobs /\ \A j \in mine : cand[j] # "sending"
      /\ seized' = seized \ (mine \ Held)
  BY <1>1 DEF Claim, OldOK, Locals, StillWaiting, Waiting
<1>4. \/ run'[r] = "off"
      \/ run'[r] = "devices" /\ local'[r].picks = mine /\ local'[r].job = {}
  BY <1>1, <1>2 DEF Claim, Step, Over, RunsOK, Locals, Works
<1>. HIDE DEF mine
<1>5. Holds(r)' \subseteq mine /\ Works(r)' /\ run'[r] # "write"
  BY <1>4 DEF Holds, Works
<1>6. ASSUME NEW q \in Runs, q # r
      PROVE  run'[q] = run[q] /\ local'[q] = local[q] /\ Holds(q)' = Holds(q) /\ Works(q)'
  BY <1>2, <1>6, OthersWork DEF Moves
<1>7. ASSUME NEW q \in Runs, NEW j \in Holds(q) \ seized'
      PROVE  j \in Jobs /\ j \notin seized /\ cand[j] = "sending" /\ j \notin old.jobs /\ j \notin mine
  <2>1. j \notin seized
    BY <1>3, <1>7 DEF Held
  <2>. QED  BY <1>3, <1>7, <2>1, HeldJobs DEF EndInv, Claims
<1>8. ASSUME NEW q \in Runs, NEW j \in Holds(q)' \ seized' PROVE cand'[j] = "sending" /\ j \notin old'.jobs
  BY <1>3, <1>5, <1>6, <1>7, <1>8
<1>9. ASSUME NEW q \in Runs, NEW o \in Runs, NEW j \in (Holds(q)' \cap Holds(o)') \ seized' PROVE q = o
  BY <1>5, <1>6, <1>7, <1>9 DEF EndInv, Claims
<1>10. \A q \in Runs : Works(q)'
  BY <1>5, <1>6
<1>11. ASSUME NEW q \in Runs, run'[q] = "write"
       PROVE  /\ run[q] = "write" /\ local'[q] = local[q]
              /\ \A j \in local[q].job \ seized' : j \notin seized
  <2>1. q # r /\ run[q] = "write" /\ local'[q] = local[q]
    BY <1>5, <1>6, <1>11
  <2>2. local[q].job \subseteq Holds(q)
    BY <2>1, HeldJobs
  <2>. QED  BY <1>7, <2>1, <2>2
<1>12. \A j \in Jobs \ seized' :
          (cand'[j] = cand[j] /\ ctries'[j] = ctries[j] /\ j \notin seized) \/ Written(j)'
  BY <1>3 DEF Written
<1>. QED  BY <1>1, <1>2, <1>8, <1>9, <1>10, <1>11, <1>12, CandsMove

(* Verdicts are written over the candidates of the run alone. *)
LEMMA EndWriteKeeps ==
    ASSUME EndInv, NEW r \in Runs, MarkAll(r) \/ Write(r)
    PROVE  EndInv'
<1>1. TypeOK /\ TypeOK' /\ CandsOK /\ RunsOK /\ local[r] \in Locals /\ Works(r)
  BY ReadyTypes, SettleTypes, Types, MyTypes DEF EndInv
<1>2. UNCHANGED <<row, ctries, old, seized>> /\ Moves(r)
  BY <1>1, OnlyMine DEF MarkAll, Write, RunStep, outside
<1>3. Holds(r)' \subseteq Holds(r) /\ Works(r)' /\ run'[r] # "write"
  <2>1. CASE MarkAll(r)
    <3>1. run'[r] = "off"
      BY <1>1, <2>1 DEF MarkAll, Over, RunsOK
    <3>. QED  BY <3>1 DEF Holds, Works
  <2>2. CASE Write(r)
    <3>1. \/ run'[r] = "off"
          \/ run[r] = "write" /\ run'[r] = "settle" /\ local'[r].picks = local[r].picks /\ local'[r].job = {}
      BY <1>1, <2>2 DEF Write, Step, Over, RunsOK, Locals
    <3>. QED  BY <3>1 DEF Holds, Works
  <2>. QED  BY <2>1, <2>2
<1>4. ASSUME NEW j \in Jobs, cand'[j] # cand[j]
      PROVE  j \in Holds(r) /\ j \notin Holds(r)' /\ (j \notin seized => Written(j)')
  <2>1. CASE MarkAll(r)
    <3>1. run[r] = "markall" /\ run'[r] = "off" /\ j \in local[r].picks /\ cand'[j] = local[r].verdict
      BY <1>1, <1>4, <2>1 DEF MarkAll, Over, RunsOK
    <3>. QED  BY <1>1, <3>1 DEF Holds, Works, Written
  <2>2. CASE Write(r)
    <3>1. run[r] = "write" /\ j \in local[r].job /\ cand'[j] = local[r].verdict
      BY <1>4, <2>2 DEF Write, Step, Over
    <3>2. run'[r] = "off" \/ (run'[r] = "settle" /\ local'[r].picks = local[r].picks /\ local'[r].job = {})
      BY <1>1, <2>2 DEF Write, Step, Over, RunsOK, Locals
    <3>3. j \in Holds(r) /\ j \notin Holds(r)'
      BY <1>1, <3>1, <3>2 DEF Holds, Works
    <3>4. j \notin seized => Closed(j, local[r].verdict)
      BY <3>1, Writers
    <3>5. j \notin seized =>
          /\ cand'[j] = "sent" => ~Some(j, Active)
          /\ cand'[j] = "failed" => ~Some(j, Active \cup {"sent"})
      BY <3>1, <3>4 DEF Closed
    <3>. QED  BY <1>2, <3>3, <3>5 DEF Written, Closed, Some
  <2>. QED  BY <2>1, <2>2
<1>5. ASSUME NEW q \in Runs, q # r
      PROVE  run'[q] = run[q] /\ local'[q] = local[q] /\ Holds(q)' = Holds(q) /\ Works(q)'
  BY <1>2, <1>5, OthersWork DEF Moves
<1>6. ASSUME NEW q \in Runs, NEW j \in Holds(q)' \ seized PROVE cand'[j] = "sending" /\ j \notin old'.jobs
  <2>1. j \in Holds(q) /\ j \in Jobs /\ cand[j] = "sending" /\ j \notin old.jobs
    BY <1>3, <1>5, <1>6, HeldJobs DEF EndInv, Claims
  <2>2. cand'[j] = cand[j]
    BY <1>4, <1>6, <2>1 DEF EndInv, Claims
  <2>. QED  BY <1>2, <2>1, <2>2
<1>7. ASSUME NEW q \in Runs, NEW o \in Runs, NEW j \in (Holds(q)' \cap Holds(o)') \ seized PROVE q = o
  BY <1>3, <1>5, <1>7 DEF EndInv, Claims
<1>8. \A q \in Runs : Works(q)' /\ (run'[q] = "write" => run[q] = "write" /\ local'[q] = local[q])
  BY <1>3, <1>5
<1>9. \A j \in Jobs \ seized : (cand'[j] = cand[j] /\ ctries'[j] = ctries[j]) \/ Written(j)'
  BY <1>2, <1>4
<1>. QED  BY <1>1, <1>2, <1>6, <1>7, <1>8, <1>9, CandsMove

LEMMA EndInit == ASSUME Init PROVE EndInv
<1>1. TypeOK
  BY TypesInit
<1>2. \A r \in Runs : run[r] = "off" /\ Holds(r) = {}
  BY DEF Init, Holds
<1>3. \A j \in Jobs : cand[j] = "none"
  BY DEF Init
<1>. QED  BY <1>1, <1>2, <1>3 DEF EndInv, Claims, Works, Settles, Written

LEMMA EndStays == ASSUME EndInv, [Next]_vars PROVE EndInv'
<1>1. CASE UNCHANGED vars
  <2>1. TypeOK' /\ UNCHANGED <<run, local, cand, ctries, row, old, seized>>
    BY <1>1, TypesStay DEF EndInv, vars, table, outside
  <2>2. \A r \in Runs : \A j \in Holds(r) \ seized : j \notin old'.jobs
    BY <2>1 DEF EndInv, Claims
  <2>. QED  BY <2>1, <2>2, AllShut DEF RowsShut
<1>2. CASE Next
  BY <1>2, EndPersonKeeps, EndSeizeKeeps, EndRunKeeps, EndRowsKeep, EndCountKeeps, EndQueueKeeps, EndReapKeeps,
     EndClaimKeeps, EndWriteKeeps DEF Next, RunStep
<1>. QED  BY <1>1, <1>2

(* NobodyForgotten: a candidate recorded as sent owes no device anything,  *)
(* unless its claim was taken from a run at work on it and no run has      *)
(* claimed it anew.                                                        *)
THEOREM SentOwesNobody == Spec => []NobodyForgotten
<1>1. EndInv => NobodyForgotten
  <2>1. SUFFICES ASSUME EndInv, NEW x \in DOMAIN row, cand[x[1]] = "sent", row[x] \in Active
                 PROVE  x[1] \in seized
    BY DEF NobodyForgotten
  <2>2. x \in Rows
    BY <2>1, Types DEF EndInv, RowsOK
  <2>3. x = <<x[1], x[2]>> /\ x[1] \in Jobs /\ x[2] \in Subs
    BY <2>2 DEF Rows
  <2>. QED  BY <2>1, <2>3 DEF EndInv, Written, Closed, Some
<1>. QED  BY <1>1, EndInit, EndStays, PTL DEF Spec

(* EndIsTrue: a candidate recorded as sent reached a device, and one       *)
(* recorded as failed reached none it knows of, or its claim expired a     *)
(* third time or was taken from a run at work on it.                       *)
THEOREM EndsAreTrue == Spec => []EndIsTrue
<1>1. EndInv /\ TruthInv => EndIsTrue
  <2>. SUFFICES ASSUME EndInv, TruthInv PROVE EndIsTrue
    OBVIOUS
  <2>1. RowsOK /\ OutsideOK
    BY Types DEF EndInv
  <2>2. ASSUME NEW j \in Jobs, cand[j] = "sent"
        PROVE  \E x \in DOMAIN alerts : x[1] = j /\ alerts[x] > 0
    <3>1. PICK s \in Subs : alerts[<<j, s>>] > 0
      BY <2>2 DEF TruthInv, Alerted
    <3>. QED  BY <2>1, <3>1 DEF OutsideOK, Rows
  <2>3. ASSUME NEW x \in DOMAIN row, cand[x[1]] = "failed", row[x] = "sent"
        PROVE  ctries[x[1]] = MaxAttempts \/ x[1] \in seized
    <3>1. x = <<x[1], x[2]>> /\ x[1] \in Jobs /\ x[2] \in Subs
      BY <2>1, <2>3 DEF RowsOK, Rows
    <3>. QED  BY <2>3, <3>1 DEF EndInv, Written, Closed, Some
  <2>. QED  BY <2>2, <2>3 DEF EndIsTrue
<1>. QED  BY <1>1, EndInit, EndStays, TruthInit, TruthStays, PTL DEF Spec
=============================================================================
