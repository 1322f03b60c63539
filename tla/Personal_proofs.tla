-------------------------- MODULE Personal_proofs ---------------------------
(***************************************************************************)
(* Proofs about what is a person's: tailorings, their PDFs and accounts.   *)
(*                                                                         *)
(* Of TailorUsage, for every number of tailorings and requests, every      *)
(* limit of either plan, any time zones and budget, and any number of      *)
(* faults: a week charges no more tailorings than the plan allows, however *)
(* plan and zone change but for what the change itself brings, and a       *)
(* tailoring nobody works on is charged for a plan or a résumé it has.  Of ResumeArtifacts, for every   *)
(* number of PDFs and of calls at once and any number of faults: when      *)
(* nothing is under way the bucket and the table agree.  Of SignIn, for    *)
(* any devices, users, identities and jobs, any number of requests at once *)
(* and any number of deaths: a person has one account, and nothing the     *)
(* person saved or paid for is lost on the way to it.                      *)
(***************************************************************************)
EXTENDS Personal, FiniteSetTheorems, WellFoundedInduction, TLAPS

-----------------------------------------------------------------------------
(* The inductive invariant.                                                *)

(* Places where a plan has its row to itself. *)
Planning(r) == my[r].call = "plan" /\ at[r] \in {"reserve", "ask", "complete", "save"}

Billed == ThisWeek \ (recharged \cup moved)

(* A request that is about to reserve counts all that is billed, up to a   *)
(* limit no larger than the plan's, or its row is one that moves.          *)
Reads ==
    \A r \in Requests : my[r].call = "plan" /\ at[r] = "reserve" =>
        /\ my[r].since <= day
        /\ \A v \in Billed : made[v] >= my[r].since
        /\ my[r].limit <= limit \/ my[r].id \in moved

(* A plan's row is reserved once it passed the reservation, and nobody     *)
(* else knows of its tailoring yet.                                        *)
Plans ==
    /\ \A r \in Requests : my[r].call = "plan" => my[r].id \in Tailorings
    /\ \A r \in Requests : Planning(r) =>
         /\ tailoring[my[r].id] = "none"
         /\ at[r] = "reserve" => usage[my[r].id] = "none"
         /\ at[r] # "reserve" => Charged(my[r].id)
         /\ \A q \in Requests : my[q].id = my[r].id => q = r

(* What is written or rewritten was planned, and what was planned has its  *)
(* usage row.                                                              *)
Writes ==
    /\ \A r \in Requests : my[r].call \in {"generate", "regenerate"} =>
         my[r].id \in Tailorings /\ tailoring[my[r].id] # "none"
    /\ \A u \in Tailorings : tailoring[u] # "none" => usage[u] # "none"

(* A plan or a generation that has yet to say what its tailoring costs. *)
Open(r) == my[r].call \in {"plan", "generate"} /\ at[r] \notin {"off", "reserve"}

Settled(u) ==
    /\ usage[u] # "reserved"
    /\ Charged(u) => tailoring[u] # "none"
    /\ Charged(u) /\ tailoring[u] = "failed" => u \in rewritten

(* Whether a request's answer is valid goes with its place, and a request  *)
(* under way is one of the three.                                          *)
Answers ==
    \A r \in Requests :
        /\ at[r] \in {"reserve", "ask", "reject"} => ~my[r].valid
        /\ at[r] = "complete" => my[r].valid
        /\ my[r].call = "plan" => at[r] # "reject" /\ (at[r] = "save" => my[r].valid)
        /\ at[r] # "off" => my[r].call # "none"

SettledBy(u) ==
    /\ \A q, r \in Generating(u) : q = r
    /\ \A r \in Requests : my[r].id = u /\ Open(r) /\ at[r] = "save" =>
         /\ usage[u] \in {"completed", "refunded"}
         /\ my[r].valid \/ usage[u] = "refunded"
    /\ (\A r \in Requests : ~(my[r].id = u /\ Open(r))) => Settled(u)

Serves == \A u \in Tailorings \ (cut \cup raced) : SettledBy(u)

IInv == TypeOK /\ Reads /\ Plans /\ Writes /\ Answers /\ Serves /\ AllowanceKept
-----------------------------------------------------------------------------
(* The week, and what it charges.                                          *)

LEMMA Division ==
    ASSUME NEW d \in Nat, NEW z \in Zones
    PROVE  \E n \in Nat : WeekBegan(d, z) = Week * n - z /\ Week * n <= d + z /\ d + z < Week * n + Week
<1>. DEFINE n == (d + z) \div Week
            m == (d + z) % Week
<1>1. Week \in Nat /\ Week > 0 /\ z \in Nat /\ d + z \in Nat
  BY UsageAssumption
<1>2. d + z = Week * n + m /\ m \in 0 .. Week - 1 /\ n \in Nat
  BY <1>1
<1>3. WeekBegan(d, z) = d - m
  BY DEF WeekBegan
<1>4. Week * n \in Int
  BY <1>1, <1>2
<1>. HIDE DEF n, m
<1>. QED  BY <1>1, <1>2, <1>3, <1>4

(* A week's first day is no later than its days, and the next day's week   *)
(* begins no earlier, in one zone.                                         *)
LEMMA WeekBegins ==
    ASSUME NEW d \in Nat, NEW z \in Zones
    PROVE  /\ WeekBegan(d, z) \in Int /\ WeekBegan(d, z) <= d
           /\ WeekBegan(d + 1, z) \in Int /\ WeekBegan(d, z) <= WeekBegan(d + 1, z)
<1>1. Week \in Nat /\ Week > 0 /\ z \in Nat
  BY UsageAssumption
<1>2. PICK n \in Nat : /\ WeekBegan(d, z) = Week * n - z /\ Week * n <= d + z
                       /\ d + z < Week * n + Week
  BY Division
<1>3. PICK p \in Nat : /\ WeekBegan(d + 1, z) = Week * p - z /\ Week * p <= d + 1 + z
                       /\ d + 1 + z < Week * p + Week
  <2>1. d + 1 \in Nat
    OBVIOUS
  <2>. QED  BY <2>1, Division
<1>4. n <= p
  <2>1. SUFFICES ASSUME p + 1 <= n  PROVE FALSE
    OBVIOUS
  <2>2. PICK k \in Nat : n = p + 1 + k
    BY <2>1
  <2>3. Week * n = Week * p + Week + Week * k /\ Week * k >= 0 /\ Week * k \in Nat /\ Week * p \in Nat
    BY <1>1, <2>2
  <2>. QED  BY <1>1, <1>2, <1>3, <2>3
<1>5. PICK k \in Nat : p = n + k
  BY <1>4
<1>6. Week * p = Week * n + Week * k /\ Week * k \in Nat /\ Week * n \in Nat /\ Week * p \in Nat
  BY <1>1, <1>5
<1>. QED  BY <1>1, <1>2, <1>3, <1>6

LEMMA ChargedFinite ==
    ASSUME NEW d
    PROVE  IsFiniteSet(ChargedSince(d)) /\ Cardinality(ChargedSince(d)) \in Nat
<1>1. IsFiniteSet(ChargedSince(d))
  BY UsageAssumption, FS_Subset DEF ChargedSince
<1>. QED  BY <1>1, FS_CardinalityType

(* What is billed may shrink, with the plan the same or larger. *)
LEMMA BilledLess ==
    ASSUME TypeOK, AllowanceKept, Billed' \subseteq Billed,
           limit' \in {FreeLimit, ProLimit}, limit <= limit'
    PROVE  AllowanceKept'
<1>1. IsFiniteSet(Billed)
  BY ChargedFinite, FS_Subset DEF Billed, ThisWeek
<1>2. Cardinality(Billed') <= Cardinality(Billed) /\ Cardinality(Billed) \in Nat
      /\ Cardinality(Billed') \in Nat
  BY <1>1, FS_Subset, FS_CardinalityType
<1>3. limit \in Nat /\ limit' \in Nat /\ Cardinality(Billed) <= limit
  BY UsageAssumption DEF TypeOK, AllowanceKept, Billed
<1>4. Cardinality(Billed') <= limit'
  BY <1>2, <1>3
<1>. QED  BY <1>4 DEF AllowanceKept, Billed

(* So it keeps what the requests about to reserve have read, and the       *)
(* allowance with it, where these go on as they were.                      *)
LEMMA BillKept ==
    ASSUME IInv, Billed' \subseteq Billed, moved \subseteq moved',
           day \in Int, day' \in Int, day <= day',
           limit' \in {FreeLimit, ProLimit}, limit <= limit',
           \A v \in Billed : made'[v] = made[v],
           \A q \in Requests : my'[q].call = "plan" /\ at'[q] = "reserve" =>
               my'[q] = my[q] /\ at[q] = "reserve"
    PROVE  Reads' /\ AllowanceKept'
<1>1. AllowanceKept'
  BY BilledLess DEF IInv
<1>2. Reads'
  <2>1. SUFFICES ASSUME NEW q \in Requests, my'[q].call = "plan", at'[q] = "reserve"
        PROVE  /\ my'[q].since <= day'
               /\ \A v \in Billed' : made'[v] >= my'[q].since
               /\ my'[q].limit <= limit' \/ my'[q].id \in moved'
    BY DEF Reads
  <2>2. my'[q] = my[q] /\ my[q].call = "plan" /\ at[q] = "reserve"
    BY <2>1
  <2>3. /\ my[q].since <= day
        /\ \A v \in Billed : made[v] >= my[q].since
        /\ my[q].limit <= limit \/ my[q].id \in moved
    BY <2>2 DEF IInv, Reads
  <2>4. my[q].since \in Int /\ my[q].limit \in Nat /\ limit \in Nat /\ limit' \in Nat
    BY UsageAssumption DEF IInv, TypeOK
  <2>5. my[q].since <= day'
    BY <2>3, <2>4
  <2>6. my[q].limit <= limit' \/ my[q].id \in moved'
    BY <2>3, <2>4
  <2>. QED  BY <2>2, <2>3, <2>5, <2>6
<1>. QED  BY <1>1, <1>2

(* Nor does a step disturb them that charges nothing that was not charged. *)
LEMMA NothingBilled ==
    ASSUME IInv, UNCHANGED <<made, now, moved>>,
           \A v \in Tailorings : Charged(v)' /\ v \notin recharged' => Charged(v) /\ v \notin recharged,
           \A q \in Requests : my'[q].call = "plan" /\ at'[q] = "reserve" =>
               my'[q] = my[q] /\ at[q] = "reserve"
    PROVE  Reads' /\ AllowanceKept'
<1>1. Billed' \subseteq Billed
  <2>1. WeekBegan(day, zone)' = WeekBegan(day, zone)
    BY DEF now
  <2>. QED  BY <2>1 DEF Billed, ThisWeek, ChargedSince
<1>2. /\ day' = day /\ limit' = limit /\ day \in Int /\ limit \in Nat
      /\ limit \in {FreeLimit, ProLimit}
  BY UsageAssumption DEF IInv, TypeOK, now
<1>3. day <= day' /\ limit <= limit'
  BY <1>2
<1>. QED  BY <1>1, <1>2, <1>3, BillKept

-----------------------------------------------------------------------------
(* Types.                                                                  *)

Locals == [call : {"none", "plan", "generate", "regenerate"}, id : Tailorings \cup {"none"},
           since : Int, limit : Nat, used : Nat, valid : BOOLEAN]

LEMMA LocalsType == Idle \in Locals
BY UsageAssumption DEF Idle, Locals

-----------------------------------------------------------------------------
(* Each action keeps the invariant.                                        *)

(* A request that was refused its reservation leaves no trace. *)
LEMMA RefusedKeeps ==
    ASSUME IInv, NEW r \in Requests, at[r] = "reserve", Ends(r),
           UNCHANGED <<ledger, tailoring, now, calls, faults, marks>>
    PROVE  IInv'
<1>1. TypeOK'
  BY LocalsType DEF IInv, TypeOK, Locals, Places, Ends, ledger, marks, now
<1>2. Plans' /\ Writes'
  BY UsageAssumption DEF IInv, TypeOK, Plans, Writes, Planning, Charged, Ends, Idle, ledger,
     WeekBegan, now
<1>5. Answers'
  BY DEF IInv, TypeOK, Answers, Ends, Idle, now
<1>3. Serves'
  BY UsageAssumption DEF IInv, TypeOK, Serves, SettledBy, Settled, Open, Generating, Charged,
     Ends, Idle, ledger, marks, now
<1>4. Reads' /\ AllowanceKept'
  <2>1. UNCHANGED <<made, now, moved>> /\ recharged' = recharged
    BY DEF Ends, ledger, marks
  <2>2. \A v \in Tailorings : Charged(v)' => Charged(v)
    BY DEF IInv, TypeOK, Ends, ledger, marks, Charged, Plans, Planning
  <2>3. \A q \in Requests : my'[q].call = "plan" /\ at'[q] = "reserve" =>
          my'[q] = my[q] /\ at[q] = "reserve"
    BY DEF IInv, TypeOK, Ends, ledger, marks, Idle
  <2>. QED  BY <2>1, <2>2, <2>3, NothingBilled
<1>. QED  BY <1>1, <1>2, <1>3, <1>4, <1>5 DEF IInv

LEMMA StartPlanKeeps ==
    ASSUME IInv, NEW r \in Requests, NEW u \in Tailorings, StartPlan(r, u)
    PROVE  IInv'
<1>. DEFINE plan == [Idle EXCEPT !.call = "plan", !.id = u, !.since = WeekBegan(day, zone),
                                 !.limit = limit, !.used = Cardinality(ThisWeek)]
<1>a. my' = [my EXCEPT ![r] = plan] /\ at' = [at EXCEPT ![r] = "reserve"]
      /\ UNCHANGED <<ledger, tailoring, now, marks>>
  BY DEF StartPlan, Go
<1>b. /\ plan.call = "plan" /\ plan.id = u /\ plan.since = WeekBegan(day, zone)
      /\ plan.limit = limit /\ plan.valid = FALSE
  BY DEF Idle
<1>c. /\ day \in Nat /\ WeekBegan(day, zone) \in Int /\ WeekBegan(day, zone) <= day
      /\ limit \in Nat /\ \A v \in Tailorings : made[v] \in Nat
  BY UsageAssumption, WeekBegins DEF IInv, TypeOK
<1>1. TypeOK'
  <2>1. at' \in [Requests -> Places]
    BY DEF IInv, TypeOK, Places, StartPlan, Go, now
  <2>2. my' \in [Requests -> Locals]
    <3>1. plan \in Locals
      BY <1>c, ChargedFinite DEF Idle, Locals, ThisWeek
    <3>. QED  BY <1>a, <3>1 DEF IInv, TypeOK, Locals
  <2>3. usage' \in [Tailorings -> {"none", "reserved", "completed", "refunded"}]
    BY DEF IInv, TypeOK, StartPlan, Go, ledger, marks, now
  <2>4. tailoring' \in [Tailorings -> {"none", "planned", "generated", "failed"}]
    BY DEF IInv, TypeOK, StartPlan, Go, ledger, marks, now
  <2>5. made' \in [Tailorings -> 0 .. MaxDays] /\ attempts' \in [Tailorings -> Nat]
    BY DEF IInv, TypeOK, StartPlan, Go, ledger, marks, now
  <2>6. /\ day' \in 0 .. MaxDays /\ zone' \in Zones /\ limit' \in {FreeLimit, ProLimit}
        /\ calls' \in 0 .. MaxCalls /\ faults' \in 0 .. MaxFaults
    BY UsageAssumption DEF IInv, TypeOK, StartPlan, Go, ledger, marks, now
  <2>7. /\ recharged' \subseteq Tailorings /\ moved' \subseteq Tailorings /\ rewritten' \subseteq Tailorings
        /\ raced' \subseteq Tailorings /\ cut' \subseteq Tailorings
    BY DEF IInv, TypeOK, Plans, Writes, Answers, StartPlan, Go, ledger, marks, now
  <2>. QED  BY <2>1, <2>2, <2>3, <2>4, <2>5, <2>6, <2>7 DEF TypeOK, Locals
<1>2. Plans'
  <2>1. /\ my'[r] = plan /\ at'[r] = "reserve"
        /\ \A q \in Requests : q # r => my'[q] = my[q] /\ at'[q] = at[q]
    BY <1>a DEF IInv, TypeOK
  <2>2. usage[u] = "none" /\ tailoring[u] = "none" /\ \A q \in Requests : my[q].id # u
    BY DEF StartPlan, IInv, Writes, now
  <2>. HIDE DEF plan
  <2>. QED  BY <1>a, <1>b, <2>1, <2>2 DEF IInv, Plans, Planning, Charged, ledger
<1>3. Writes'
  BY UsageAssumption DEF IInv, TypeOK, Plans, Writes, Planning, StartPlan, Go, ledger, marks,
     Idle, now
<1>4. Answers'
  BY DEF IInv, TypeOK, Answers, StartPlan, Go, ledger, marks, Idle, now
<1>5. Serves'
  BY UsageAssumption DEF IInv, TypeOK, Plans, Writes, Answers, Serves, SettledBy, Settled,
     Open, Generating, Planning, Charged, StartPlan, Go, ledger, marks, Idle, now
<1>6. Reads' /\ AllowanceKept'
  <2>1. WeekBegan(day, zone)' = WeekBegan(day, zone)
    BY <1>a DEF now
  <2>2. Billed' = Billed /\ limit' = limit /\ day' = day /\ made' = made /\ moved' = moved
    BY <1>a, <2>1 DEF Billed, ThisWeek, ChargedSince, Charged, ledger, now, marks
  <2>3. AllowanceKept'
    BY <2>2 DEF IInv, AllowanceKept, Billed
  <2>4. \A v \in Billed : made[v] >= WeekBegan(day, zone)
    BY DEF Billed, ThisWeek, ChargedSince
  <2>5. /\ my'[r] = plan
        /\ \A q \in Requests : q # r => my'[q] = my[q] /\ at'[q] = at[q]
    BY <1>a DEF IInv, TypeOK
  <2>. HIDE DEF plan
  <2>6. Reads'
    <3>1. SUFFICES ASSUME NEW q \in Requests, my'[q].call = "plan", at'[q] = "reserve"
          PROVE  /\ my'[q].since <= day
                 /\ \A v \in Billed : made[v] >= my'[q].since
                 /\ my'[q].limit <= limit \/ my'[q].id \in moved
      BY <2>2 DEF Reads
    <3>2. CASE q = r
      BY <1>b, <1>c, <2>4, <2>5, <3>2
    <3>3. CASE q # r
      BY <2>5, <3>1, <3>3 DEF IInv, Reads
    <3>. QED  BY <3>2, <3>3
  <2>. QED  BY <2>3, <2>6
<1>. QED  BY <1>1, <1>2, <1>3, <1>4, <1>5, <1>6 DEF IInv

LEMMA ReservePlanKeeps ==
    ASSUME IInv, NEW r \in Requests, ReservePlan(r)
    PROVE  IInv'
<1>. DEFINE u == my[r].id
<1>a. CASE ~(HasRoom(r) /\ AttemptsToday < Budget)
  BY <1>a, RefusedKeeps DEF ReservePlan, now
<1>b. SUFFICES ASSUME HasRoom(r) /\ AttemptsToday < Budget  PROVE IInv'
  BY <1>a
<1>c. /\ at[r] = "reserve" /\ at' = [at EXCEPT ![r] = "ask"] /\ my' = my /\ my[r].call = "plan"
      /\ usage' = [usage EXCEPT ![u] = "reserved"] /\ made' = [made EXCEPT ![u] = day]
      /\ attempts' = [attempts EXCEPT ![u] = 1]
      /\ UNCHANGED <<tailoring, now, calls, faults, marks>>
  BY <1>b DEF ReservePlan, Go, now
<1>d. /\ u \in Tailorings
      /\ tailoring[u] = "none" /\ \A q \in Requests : my[q].id = u => q = r
  BY <1>c DEF IInv, Plans, Planning
<1>1. TypeOK'
  BY <1>c, <1>d DEF IInv, TypeOK, Places, marks, now
<1>2. Plans'
  <2>1. /\ at'[r] = "ask" /\ \A q \in Requests : q # r => at'[q] = at[q]
        /\ usage'[u] = "reserved" /\ \A v \in Tailorings : v # u => usage'[v] = usage[v]
    BY <1>c, <1>d DEF IInv, TypeOK
  <2>. QED  BY <1>c, <1>d, <2>1 DEF IInv, Plans, Planning, Charged
<1>3. Writes'
  BY <1>c, <1>d DEF IInv, TypeOK, Writes
<1>4. Answers'
  BY <1>c DEF IInv, TypeOK, Answers
<1>5. Serves'
  <2>1. SUFFICES ASSUME NEW v \in Tailorings, v \notin cut \cup raced  PROVE SettledBy(v)'
    BY <1>c DEF Serves, marks, now
  <2>2. SettledBy(v)
    BY <2>1 DEF IInv, Serves
  <2>3. CASE v = u
    BY <1>c, <1>d, <2>2, <2>3 DEF IInv, TypeOK, SettledBy, Open, Generating
  <2>4. CASE v # u
    <3>1. \A q \in Requests : my[q].id = v => at'[q] = at[q]
      BY <1>c, <2>4 DEF IInv, TypeOK
    <3>2. usage'[v] = usage[v] /\ (v \in rewritten <=> v \in rewritten')
      BY <1>c, <1>d, <2>4 DEF IInv, TypeOK, marks, now
    <3>. QED  BY <1>c, <2>2, <3>1, <3>2 DEF SettledBy, Settled, Open, Generating, Charged
  <2>. QED  BY <2>3, <2>4
<1>6. Reads' /\ AllowanceKept'
  <2>. DEFINE before == ChargedSince(my[r].since)
  <2>0. /\ my[r].since <= day
        /\ \A v \in Billed : made[v] >= my[r].since
        /\ my[r].limit <= limit \/ u \in moved
        /\ my[r].since \in Int /\ my[r].limit \in Nat /\ limit \in Nat /\ day \in Nat
        /\ \A v \in Tailorings : made[v] \in Nat
    BY <1>c, UsageAssumption DEF IInv, Reads, TypeOK
  <2>1. UNCHANGED <<day, zone, limit, recharged, moved>>
    BY <1>c DEF now, marks
  <2>2. /\ made'[u] = day
        /\ \A v \in Tailorings : v # u => Charged(v)' = Charged(v) /\ made'[v] = made[v]
    BY <1>c, <1>d DEF IInv, TypeOK, Charged
  <2>3. Billed' \subseteq Billed \cup {u} /\ (u \in moved => Billed' \subseteq Billed)
    <3>1. WeekBegan(day, zone)' = WeekBegan(day, zone)
      BY <2>1
    <3>. QED  BY <2>1, <2>2, <3>1 DEF Billed, ThisWeek, ChargedSince
  <2>4. Billed \subseteq before
    BY <2>0 DEF Billed, ThisWeek, ChargedSince
  <2>5. IsFiniteSet(before) /\ Cardinality(before) \in Nat /\ Cardinality(before) < my[r].limit
    BY <1>b, ChargedFinite DEF HasRoom
  <2>. HIDE DEF before
  <2>6. AllowanceKept'
    <3>1. CASE u \in moved
      BY <2>0, <2>1, <2>3, <3>1, BilledLess DEF IInv, TypeOK
    <3>2. CASE u \notin moved
      <4>1. /\ IsFiniteSet(before \cup {u})
            /\ \/ Cardinality(before \cup {u}) = Cardinality(before)
               \/ Cardinality(before \cup {u}) = Cardinality(before) + 1
        BY <2>5, FS_AddElement
      <4>2. Cardinality(Billed') <= Cardinality(before \cup {u}) /\ Cardinality(Billed') \in Nat
        <5>1. Billed' \subseteq before \cup {u}
          BY <2>3, <2>4
        <5>. QED  BY <4>1, <5>1, FS_Subset, FS_CardinalityType
      <4>3. Cardinality(Billed') <= limit
        BY <2>0, <2>5, <3>2, <4>1, <4>2
      <4>. QED  BY <2>1, <4>3 DEF AllowanceKept, Billed
    <3>. QED  BY <3>1, <3>2
  <2>7. Reads'
    <3>1. SUFFICES ASSUME NEW q \in Requests, my[q].call = "plan", at'[q] = "reserve"
          PROVE  /\ my[q].since <= day
                 /\ \A v \in Billed' : made'[v] >= my[q].since
                 /\ my[q].limit <= limit \/ my[q].id \in moved
      BY <1>c, <2>1 DEF Reads
    <3>2. at[q] = "reserve" /\ q # r
      BY <1>c, <3>1 DEF IInv, TypeOK
    <3>3. /\ my[q].since <= day
          /\ \A v \in Billed : made[v] >= my[q].since
          /\ my[q].limit <= limit \/ my[q].id \in moved
      BY <3>1, <3>2 DEF IInv, Reads
    <3>4. ASSUME NEW v \in Billed'  PROVE made'[v] >= my[q].since
      <4>1. my[q].since \in Int
        BY DEF IInv, TypeOK
      <4>2. CASE v = u
        BY <2>0, <2>2, <3>3, <4>1, <4>2
      <4>3. CASE v # u
        <5>1. v \in Billed /\ v \in Tailorings
          BY <2>3, <4>3 DEF Billed, ThisWeek, ChargedSince
        <5>. QED  BY <2>2, <3>3, <4>3, <5>1
      <4>. QED  BY <4>2, <4>3
    <3>. QED  BY <3>3, <3>4
  <2>. QED  BY <2>6, <2>7
<1>. QED  BY <1>1, <1>2, <1>3, <1>4, <1>5, <1>6 DEF IInv

LEMMA StartWritingKeeps ==
    ASSUME IInv, NEW r \in Requests, NEW u \in Tailorings,
           NEW call \in {"generate", "regenerate"}, StartWriting(r, u, call)
    PROVE  IInv'
<1>1. TypeOK'
  <2>1. at' \in [Requests -> Places]
    BY DEF IInv, TypeOK, Places, StartWriting, Go, now
  <2>2. my' \in [Requests -> Locals]
    BY LocalsType DEF IInv, TypeOK, Locals, StartWriting, now
  <2>3. usage' \in [Tailorings -> {"none", "reserved", "completed", "refunded"}]
    BY DEF IInv, TypeOK, StartWriting, Go, ledger, now
  <2>4. tailoring' \in [Tailorings -> {"none", "planned", "generated", "failed"}]
    BY DEF IInv, TypeOK, StartWriting, Go, ledger, now
  <2>5. made' \in [Tailorings -> 0 .. MaxDays] /\ attempts' \in [Tailorings -> Nat]
    BY DEF IInv, TypeOK, StartWriting, Go, ledger, now
  <2>6. /\ day' \in 0 .. MaxDays /\ zone' \in Zones /\ limit' \in {FreeLimit, ProLimit}
        /\ calls' \in 0 .. MaxCalls /\ faults' \in 0 .. MaxFaults
    BY UsageAssumption DEF IInv, TypeOK, StartWriting, Go, ledger, now
  <2>7. /\ recharged' \subseteq Tailorings /\ moved' \subseteq Tailorings /\ rewritten' \subseteq Tailorings
        /\ raced' \subseteq Tailorings /\ cut' \subseteq Tailorings
    BY DEF IInv, TypeOK, Plans, Writes, Answers, StartWriting, Go, ledger, now
  <2>. QED  BY <2>1, <2>2, <2>3, <2>4, <2>5, <2>6, <2>7 DEF TypeOK, Locals
<1>2. Plans'
  BY UsageAssumption, WeekBegins DEF IInv, TypeOK, Plans, Writes, Answers, Planning, Charged,
     StartWriting, Go, ledger, Idle, now
<1>3. Writes'
  BY UsageAssumption DEF IInv, TypeOK, Plans, Writes, Planning, StartWriting, Go, ledger, Idle, now
<1>4. Answers'
  BY DEF IInv, TypeOK, Answers, StartWriting, Go, ledger, Idle, now
<1>5. Serves'
  BY UsageAssumption DEF IInv, TypeOK, Plans, Writes, Answers, Serves, SettledBy, Settled,
     Open, Generating, Planning, Charged, StartWriting, Go, ledger, Idle, now
<1>6. Reads' /\ AllowanceKept'
  <2>1. UNCHANGED <<made, now, moved>> /\ recharged' = recharged
    BY DEF StartWriting, Go, ledger, marks
  <2>2. \A v \in Tailorings : Charged(v)' => Charged(v)
    BY DEF IInv, TypeOK, StartWriting, Go, ledger, marks, Charged, Plans, Planning
  <2>3. \A q \in Requests : my'[q].call = "plan" /\ at'[q] = "reserve" =>
          my'[q] = my[q] /\ at[q] = "reserve"
    BY DEF IInv, TypeOK, StartWriting, Go, ledger, marks, Idle
  <2>. QED  BY <2>1, <2>2, <2>3, NothingBilled
<1>. QED  BY <1>1, <1>2, <1>3, <1>4, <1>5, <1>6 DEF IInv

LEMMA ReserveAttemptKeeps ==
    ASSUME IInv, NEW r \in Requests, ReserveAttempt(r)
    PROVE  IInv'
<1>. DEFINE u == my[r].id
            room == /\ Charges(r) => Cardinality(ChargedSince(day)) < DailyCharges
                    /\ AttemptsToday + 1 <= Budget
<1>a. CASE ~room
  BY <1>a, RefusedKeeps DEF ReserveAttempt, marks, now
<1>b. SUFFICES ASSUME room  PROVE IInv'
  BY <1>a
<1>c. /\ at[r] = "reserve" /\ at' = [at EXCEPT ![r] = "ask"] /\ my' = my
      /\ my[r].call \in {"generate", "regenerate"}
      /\ usage' = [usage EXCEPT ![u] = IF Charges(r) THEN "reserved" ELSE @]
      /\ attempts' = [attempts EXCEPT ![u] = @ + 1]
      /\ recharged' = IF Charges(r) THEN recharged \cup {u} ELSE recharged
      /\ UNCHANGED <<made, tailoring, day, zone, limit, calls, faults, moved, rewritten, raced, cut>>
  BY <1>b DEF ReserveAttempt, Go, now
<1>d. u \in Tailorings /\ tailoring[u] # "none"
  BY <1>c DEF IInv, Writes
<1>. HIDE DEF u, room
<1>1. TypeOK'
  BY <1>c, <1>d DEF IInv, TypeOK, Places
<1>2. Plans'
  <2>1. /\ at'[r] = "ask" /\ \A q \in Requests : q # r => at'[q] = at[q]
        /\ (usage'[u] = usage[u] \/ usage'[u] = "reserved")
        /\ \A v \in Tailorings : v # u => usage'[v] = usage[v]
    BY <1>c, <1>d DEF IInv, TypeOK
  <2>. QED  BY <1>c, <1>d, <2>1 DEF IInv, Plans, Planning, Charged
<1>3. Writes'
  BY <1>c, <1>d DEF IInv, TypeOK, Writes
<1>4. Answers'
  BY <1>c DEF IInv, TypeOK, Answers
<1>5. Serves'
  <2>1. SUFFICES ASSUME NEW v \in Tailorings, v \notin cut \cup raced  PROVE SettledBy(v)'
    BY <1>c DEF Serves
  <2>2. SettledBy(v)
    BY <2>1 DEF IInv, Serves
  <2>3. CASE v = u
    <3>1. at'[r] = "ask" /\ \A q \in Requests : q # r => at'[q] = at[q]
      BY <1>c DEF IInv, TypeOK
    <3>2. \A q, p \in Generating(v)' : q = p
      BY <1>c, <2>2 DEF SettledBy, Generating
    <3>3. ASSUME NEW q \in Requests, my'[q].id = v, Open(q)', at'[q] = "save"
          PROVE  usage'[v] \in {"completed", "refunded"} /\ (my'[q].valid \/ usage'[v] = "refunded")
      <4>1. q # r /\ at[q] = "save" /\ my[q].id = v /\ Open(q)
        BY <1>c, <3>1, <3>3 DEF Open
      <4>2. my[q].call = "generate"
        BY <1>d, <2>3, <4>1 DEF IInv, Plans, Planning, Open
      <4>3. my[r].call # "generate"
        BY <2>2, <2>3, <4>1, <4>2 DEF SettledBy, Generating, u
      <4>4. usage' = usage
        BY <1>c, <1>d, <4>3 DEF IInv, TypeOK, Charges
      <4>. QED  BY <1>c, <2>2, <2>3, <4>1, <4>4 DEF SettledBy
    <3>4. (\A q \in Requests : ~(my[q].id = v /\ Open(q)))' => Settled(v)'
      <4>1. CASE my[r].call = "generate"
        BY <1>c, <2>3, <3>1, <4>1 DEF Open, u
      <4>2. CASE my[r].call = "regenerate"
        <5>1. usage' = usage
          BY <1>c, <1>d, <4>2 DEF IInv, TypeOK, Charges
        <5>2. \A q \in Requests : Open(q)' <=> Open(q)
          BY <1>c, <3>1, <4>2 DEF Open
        <5>. QED  BY <1>c, <2>2, <2>3, <5>1, <5>2 DEF SettledBy, Settled, Charged
      <4>. QED  BY <1>c, <4>1, <4>2
    <3>. QED  BY <3>2, <3>3, <3>4 DEF SettledBy
  <2>4. CASE v # u
    <3>1. \A q \in Requests : my[q].id = v => at'[q] = at[q]
      BY <1>c, <2>4 DEF IInv, TypeOK, u
    <3>2. usage'[v] = usage[v] /\ (v \in rewritten <=> v \in rewritten')
      BY <1>c, <1>d, <2>4 DEF IInv, TypeOK
    <3>. QED  BY <1>c, <2>2, <3>1, <3>2 DEF SettledBy, Settled, Open, Generating, Charged
  <2>. QED  BY <2>3, <2>4
<1>6. Reads' /\ AllowanceKept'
  <2>1. UNCHANGED <<made, now, moved>>
    BY <1>c DEF now
  <2>2. \A v \in Tailorings : Charged(v)' /\ v \notin recharged' => Charged(v) /\ v \notin recharged
    BY <1>c, <1>d DEF IInv, TypeOK, Charged, Charges, u
  <2>3. \A q \in Requests : my'[q].call = "plan" /\ at'[q] = "reserve" =>
          my'[q] = my[q] /\ at[q] = "reserve"
    BY <1>c DEF IInv, TypeOK
  <2>. QED  BY <2>1, <2>2, <2>3, NothingBilled
<1>. QED  BY <1>1, <1>2, <1>3, <1>4, <1>5, <1>6 DEF IInv

LEMMA AskKeeps ==
    ASSUME IInv, NEW r \in Requests, Ask(r)
    PROVE  IInv'
<1>1. TypeOK'
  <2>1. at' \in [Requests -> Places]
    BY DEF IInv, TypeOK, Places, Ask, Go, now
  <2>2. my' \in [Requests -> Locals]
    <3>1. my' = my \/ my' = [my EXCEPT ![r] = [my[r] EXCEPT !.valid = TRUE]]
      BY DEF Ask, now
    <3>2. my[r] \in Locals /\ [my[r] EXCEPT !.valid = TRUE] \in Locals
      BY DEF IInv, TypeOK, Locals
    <3>. QED  BY <3>1, <3>2 DEF IInv, TypeOK, Locals
  <2>3. usage' \in [Tailorings -> {"none", "reserved", "completed", "refunded"}]
    BY DEF IInv, TypeOK, Ask, Go, ledger, marks, now
  <2>4. tailoring' \in [Tailorings -> {"none", "planned", "generated", "failed"}]
    BY DEF IInv, TypeOK, Ask, Go, ledger, marks, now
  <2>5. made' \in [Tailorings -> 0 .. MaxDays] /\ attempts' \in [Tailorings -> Nat]
    BY DEF IInv, TypeOK, Ask, Go, ledger, marks, now
  <2>6. /\ day' \in 0 .. MaxDays /\ zone' \in Zones /\ limit' \in {FreeLimit, ProLimit}
        /\ calls' \in 0 .. MaxCalls /\ faults' \in 0 .. MaxFaults
    BY UsageAssumption DEF IInv, TypeOK, Ask, Go, ledger, marks, now
  <2>7. /\ recharged' \subseteq Tailorings /\ moved' \subseteq Tailorings /\ rewritten' \subseteq Tailorings
        /\ raced' \subseteq Tailorings /\ cut' \subseteq Tailorings
    BY DEF IInv, TypeOK, Plans, Writes, Answers, Ask, Go, ledger, marks, now
  <2>. QED  BY <2>1, <2>2, <2>3, <2>4, <2>5, <2>6, <2>7 DEF TypeOK, Locals
<1>2. Plans'
  BY UsageAssumption, WeekBegins DEF IInv, TypeOK, Plans, Writes, Answers, Planning, Charged,
     Ask, Go, ledger, marks, now
<1>3. Writes'
  BY UsageAssumption DEF IInv, TypeOK, Plans, Writes, Planning, Ask, Go, ledger, marks, now
<1>4. Answers'
  BY DEF IInv, TypeOK, Answers, Ask, Go, ledger, marks, now
<1>5. Serves'
  <2>1. /\ \A q \in Requests : my'[q].id = my[q].id /\ my'[q].call = my[q].call
        /\ \A q \in Requests \ {r} : at'[q] = at[q] /\ my'[q] = my[q]
        /\ at[r] = "ask" /\ at'[r] \in {"complete", "reject", "refund"}
    BY DEF IInv, TypeOK, Locals, Ask, Go, now
  <2>2. UNCHANGED <<ledger, tailoring, now, calls, faults, marks>>
    BY DEF Ask, now
  <2>3. \A q \in Requests : Open(q)' <=> Open(q)
    BY <2>1 DEF Open
  <2>4. \A u \in Tailorings : Generating(u)' = Generating(u)
    BY <2>1 DEF Generating
  <2>5. \A u \in Tailorings : Settled(u)' <=> Settled(u)
    BY <2>2 DEF Settled, Charged, ledger, marks, now
  <2>. QED  BY <2>1, <2>2, <2>3, <2>4, <2>5 DEF IInv, Serves, SettledBy, ledger, marks, now
<1>6. Reads' /\ AllowanceKept'
  <2>1. UNCHANGED <<made, now, moved>> /\ recharged' = recharged
    BY DEF Ask, Go, ledger, marks
  <2>2. \A v \in Tailorings : Charged(v)' => Charged(v)
    BY DEF IInv, TypeOK, Ask, Go, ledger, marks, Charged, Plans, Planning
  <2>3. \A q \in Requests : my'[q].call = "plan" /\ at'[q] = "reserve" =>
          my'[q] = my[q] /\ at[q] = "reserve"
    BY DEF IInv, TypeOK, Ask, Go, ledger, marks, Idle
  <2>. QED  BY <2>1, <2>2, <2>3, NothingBilled
<1>. QED  BY <1>1, <1>2, <1>3, <1>4, <1>5, <1>6 DEF IInv

LEMMA CompleteKeeps ==
    ASSUME IInv, NEW r \in Requests, Complete(r)
    PROVE  IInv'
<1>1. TypeOK'
  <2>1. at' \in [Requests -> Places]
    BY DEF IInv, TypeOK, Places, Complete, Go, Ends, Does, now
  <2>2. my' \in [Requests -> Locals]
    BY LocalsType DEF IInv, TypeOK, Locals, Complete, Ends, Does, now
  <2>3. usage' \in [Tailorings -> {"none", "reserved", "completed", "refunded"}]
    BY DEF IInv, TypeOK, Complete, Go, Ends, Does, Fault, Charges, now
  <2>4. tailoring' \in [Tailorings -> {"none", "planned", "generated", "failed"}]
    BY DEF IInv, TypeOK, Complete, Go, Ends, Does, Fault, Charges, now
  <2>5. made' \in [Tailorings -> 0 .. MaxDays] /\ attempts' \in [Tailorings -> Nat]
    BY DEF IInv, TypeOK, Complete, Go, Ends, Does, Fault, Charges, now
  <2>6. /\ day' \in 0 .. MaxDays /\ zone' \in Zones /\ limit' \in {FreeLimit, ProLimit}
        /\ calls' \in 0 .. MaxCalls /\ faults' \in 0 .. MaxFaults
    BY UsageAssumption DEF IInv, TypeOK, Complete, Go, Ends, Does, Fault, Charges, now
  <2>7. /\ recharged' \subseteq Tailorings /\ moved' \subseteq Tailorings /\ rewritten' \subseteq Tailorings
        /\ raced' \subseteq Tailorings /\ cut' \subseteq Tailorings
    BY DEF IInv, TypeOK, Plans, Writes, Answers, Complete, Go, Ends, Does, Fault, Charges, now
  <2>. QED  BY <2>1, <2>2, <2>3, <2>4, <2>5, <2>6, <2>7 DEF TypeOK, Locals
<1>2. Plans'
  BY UsageAssumption, WeekBegins DEF IInv, TypeOK, Plans, Writes, Answers, Planning, Charged,
     Complete, Go, Ends, Does, Fault, Idle, Charges, now
<1>3. Writes'
  BY UsageAssumption DEF IInv, TypeOK, Plans, Writes, Planning, Complete, Go, Ends, Does,
     Fault, Idle, Charges, now
<1>4. Answers'
  BY DEF IInv, TypeOK, Answers, Complete, Go, Ends, Does, Fault, Idle, Charges, now
<1>5. Serves'
  BY UsageAssumption DEF IInv, TypeOK, Plans, Writes, Answers, Serves, SettledBy, Settled,
     Open, Generating, Planning, Charged, Complete, Go, Ends, Does, Fault, Idle, Charges, now
<1>6. Reads' /\ AllowanceKept'
  <2>1. UNCHANGED <<made, now, moved>> /\ at[r] = "complete" /\ recharged \subseteq recharged'
    BY DEF Complete, Does, Go, now
  <2>2. ASSUME NEW v \in Tailorings, Charged(v)', v \notin recharged'
        PROVE  Charged(v) /\ v \notin recharged
    <3>1. CASE usage' = usage
      BY <2>1, <2>2, <3>1 DEF Charged
    <3>2. CASE usage' # usage
      <4>1. /\ usage' = [usage EXCEPT ![my[r].id] =
                 IF my[r].call = "regenerate" /\ usage[my[r].id] = "refunded"
                 THEN "refunded" ELSE "completed"]
            /\ recharged' = IF Charges(r) THEN recharged \cup {my[r].id} ELSE recharged
        BY <3>2 DEF Complete, Does, now
      <4>2. CASE v # my[r].id
        BY <2>1, <2>2, <4>1, <4>2 DEF Charged, IInv, TypeOK
      <4>3. CASE v = my[r].id
        <5>1. usage[v] # "refunded"
          <6>1. my[r].call \in {"plan", "generate", "regenerate"}
            BY <2>1 DEF IInv, TypeOK, Answers
          <6>2. CASE my[r].call = "plan"
            BY <2>1, <4>3, <6>2 DEF Charged, IInv, Plans, Planning
          <6>3. CASE my[r].call = "generate"
            BY <2>2, <4>1, <4>3, <6>3 DEF Charges
          <6>4. CASE my[r].call = "regenerate"
            BY <2>2, <4>1, <4>3, <6>4 DEF Charged, IInv, TypeOK
          <6>. QED  BY <6>1, <6>2, <6>3, <6>4
        <5>2. usage[v] # "none"
          BY <2>1, <4>3 DEF IInv, TypeOK, Plans, Planning, Charged, Writes, Answers
        <5>. QED  BY <2>1, <2>2, <5>1, <5>2 DEF Charged, IInv, TypeOK
      <4>. QED  BY <4>2, <4>3
    <3>. QED  BY <3>1, <3>2
  <2>3. \A q \in Requests : my'[q].call = "plan" /\ at'[q] = "reserve" =>
          my'[q] = my[q] /\ at[q] = "reserve"
    BY DEF IInv, TypeOK, Complete, Does, Go, Ends, Idle
  <2>. QED  BY <2>1, <2>2, <2>3, NothingBilled
<1>. QED  BY <1>1, <1>2, <1>3, <1>4, <1>5, <1>6 DEF IInv

LEMMA RejectKeeps ==
    ASSUME IInv, NEW r \in Requests, Reject(r)
    PROVE  IInv'
<1>1. TypeOK'
  <2>1. at' \in [Requests -> Places]
    BY DEF IInv, TypeOK, Places, Reject, Go, Ends, Does
  <2>2. my' \in [Requests -> Locals]
    BY LocalsType DEF IInv, TypeOK, Locals, Reject, Ends, Does
  <2>3. usage' \in [Tailorings -> {"none", "reserved", "completed", "refunded"}]
    BY DEF IInv, TypeOK, Reject, Does, Refunded, GivesBack
  <2>4. faults' \in 0 .. MaxFaults
    BY UsageAssumption DEF IInv, TypeOK, Reject, Does, Fault
  <2>5. UNCHANGED <<made, attempts, tailoring, now, calls, marks>>
    BY DEF Reject
  <2>. QED  BY <2>1, <2>2, <2>3, <2>4, <2>5 DEF IInv, TypeOK, Locals, now, marks
<1>2. Plans'
  BY UsageAssumption, WeekBegins DEF IInv, TypeOK, Plans, Writes, Answers, Planning, Charged,
     Reject, Go, Ends, Does, Fault, marks, Idle, Refunded, GivesBack, now
<1>3. Writes'
  BY UsageAssumption DEF IInv, TypeOK, Plans, Writes, Planning, Reject, Go, Ends, Does,
     Fault, marks, Idle, Refunded, GivesBack, now
<1>4. Answers'
  BY DEF IInv, TypeOK, Answers, Reject, Go, Ends, Does, Fault, marks, Idle, Refunded, GivesBack, now
<1>5. Serves'
  BY UsageAssumption DEF IInv, TypeOK, Plans, Writes, Answers, Serves, SettledBy, Settled,
     Open, Generating, Planning, Charged, Reject, Go, Ends, Does, Fault, marks, Idle,
     Refunded, GivesBack, now
<1>6. Reads' /\ AllowanceKept'
  <2>1. UNCHANGED <<made, now, moved>> /\ recharged' = recharged
    BY DEF Reject, Does, Go, Ends, Refunded, GivesBack, marks
  <2>2. \A v \in Tailorings : Charged(v)' => Charged(v)
    BY DEF IInv, TypeOK, Reject, Does, Go, Ends, Refunded, GivesBack, marks, Charged, Plans, Planning
  <2>3. \A q \in Requests : my'[q].call = "plan" /\ at'[q] = "reserve" =>
          my'[q] = my[q] /\ at[q] = "reserve"
    BY DEF IInv, TypeOK, Reject, Does, Go, Ends, Refunded, GivesBack, marks, Idle
  <2>. QED  BY <2>1, <2>2, <2>3, NothingBilled
<1>. QED  BY <1>1, <1>2, <1>3, <1>4, <1>5, <1>6 DEF IInv

LEMMA SaveKeeps ==
    ASSUME IInv, NEW r \in Requests, Save(r)
    PROVE  IInv'
<1>a. /\ at[r] = "save" /\ UNCHANGED <<usage, day>>
      /\ \/ at' = [at EXCEPT ![r] = "off"] /\ my' = [my EXCEPT ![r] = Idle]
         \/ at' = [at EXCEPT ![r] = "refund"] /\ my' = my
      /\ tailoring' = [tailoring EXCEPT ![my[r].id] = Status(r)] \/ tailoring' = tailoring
  BY DEF Save, Does, Go, Ends, ledger, now
<1>b. my[r].id \in Tailorings /\ usage[my[r].id] # "none" /\ Status(r) # "none"
  BY <1>a DEF IInv, TypeOK, Plans, Planning, Charged, Writes, Answers, Status
<1>1. TypeOK'
  <2>1. at' \in [Requests -> Places]
    BY DEF IInv, TypeOK, Places, Save, Go, Ends, Does, now
  <2>2. my' \in [Requests -> Locals]
    BY LocalsType DEF IInv, TypeOK, Locals, Save, Ends, Does, now
  <2>3. usage' \in [Tailorings -> {"none", "reserved", "completed", "refunded"}]
    BY DEF IInv, TypeOK, Save, Go, Ends, Does, Fault, ledger, Status, now
  <2>4. tailoring' \in [Tailorings -> {"none", "planned", "generated", "failed"}]
    BY DEF IInv, TypeOK, Save, Go, Ends, Does, Fault, ledger, Status, now
  <2>5. made' \in [Tailorings -> 0 .. MaxDays] /\ attempts' \in [Tailorings -> Nat]
    BY DEF IInv, TypeOK, Save, Go, Ends, Does, Fault, ledger, Status, now
  <2>6. /\ day' \in 0 .. MaxDays /\ zone' \in Zones /\ limit' \in {FreeLimit, ProLimit}
        /\ calls' \in 0 .. MaxCalls /\ faults' \in 0 .. MaxFaults
    BY UsageAssumption DEF IInv, TypeOK, Save, Go, Ends, Does, Fault, ledger, Status, now
  <2>7. /\ recharged' \subseteq Tailorings /\ moved' \subseteq Tailorings /\ rewritten' \subseteq Tailorings
        /\ raced' \subseteq Tailorings /\ cut' \subseteq Tailorings
    BY DEF IInv, TypeOK, Plans, Writes, Answers, Save, Go, Ends, Does, Fault, ledger, Status, now
  <2>. QED  BY <2>1, <2>2, <2>3, <2>4, <2>5, <2>6, <2>7 DEF TypeOK, Locals
<1>2. Plans'
  <2>2. \A q \in Requests : my'[q] = my[q] \/ my'[q] = Idle
    BY <1>a DEF IInv, TypeOK
  <2>3. ASSUME NEW q \in Requests, Planning(q)'
        PROVE  q # r /\ Planning(q) /\ at'[q] = at[q] /\ my'[q] = my[q]
    BY <1>a, <2>3 DEF IInv, TypeOK, Planning, Idle
  <2>4. \A q \in Requests : Planning(q)' => my[q].id # my[r].id
    BY <2>3 DEF IInv, Plans
  <2>5. \A q \in Requests : Planning(q)' => tailoring'[my[q].id] = "none"
    <3>1. SUFFICES ASSUME NEW q \in Requests, Planning(q)'  PROVE tailoring'[my[q].id] = "none"
      OBVIOUS
    <3>2. Planning(q) /\ my[q].id # my[r].id
      BY <2>3, <2>4, <3>1
    <3>3. tailoring[my[q].id] = "none" /\ my[q].id \in Tailorings
      BY <3>2 DEF IInv, Plans, Planning
    <3>. QED  BY <1>a, <3>2, <3>3 DEF IInv, TypeOK
  <2>6. \A q \in Requests : my'[q].call = "plan" => my'[q].id \in Tailorings
    BY <2>2 DEF IInv, Plans, Idle
  <2>7. ASSUME NEW q \in Requests, Planning(q)'
        PROVE  /\ at'[q] = "reserve" => usage'[my'[q].id] = "none"
               /\ at'[q] # "reserve" => usage'[my'[q].id] \in {"reserved", "completed"}
               /\ \A p \in Requests : my'[p].id = my'[q].id => p = q
    <3>1. Planning(q) /\ at'[q] = at[q] /\ my'[q] = my[q] /\ my[q].id \in Tailorings
      BY <2>3, <2>7 DEF IInv, Plans, Planning
    <3>2. my[q].id # "none"
      BY <3>1, UsageAssumption
    <3>. QED  BY <1>a, <2>2, <3>1, <3>2 DEF IInv, Plans, Charged, Idle
  <2>. QED  BY <2>3, <2>5, <2>6, <2>7 DEF Plans, Charged
<1>3. Writes'
  <2>1. \A v \in Tailorings : tailoring[v] # "none" => tailoring'[v] # "none"
    BY <1>a, <1>b DEF IInv, TypeOK
  <2>2. \A v \in Tailorings : v # my[r].id => tailoring'[v] = tailoring[v]
    BY <1>a DEF IInv, TypeOK
  <2>3. \A q \in Requests : my'[q] = my[q] \/ my'[q] = Idle
    BY <1>a DEF IInv, TypeOK
  <2>. QED  BY <1>a, <1>b, <2>1, <2>2, <2>3 DEF IInv, Writes, Idle
<1>4. Answers'
  <2>1. \A q \in Requests :
          \/ my'[q] = Idle /\ at'[q] = "off"
          \/ my'[q] = my[q] /\ at'[q] = at[q]
          \/ my'[q] = my[q] /\ at[q] = "save" /\ at'[q] = "refund"
    BY <1>a DEF IInv, TypeOK
  <2>. QED  BY <2>1 DEF IInv, Answers, Idle
<1>5. Serves'
  <2>1. SUFFICES ASSUME NEW v \in Tailorings, v \notin cut \cup raced  PROVE SettledBy(v)'
    BY DEF Save, Serves
  <2>2. SettledBy(v)
    BY <2>1 DEF IInv, Serves
  <2>3. /\ \A q \in Requests : q # r => at'[q] = at[q] /\ my'[q] = my[q]
        /\ \/ my'[r].call = "none" /\ at'[r] = "off"
           \/ my'[r] = my[r] /\ at'[r] = "refund"
    <3>1. CASE at' = [at EXCEPT ![r] = "off"] /\ my' = [my EXCEPT ![r] = Idle]
      BY <3>1 DEF IInv, TypeOK, Idle
    <3>2. CASE at' = [at EXCEPT ![r] = "refund"] /\ my' = my
      BY <3>2 DEF IInv, TypeOK
    <3>. QED  BY <1>a, <3>1, <3>2
  <2>4. CASE v # my[r].id
    <3>1. tailoring'[v] = tailoring[v] /\ (v \in rewritten' <=> v \in rewritten)
      BY <1>a, <2>4 DEF IInv, TypeOK, Save, Does
    <3>2. \A q \in Requests : my'[q].id = v => my'[q] = my[q] /\ at'[q] = at[q] /\ q # r
      BY <1>a, <2>3, <2>4, UsageAssumption DEF IInv, TypeOK, Idle
    <3>. QED  BY <1>a, <2>2, <2>3, <2>4, <3>1, <3>2 DEF SettledBy, Settled, Open, Generating, Charged
  <2>5. CASE v = my[r].id
    <3>1. \A q, p \in Generating(v)' : q = p
      BY <2>2, <2>3 DEF SettledBy, Generating
    <3>2. \A q \in Requests : my'[q].id = v /\ Open(q)' /\ at'[q] = "save" =>
            /\ usage'[v] \in {"completed", "refunded"}
            /\ my'[q].valid \/ usage'[v] = "refunded"
      BY <1>a, <2>2, <2>3 DEF SettledBy, Open
    <3>3. \A q \in Requests : q # r => (Open(q)' <=> Open(q)) /\ my'[q].id = my[q].id
      BY <2>3 DEF Open
    <3>4. ASSUME \A q \in Requests : ~(my'[q].id = v /\ Open(q)')
          PROVE  Settled(v)'
      <4>1. CASE my[r].call = "regenerate"
        <5>1. \A q \in Requests : ~(my[q].id = v /\ Open(q))
          BY <3>3, <3>4, <4>1 DEF Open
        <5>2. Settled(v)
          BY <2>2, <5>1 DEF SettledBy
        <5>3. /\ tailoring'[v] # "none"
              /\ v \in rewritten' \/ (tailoring'[v] = tailoring[v] /\ (v \in rewritten => v \in rewritten'))
          BY <1>b, <2>5, <4>1 DEF IInv, TypeOK, Writes, Save, Does
        <5>. QED  BY <1>a, <5>2, <5>3 DEF Settled, Charged
      <4>2. CASE my[r].call # "regenerate"
        <5>1. my[r].call \in {"plan", "generate"} /\ Open(r)
          BY <1>a, <4>2 DEF IInv, TypeOK, Answers, Open
        <5>2. my'[r].call = "none" /\ at'[r] = "off"
          BY <2>3, <2>5, <3>4, <5>1 DEF Open
        <5>3. usage[v] \in {"completed", "refunded"} /\ (my[r].valid \/ usage[v] = "refunded")
          BY <1>a, <2>2, <2>5, <5>1 DEF SettledBy
        <5>4. tailoring'[v] = Status(r)
          BY <1>a, <2>5, <5>1, <5>2 DEF IInv, TypeOK, Save, Does, Go
        <5>. QED  BY <1>a, <1>b, <2>5, <5>3, <5>4 DEF Settled, Charged, Status
      <4>. QED  BY <4>1, <4>2
    <3>. QED  BY <3>1, <3>2, <3>4 DEF SettledBy
  <2>. QED  BY <2>4, <2>5
<1>6. Reads' /\ AllowanceKept'
  <2>1. UNCHANGED <<made, now, moved>> /\ recharged' = recharged
    BY DEF Save, Does, Go, Ends, ledger
  <2>2. \A v \in Tailorings : Charged(v)' => Charged(v)
    BY DEF IInv, TypeOK, Save, Does, Go, Ends, ledger, Charged, Plans, Planning
  <2>3. \A q \in Requests : my'[q].call = "plan" /\ at'[q] = "reserve" =>
          my'[q] = my[q] /\ at[q] = "reserve"
    BY DEF IInv, TypeOK, Save, Does, Go, Ends, ledger, Idle
  <2>. QED  BY <2>1, <2>2, <2>3, NothingBilled
<1>. QED  BY <1>1, <1>2, <1>3, <1>4, <1>5, <1>6 DEF IInv

LEMMA RefundKeeps ==
    ASSUME IInv, NEW r \in Requests, Refund(r)
    PROVE  IInv'
<1>1. TypeOK'
  <2>1. at' \in [Requests -> Places]
    BY DEF IInv, TypeOK, Places, Refund, Ends, now
  <2>2. my' \in [Requests -> Locals]
    BY LocalsType DEF IInv, TypeOK, Locals, Refund, Ends, now
  <2>3. usage' \in [Tailorings -> {"none", "reserved", "completed", "refunded"}]
    BY DEF IInv, TypeOK, Refund, Ends, Fault, Refunded, GivesBack, now
  <2>4. tailoring' \in [Tailorings -> {"none", "planned", "generated", "failed"}]
    BY DEF IInv, TypeOK, Refund, Ends, Fault, Refunded, GivesBack, now
  <2>5. made' \in [Tailorings -> 0 .. MaxDays] /\ attempts' \in [Tailorings -> Nat]
    BY DEF IInv, TypeOK, Refund, Ends, Fault, Refunded, GivesBack, now
  <2>6. /\ day' \in 0 .. MaxDays /\ zone' \in Zones /\ limit' \in {FreeLimit, ProLimit}
        /\ calls' \in 0 .. MaxCalls /\ faults' \in 0 .. MaxFaults
    BY UsageAssumption DEF IInv, TypeOK, Refund, Ends, Fault, Refunded, GivesBack, now
  <2>7. /\ recharged' \subseteq Tailorings /\ moved' \subseteq Tailorings /\ rewritten' \subseteq Tailorings
        /\ raced' \subseteq Tailorings /\ cut' \subseteq Tailorings
    BY DEF IInv, TypeOK, Plans, Writes, Answers, Refund, Ends, Fault, Refunded, GivesBack, now
  <2>. QED  BY <2>1, <2>2, <2>3, <2>4, <2>5, <2>6, <2>7 DEF TypeOK, Locals
<1>2. Plans'
  BY UsageAssumption, WeekBegins DEF IInv, TypeOK, Plans, Writes, Answers, Planning, Charged,
     Refund, Ends, Fault, Idle, Refunded, GivesBack, now
<1>3. Writes'
  BY UsageAssumption DEF IInv, TypeOK, Plans, Writes, Planning, Refund, Ends, Fault, Idle,
     Refunded, GivesBack, now
<1>4. Answers'
  BY DEF IInv, TypeOK, Answers, Refund, Ends, Fault, Idle, Refunded, GivesBack, now
<1>5. Serves'
  BY UsageAssumption DEF IInv, TypeOK, Plans, Writes, Answers, Serves, SettledBy, Settled,
     Open, Generating, Planning, Charged, Refund, Ends, Fault, Idle, Refunded, GivesBack, now
<1>6. Reads' /\ AllowanceKept'
  <2>1. UNCHANGED <<made, now, moved>> /\ recharged' = recharged
    BY DEF Refund, Ends, Refunded, GivesBack
  <2>2. \A v \in Tailorings : Charged(v)' => Charged(v)
    BY DEF IInv, TypeOK, Refund, Ends, Refunded, GivesBack, Charged, Plans, Planning
  <2>3. \A q \in Requests : my'[q].call = "plan" /\ at'[q] = "reserve" =>
          my'[q] = my[q] /\ at[q] = "reserve"
    BY DEF IInv, TypeOK, Refund, Ends, Refunded, GivesBack, Idle
  <2>. QED  BY <2>1, <2>2, <2>3, NothingBilled
<1>. QED  BY <1>1, <1>2, <1>3, <1>4, <1>5, <1>6 DEF IInv

LEMMA DiesKeeps ==
    ASSUME IInv, NEW r \in Requests, Dies(r)
    PROVE  IInv'
<1>1. TypeOK'
  <2>1. at' \in [Requests -> Places]
    BY DEF IInv, TypeOK, Places, Dies, Ends, now
  <2>2. my' \in [Requests -> Locals]
    BY LocalsType DEF IInv, TypeOK, Locals, Dies, Ends, now
  <2>3. usage' \in [Tailorings -> {"none", "reserved", "completed", "refunded"}]
    BY DEF IInv, TypeOK, Dies, Ends, Fault, ledger, now
  <2>4. tailoring' \in [Tailorings -> {"none", "planned", "generated", "failed"}]
    BY DEF IInv, TypeOK, Dies, Ends, Fault, ledger, now
  <2>5. made' \in [Tailorings -> 0 .. MaxDays] /\ attempts' \in [Tailorings -> Nat]
    BY DEF IInv, TypeOK, Dies, Ends, Fault, ledger, now
  <2>6. /\ day' \in 0 .. MaxDays /\ zone' \in Zones /\ limit' \in {FreeLimit, ProLimit}
        /\ calls' \in 0 .. MaxCalls /\ faults' \in 0 .. MaxFaults
    BY UsageAssumption DEF IInv, TypeOK, Dies, Ends, Fault, ledger, now
  <2>7. /\ recharged' \subseteq Tailorings /\ moved' \subseteq Tailorings /\ rewritten' \subseteq Tailorings
        /\ raced' \subseteq Tailorings /\ cut' \subseteq Tailorings
    BY DEF IInv, TypeOK, Plans, Writes, Answers, Dies, Ends, Fault, ledger, now
  <2>. QED  BY <2>1, <2>2, <2>3, <2>4, <2>5, <2>6, <2>7 DEF TypeOK, Locals
<1>2. Plans'
  BY UsageAssumption, WeekBegins DEF IInv, TypeOK, Plans, Writes, Answers, Planning, Charged,
     Dies, Ends, Fault, ledger, Idle, now
<1>3. Writes'
  BY UsageAssumption DEF IInv, TypeOK, Plans, Writes, Planning, Dies, Ends, Fault, ledger, Idle, now
<1>4. Answers'
  BY DEF IInv, TypeOK, Answers, Dies, Ends, Fault, ledger, Idle, now
<1>5. Serves'
  BY UsageAssumption DEF IInv, TypeOK, Plans, Writes, Answers, Serves, SettledBy, Settled,
     Open, Generating, Planning, Charged, Dies, Ends, Fault, ledger, Idle, now
<1>6. Reads' /\ AllowanceKept'
  <2>1. UNCHANGED <<made, now, moved>> /\ recharged' = recharged
    BY DEF Dies, Ends, ledger
  <2>2. \A v \in Tailorings : Charged(v)' => Charged(v)
    BY DEF IInv, TypeOK, Dies, Ends, ledger, Charged, Plans, Planning
  <2>3. \A q \in Requests : my'[q].call = "plan" /\ at'[q] = "reserve" =>
          my'[q] = my[q] /\ at[q] = "reserve"
    BY DEF IInv, TypeOK, Dies, Ends, ledger, Idle
  <2>. QED  BY <2>1, <2>2, <2>3, NothingBilled
<1>. QED  BY <1>1, <1>2, <1>3, <1>4, <1>5, <1>6 DEF IInv

LEMMA EditKeeps ==
    ASSUME IInv, NEW u \in Tailorings, Edit(u)
    PROVE  IInv'
<1>1. TypeOK'
  BY UsageAssumption, WeekBegins, ChargedFinite DEF IInv, TypeOK, Places, Edit, ledger, now
<1>2. Plans'
  BY UsageAssumption, WeekBegins DEF IInv, TypeOK, Plans, Writes, Answers, Planning, Charged,
     Edit, ledger, now
<1>3. Writes'
  BY UsageAssumption DEF IInv, TypeOK, Plans, Writes, Planning, Edit, ledger, now
<1>4. Answers'
  BY DEF IInv, TypeOK, Answers, Edit, ledger, now
<1>5. Serves'
  BY UsageAssumption DEF IInv, TypeOK, Plans, Writes, Answers, Serves, SettledBy, Settled,
     Open, Generating, Planning, Charged, Edit, ledger, now
<1>6. Reads' /\ AllowanceKept'
  <2>1. UNCHANGED <<made, now, moved>> /\ recharged' = recharged
    BY DEF Edit, ledger
  <2>2. \A v \in Tailorings : Charged(v)' => Charged(v)
    BY DEF IInv, TypeOK, Edit, ledger, Charged, Plans, Planning
  <2>3. \A q \in Requests : my'[q].call = "plan" /\ at'[q] = "reserve" =>
          my'[q] = my[q] /\ at[q] = "reserve"
    BY DEF IInv, TypeOK, Edit, ledger, Idle
  <2>. QED  BY <2>1, <2>2, <2>3, NothingBilled
<1>. QED  BY <1>1, <1>2, <1>3, <1>4, <1>5, <1>6 DEF IInv

LEMMA NextDayKeeps ==
    ASSUME IInv, NextDay
    PROVE  IInv'
<1>1. TypeOK'
  BY UsageAssumption, WeekBegins, ChargedFinite DEF IInv, TypeOK, Places, NextDay, ledger, marks, now
<1>2. Plans'
  BY UsageAssumption, WeekBegins DEF IInv, TypeOK, Plans, Writes, Answers, Planning, Charged,
     NextDay, ledger, marks, now
<1>3. Writes'
  BY UsageAssumption DEF IInv, TypeOK, Plans, Writes, Planning, NextDay, ledger, marks, now
<1>4. Answers'
  BY DEF IInv, TypeOK, Answers, NextDay, ledger, marks, now
<1>5. Serves'
  BY UsageAssumption DEF IInv, TypeOK, Plans, Writes, Answers, Serves, SettledBy, Settled,
     Open, Generating, Planning, Charged, NextDay, ledger, marks, now
<1>6. Reads' /\ AllowanceKept'
  <2>1. /\ day \in Nat /\ day' = day + 1 /\ UNCHANGED <<ledger, zone, limit, at, my, recharged, moved>>
        /\ zone \in Zones /\ limit \in {FreeLimit, ProLimit} /\ limit \in Nat
        /\ \A v \in Tailorings : made[v] \in Nat
    BY UsageAssumption DEF IInv, TypeOK, NextDay, marks
  <2>2. /\ WeekBegan(day, zone) <= WeekBegan(day, zone)'
        /\ WeekBegan(day, zone) \in Int /\ WeekBegan(day, zone)' \in Int
    BY <2>1, WeekBegins
  <2>3. Billed' \subseteq Billed
    BY <2>1, <2>2 DEF Billed, ThisWeek, ChargedSince, Charged, ledger
  <2>4. day <= day' /\ limit <= limit' /\ made' = made
    BY <2>1 DEF ledger
  <2>. QED  BY <2>1, <2>3, <2>4, BillKept
<1>. QED  BY <1>1, <1>2, <1>3, <1>4, <1>5, <1>6 DEF IInv

LEMMA MoveZoneKeeps ==
    ASSUME IInv, MoveZone
    PROVE  IInv'
<1>1. TypeOK'
  BY UsageAssumption DEF IInv, TypeOK, Places, MoveZone, ledger, ChargedSince
<1>2. Plans' /\ Writes' /\ Answers'
  BY DEF IInv, Plans, Writes, Answers, Planning, Charged, MoveZone, ledger
<1>3. Serves'
  BY DEF IInv, Serves, SettledBy, Settled, Open, Generating, Charged, MoveZone, ledger
<1>4. Reads' /\ AllowanceKept'
  <2>1. /\ UNCHANGED <<ledger, day, limit, at, my, recharged>> /\ day \in Int
        /\ limit \in {FreeLimit, ProLimit} /\ limit \in Nat
        /\ \A v \in Tailorings : made[v] \in Nat
    BY UsageAssumption DEF IInv, TypeOK, MoveZone
  <2>2. WeekBegan(day, zone) \in Int
    BY UsageAssumption, WeekBegins DEF IInv, TypeOK
  <2>3. ThisWeek' = ChargedSince(WeekBegan(day, zone'))
    BY <2>1 DEF ThisWeek, ChargedSince, Charged, ledger, WeekBegan
  <2>4. \A v \in ThisWeek' : v \in moved' \/ made[v] >= WeekBegan(day, zone)
    BY <2>1, <2>2, <2>3 DEF MoveZone, ChargedSince
  <2>5. moved \subseteq moved'
    BY DEF MoveZone
  <2>6. Billed' \subseteq Billed
    BY <2>1, <2>3, <2>4, <2>5 DEF Billed, ThisWeek, ChargedSince
  <2>7. day <= day' /\ limit <= limit' /\ made' = made
    BY <2>1 DEF ledger
  <2>. QED  BY <2>1, <2>5, <2>6, <2>7, BillKept
<1>. QED  BY <1>1, <1>2, <1>3, <1>4 DEF IInv

(* Under a smaller plan nothing charged so far is billed. *)
LEMMA ChangePlanKeeps ==
    ASSUME IInv, ChangePlan
    PROVE  IInv'
<1>. DEFINE planning == {r \in Requests : my[r].call = "plan" /\ at[r] = "reserve"}
<1>0. /\ UNCHANGED <<ledger, tailoring, day, zone, at, my, faults, recharged, rewritten, raced, cut>>
      /\ limit' \in {FreeLimit, ProLimit} \ {limit} /\ calls' \in 0 .. MaxCalls
      /\ moved' = IF limit' < limit
                  THEN moved \cup ThisWeek \cup {my[r].id : r \in planning} ELSE moved
  BY UsageAssumption DEF ChangePlan, IInv, TypeOK
<1>1. TypeOK'
  <2>1. moved' \subseteq Tailorings
    BY <1>0 DEF IInv, TypeOK, Plans, ThisWeek, ChargedSince
  <2>. QED  BY <1>0, <2>1 DEF IInv, TypeOK, Places, ledger
<1>2. Plans' /\ Writes' /\ Answers'
  BY <1>0 DEF IInv, Plans, Writes, Answers, Planning, Charged, ledger
<1>3. Serves'
  BY <1>0 DEF IInv, Serves, SettledBy, Settled, Open, Generating, Charged, ledger
<1>4. Reads' /\ AllowanceKept'
  <2>1. /\ limit \in {FreeLimit, ProLimit} /\ limit \in Nat /\ limit' \in Nat /\ day \in Int
        /\ ThisWeek' = ThisWeek
    BY <1>0, UsageAssumption DEF IInv, TypeOK, ThisWeek, ChargedSince, Charged, ledger, WeekBegan
  <2>2. CASE limit' < limit
    <3>1. Billed' = {}
      BY <1>0, <2>1, <2>2 DEF Billed
    <3>2. AllowanceKept'
      BY <2>1, <3>1, FS_EmptySet DEF AllowanceKept, Billed
    <3>3. Reads'
      <4>1. \A r \in Requests : my[r].call = "plan" /\ at[r] = "reserve" => my[r].id \in moved'
        BY <1>0, <2>2
      <4>2. \A r \in Requests : my[r].call = "plan" /\ at[r] = "reserve" => my[r].since <= day
        BY DEF IInv, Reads
      <4>. QED  BY <1>0, <3>1, <4>1, <4>2 DEF Reads
    <3>. QED  BY <3>2, <3>3
  <2>3. CASE ~(limit' < limit)
    <3>1. Billed' \subseteq Billed /\ moved' = moved /\ made' = made
      BY <1>0, <2>1, <2>3 DEF Billed, ledger
    <3>2. limit <= limit' /\ day <= day'
      BY <1>0, <2>1, <2>3
    <3>. QED  BY <1>0, <2>1, <3>1, <3>2, BillKept
  <2>. QED  BY <2>2, <2>3
<1>. QED  BY <1>1, <1>2, <1>3, <1>4 DEF IInv

-----------------------------------------------------------------------------
(* The theorems.                                                           *)

LEMMA Initially == Init => IInv
<1>. SUFFICES ASSUME Init  PROVE IInv
  OBVIOUS
<1>1. TypeOK
  BY LocalsType, UsageAssumption DEF Init, TypeOK, Locals, Places
<1>2. Reads /\ Plans /\ Writes /\ Answers
  BY DEF Init, Reads, Plans, Writes, Answers, Planning, Idle
<1>3. Serves
  BY DEF Init, Serves, SettledBy, Settled, Open, Generating, Charged, Idle
<1>4. AllowanceKept
  <2>1. Billed = {}
    BY DEF Init, Billed, ThisWeek, ChargedSince, Charged
  <2>2. Cardinality(Billed) = 0 /\ limit \in Nat
    BY <2>1, FS_EmptySet, UsageAssumption DEF Init
  <2>. QED  BY <2>2 DEF AllowanceKept, Billed
<1>. QED  BY <1>1, <1>2, <1>3, <1>4 DEF IInv

LEMMA Stays == IInv /\ [Next]_vars => IInv'
<1>. SUFFICES ASSUME IInv, [Next]_vars  PROVE IInv'
  OBVIOUS
<1>1. CASE UNCHANGED vars
  BY <1>1 DEF IInv, TypeOK, Reads, Billed, Plans, Writes, Answers, Serves, SettledBy, Settled, Open,
     Generating, Planning, Charged, AllowanceKept, ThisWeek, ChargedSince, WeekBegan, vars, ledger,
     now, marks
<1>2. ASSUME NEW r \in Requests,
             \/ \E u \in Tailorings :
                  \/ StartPlan(r, u)
                  \/ \E call \in {"generate", "regenerate"} : StartWriting(r, u, call)
             \/ ReservePlan(r) \/ ReserveAttempt(r) \/ Ask(r) \/ Complete(r) \/ Reject(r)
             \/ Save(r) \/ Refund(r) \/ Dies(r)
      PROVE  IInv'
  BY <1>2, StartPlanKeeps, StartWritingKeeps, ReservePlanKeeps, ReserveAttemptKeeps, AskKeeps,
     CompleteKeeps, RejectKeeps, SaveKeeps, RefundKeeps, DiesKeeps
<1>3. ASSUME NEW u \in Tailorings, Edit(u)  PROVE IInv'
  BY <1>3, EditKeeps
<1>4. CASE NextDay \/ MoveZone \/ ChangePlan
  BY <1>4, NextDayKeeps, MoveZoneKeeps, ChangePlanKeeps
<1>. QED  BY <1>1, <1>2, <1>3, <1>4 DEF Next

LEMMA Always == Spec => []IInv
BY Initially, Stays, PTL DEF Spec

(* What the ledger holds of a tailoring and what a request on it has in    *)
(* hand stay well typed, however requests overlap and die.                 *)
THEOREM UsageTypeCorrect == Spec => []TypeOK
<1>1. IInv => TypeOK
  BY DEF IInv
<1>. QED  BY <1>1, Always, PTL

(* However many requests reserve at once, and however the zone and the     *)
(* plan change under them, the week's charged tailorings stay within the   *)
(* limit of the plan the person has, but for those a generation charged    *)
(* again, those from before a smaller plan, and those of the days a change *)
(* of zone put back into the week.                                         *)
THEOREM WeekAllowanceKept == Spec => []AllowanceKept
<1>1. IInv => AllowanceKept
  BY DEF IInv
<1>. QED  BY <1>1, Always, PTL

(* A tailoring nobody works on is charged for a plan or a résumé it has,   *)
(* unless a request on it died or two generations of it overlapped.        *)
THEOREM OnlyServedCharged == Spec => []ChargedIsServed
<1>1. IInv => ChargedIsServed
  BY DEF IInv, Serves, SettledBy, Settled, ChargedIsServed
<1>. QED  BY <1>1, Always, PTL

-----------------------------------------------------------------------------
(* The exported PDFs: their bucket and their table, whatever calls overlap *)
(* and fail.  Their state and calls go by other names here.                *)

(* Each action keeps the invariant.                                        *)

(* A new file is nobody's: its name was never drawn. *)
LEMMA StartExportKeeps ==
    ASSUME PDF!IInv, NEW c \in Calls, NEW f \in Files, PDF!StartExport(c, f)
    PROVE  PDF!IInv'
<1>1. PDF!Shape'
  <2>1. place' \in [Calls -> PDF!Places]
    BY DEF PDF!IInv, PDF!Shape, PDF!Places, PDF!StartExport, PDF!Starts, PDF!Go, PDF!table,
       PDF!marks, PDF!Idle
  <2>2. hand' \in [Calls -> PDF!Locals]
    BY DEF PDF!IInv, PDF!Shape, PDF!Locals, PDF!Kinds, PDF!Deletions, PDF!Rows, PDF!StartExport,
       PDF!Starts, PDF!Go, PDF!table, PDF!marks, PDF!Idle
  <2>3. object' \subseteq drawn' /\ drawn' \subseteq Files /\ PDF!Rows' \subseteq drawn'
    BY DEF PDF!IInv, PDF!Shape, PDF!Holds, PDF!Rows, PDF!StartExport, PDF!Starts, PDF!Go,
       PDF!table, PDF!marks, PDF!Idle
  <2>4. /\ row' \in [Files -> {"none", "available", "deleting", "missing"}]
        /\ revision' \in [Files -> Nat]
    BY DEF PDF!IInv, PDF!Shape, PDF!StartExport, PDF!Starts, PDF!Go, PDF!table, PDF!marks, PDF!Idle
  <2>5. lost' \subseteq Files /\ late' \subseteq Files /\ spoiled' \subseteq Files
    BY DEF PDF!IInv, PDF!Shape, PDF!Holds, PDF!Rows, PDF!StartExport, PDF!Starts, PDF!Go,
       PDF!table, PDF!marks, PDF!Idle
  <2>. QED  BY <2>1, <2>2, <2>3, <2>4, <2>5 DEF PDF!Shape
<1>2. PDF!Holds'
  BY DEF PDF!IInv, PDF!Shape, PDF!Holds, PDF!Deletions, PDF!Rows, PDF!StartExport, PDF!Starts,
     PDF!Go, PDF!table, PDF!marks, PDF!Idle
<1>3. PDF!Exports'
  <2>1. /\ hand'[c].file = f /\ hand'[c].keys = {} /\ hand'[c].call \notin PDF!Deletions /\ place'[c] = "number"
        /\ \A d \in Calls : d # c => place'[d] = place[d] /\ hand'[d] = hand[d]
    BY DEF PDF!IInv, PDF!Shape, PDF!StartExport, PDF!Starts, PDF!Go, PDF!Idle, PDF!Deletions
  <2>2. row' = row /\ object' = object /\ lost' = lost
    BY DEF PDF!StartExport, PDF!Starts, PDF!table, PDF!marks
  <2>3. row[f] = "none" /\ f \notin object
    BY DEF PDF!IInv, PDF!Shape, PDF!StartExport, PDF!Rows
  <2>4. \A d \in Calls : place[d] # "off" =>
          f \notin hand[d].keys /\ (hand[d].call \notin PDF!Deletions => hand[d].file # f)
    BY DEF PDF!IInv, PDF!Holds, PDF!StartExport, PDF!Deletions
  <2>5. \A d \in Calls : place[d] \in {"number", "put", "insert"} => hand[d].file # f
    BY DEF PDF!IInv, PDF!Holds, PDF!StartExport
  <2>. QED  BY <2>1, <2>2, <2>3, <2>4, <2>5 DEF PDF!IInv, PDF!Exports
<1>4. PDF!Removed'
  BY DEF PDF!IInv, PDF!Shape, PDF!Holds, PDF!Exports, PDF!Removed, PDF!StartExport, PDF!Starts,
     PDF!Go, PDF!table, PDF!marks, PDF!Idle
<1>5. PDF!Agree'
  BY DEF PDF!IInv, PDF!Shape, PDF!Holds, PDF!Exports, PDF!Removed, PDF!Agree, PDF!Deleting,
     PDF!Rows, PDF!StartExport, PDF!Starts, PDF!Go, PDF!table, PDF!marks, PDF!Idle
<1>. QED  BY <1>1, <1>2, <1>3, <1>4, <1>5 DEF PDF!IInv

LEMMA NumberKeeps ==
    ASSUME PDF!IInv, NEW c \in Calls, PDF!Number(c)
    PROVE  PDF!IInv'
<1>1. PDF!Shape'
  <2>1. place' \in [Calls -> PDF!Places]
    BY DEF PDF!IInv, PDF!Shape, PDF!Places, PDF!Number, PDF!Go, PDF!table, PDF!marks
  <2>2. hand' \in [Calls -> PDF!Locals]
    <3>1. PICK n \in {0} \cup {revision[f] : f \in PDF!Rows} : hand' = [hand EXCEPT ![c].revision = n + 1]
      BY DEF PDF!Number
    <3>2. n \in Nat
      BY <3>1 DEF PDF!IInv, PDF!Shape, PDF!Rows
    <3>. QED  BY <3>1, <3>2 DEF PDF!IInv, PDF!Shape, PDF!Locals
  <2>3. object' \subseteq drawn' /\ drawn' \subseteq Files /\ PDF!Rows' \subseteq drawn'
    BY DEF PDF!IInv, PDF!Shape, PDF!Holds, PDF!Rows, PDF!Number, PDF!Go, PDF!table, PDF!marks
  <2>4. /\ row' \in [Files -> {"none", "available", "deleting", "missing"}]
        /\ revision' \in [Files -> Nat]
    BY DEF PDF!IInv, PDF!Shape, PDF!Number, PDF!Go, PDF!table, PDF!marks
  <2>5. lost' \subseteq Files /\ late' \subseteq Files /\ spoiled' \subseteq Files
    BY DEF PDF!IInv, PDF!Shape, PDF!Holds, PDF!Rows, PDF!Number, PDF!Go, PDF!table, PDF!marks
  <2>. QED  BY <2>1, <2>2, <2>3, <2>4, <2>5 DEF PDF!Shape
<1>2. PDF!Holds'
  BY DEF PDF!IInv, PDF!Shape, PDF!Holds, PDF!Deletions, PDF!Rows, PDF!Number, PDF!Go, PDF!table,
     PDF!marks
<1>3. PDF!Exports'
  BY DEF PDF!IInv, PDF!Shape, PDF!Holds, PDF!Exports, PDF!Rows, PDF!Deletions, PDF!Number, PDF!Go,
     PDF!table, PDF!marks
<1>4. PDF!Removed'
  BY DEF PDF!IInv, PDF!Shape, PDF!Holds, PDF!Exports, PDF!Removed, PDF!Number, PDF!Go, PDF!table,
     PDF!marks
<1>5. PDF!Agree'
  BY DEF PDF!IInv, PDF!Shape, PDF!Holds, PDF!Exports, PDF!Removed, PDF!Agree, PDF!Deleting,
     PDF!Rows, PDF!Number, PDF!Go, PDF!table, PDF!marks
<1>. QED  BY <1>1, <1>2, <1>3, <1>4, <1>5 DEF PDF!IInv

(* The object comes before its row; what was half put goes to the catch. *)
LEMMA PutKeeps ==
    ASSUME PDF!IInv, NEW c \in Calls, PDF!Put(c)
    PROVE  PDF!IInv'
<1>1. PDF!Shape'
  <2>1. place' \in [Calls -> PDF!Places]
    BY DEF PDF!IInv, PDF!Shape, PDF!Places, PDF!Put, PDF!Go, PDF!table, PDF!marks
  <2>2. hand' \in [Calls -> PDF!Locals]
    BY DEF PDF!IInv, PDF!Shape, PDF!Locals, PDF!Kinds, PDF!Deletions, PDF!Rows, PDF!Put, PDF!Go,
       PDF!table, PDF!marks
  <2>3. object' \subseteq drawn' /\ drawn' \subseteq Files /\ PDF!Rows' \subseteq drawn'
    BY DEF PDF!IInv, PDF!Shape, PDF!Holds, PDF!Rows, PDF!Put, PDF!Go, PDF!table, PDF!marks
  <2>4. /\ row' \in [Files -> {"none", "available", "deleting", "missing"}]
        /\ revision' \in [Files -> Nat]
    BY DEF PDF!IInv, PDF!Shape, PDF!Put, PDF!Go, PDF!table, PDF!marks
  <2>5. lost' \subseteq Files /\ late' \subseteq Files /\ spoiled' \subseteq Files
    BY DEF PDF!IInv, PDF!Shape, PDF!Holds, PDF!Rows, PDF!Put, PDF!Go, PDF!table, PDF!marks
  <2>. QED  BY <2>1, <2>2, <2>3, <2>4, <2>5 DEF PDF!Shape
<1>2. PDF!Holds'
  BY DEF PDF!IInv, PDF!Shape, PDF!Holds, PDF!Deletions, PDF!Rows, PDF!Put, PDF!Go, PDF!table,
     PDF!marks
<1>3. PDF!Exports'
  BY DEF PDF!IInv, PDF!Shape, PDF!Holds, PDF!Exports, PDF!Rows, PDF!Deletions, PDF!Put, PDF!Go,
     PDF!table, PDF!marks
<1>4. PDF!Removed'
  BY DEF PDF!IInv, PDF!Shape, PDF!Holds, PDF!Exports, PDF!Removed, PDF!Put, PDF!Go, PDF!table,
     PDF!marks
<1>5. PDF!Agree'
  BY DEF PDF!IInv, PDF!Shape, PDF!Holds, PDF!Exports, PDF!Removed, PDF!Agree, PDF!Deleting,
     PDF!Rows, PDF!Put, PDF!Go, PDF!table, PDF!marks
<1>. QED  BY <1>1, <1>2, <1>3, <1>4, <1>5 DEF PDF!IInv

(* The row comes to a file whose object is there; if the answer is lost,   *)
(* the file is marked lost and the catch takes its object.                 *)
LEMMA InsertKeeps ==
    ASSUME PDF!IInv, NEW c \in Calls, PDF!Insert(c)
    PROVE  PDF!IInv'
<1>1. PDF!Shape'
  <2>1. place' \in [Calls -> PDF!Places]
    BY DEF PDF!IInv, PDF!Shape, PDF!Places, PDF!Insert, PDF!Inserted, PDF!Go, PDF!Ends,
       PDF!Fault, PDF!Idle
  <2>2. hand' \in [Calls -> PDF!Locals]
    BY DEF PDF!IInv, PDF!Shape, PDF!Locals, PDF!Kinds, PDF!Deletions, PDF!Rows, PDF!Insert,
       PDF!Inserted, PDF!Go, PDF!Ends, PDF!Fault, PDF!Idle
  <2>3. object' \subseteq drawn' /\ drawn' \subseteq Files /\ PDF!Rows' \subseteq drawn'
    BY DEF PDF!IInv, PDF!Shape, PDF!Holds, PDF!Rows, PDF!Insert, PDF!Inserted, PDF!Go, PDF!Ends,
       PDF!Fault, PDF!Idle
  <2>4. /\ row' \in [Files -> {"none", "available", "deleting", "missing"}]
        /\ revision' \in [Files -> Nat]
    BY DEF PDF!IInv, PDF!Shape, PDF!Locals, PDF!Insert, PDF!Inserted, PDF!Go, PDF!Ends,
       PDF!Fault, PDF!Idle
  <2>5. lost' \subseteq Files /\ late' \subseteq Files /\ spoiled' \subseteq Files
    BY DEF PDF!IInv, PDF!Shape, PDF!Holds, PDF!Rows, PDF!Insert, PDF!Inserted, PDF!Go, PDF!Ends,
       PDF!Fault, PDF!Idle
  <2>. QED  BY <2>1, <2>2, <2>3, <2>4, <2>5 DEF PDF!Shape
<1>2. PDF!Holds'
  BY DEF PDF!IInv, PDF!Shape, PDF!Holds, PDF!Deletions, PDF!Rows, PDF!Insert, PDF!Inserted,
     PDF!Go, PDF!Ends, PDF!Fault, PDF!Idle
<1>3. PDF!Exports'
  BY DEF PDF!IInv, PDF!Shape, PDF!Holds, PDF!Exports, PDF!Rows, PDF!Deletions, PDF!Insert,
     PDF!Inserted, PDF!Go, PDF!Ends, PDF!Fault, PDF!Idle
<1>4. PDF!Removed'
  BY DEF PDF!IInv, PDF!Shape, PDF!Holds, PDF!Exports, PDF!Removed, PDF!Insert, PDF!Inserted,
     PDF!Go, PDF!Ends, PDF!Fault, PDF!Idle
<1>5. PDF!Agree'
  BY DEF PDF!IInv, PDF!Shape, PDF!Holds, PDF!Exports, PDF!Removed, PDF!Agree, PDF!Deleting,
     PDF!Rows, PDF!Insert, PDF!Inserted, PDF!Go, PDF!Ends, PDF!Fault, PDF!Idle
<1>. QED  BY <1>1, <1>2, <1>3, <1>4, <1>5 DEF PDF!IInv

(* The catch takes an object without a row, or one marked lost. *)
LEMMA UndoKeeps ==
    ASSUME PDF!IInv, NEW c \in Calls, PDF!Undo(c)
    PROVE  PDF!IInv'
<1>1. PDF!Shape'
  <2>1. place' \in [Calls -> PDF!Places]
    BY DEF PDF!IInv, PDF!Shape, PDF!Places, PDF!Undo, PDF!Undone, PDF!Ends, PDF!Fault, PDF!Idle,
       PDF!table
  <2>2. hand' \in [Calls -> PDF!Locals]
    BY DEF PDF!IInv, PDF!Shape, PDF!Locals, PDF!Kinds, PDF!Deletions, PDF!Rows, PDF!Undo,
       PDF!Undone, PDF!Ends, PDF!Fault, PDF!Idle, PDF!table
  <2>3. object' \subseteq drawn' /\ drawn' \subseteq Files /\ PDF!Rows' \subseteq drawn'
    BY DEF PDF!IInv, PDF!Shape, PDF!Holds, PDF!Rows, PDF!Undo, PDF!Undone, PDF!Ends, PDF!Fault,
       PDF!Idle, PDF!table
  <2>4. /\ row' \in [Files -> {"none", "available", "deleting", "missing"}]
        /\ revision' \in [Files -> Nat]
    BY DEF PDF!IInv, PDF!Shape, PDF!Undo, PDF!Undone, PDF!Ends, PDF!Fault, PDF!Idle, PDF!table
  <2>5. lost' \subseteq Files /\ late' \subseteq Files /\ spoiled' \subseteq Files
    BY DEF PDF!IInv, PDF!Shape, PDF!Holds, PDF!Rows, PDF!Undo, PDF!Undone, PDF!Ends, PDF!Fault,
       PDF!Idle, PDF!table
  <2>. QED  BY <2>1, <2>2, <2>3, <2>4, <2>5 DEF PDF!Shape
<1>2. PDF!Holds'
  BY DEF PDF!IInv, PDF!Shape, PDF!Holds, PDF!Deletions, PDF!Rows, PDF!Undo, PDF!Undone, PDF!Ends,
     PDF!Fault, PDF!Idle, PDF!table
<1>3. PDF!Exports'
  BY DEF PDF!IInv, PDF!Shape, PDF!Holds, PDF!Exports, PDF!Rows, PDF!Deletions, PDF!Undo,
     PDF!Undone, PDF!Ends, PDF!Fault, PDF!Idle, PDF!table
<1>4. PDF!Removed'
  BY DEF PDF!IInv, PDF!Shape, PDF!Holds, PDF!Exports, PDF!Removed, PDF!Undo, PDF!Undone, PDF!Ends,
     PDF!Fault, PDF!Idle, PDF!table
<1>5. PDF!Agree'
  BY DEF PDF!IInv, PDF!Shape, PDF!Holds, PDF!Exports, PDF!Removed, PDF!Agree, PDF!Deleting,
     PDF!Rows, PDF!Undo, PDF!Undone, PDF!Ends, PDF!Fault, PDF!Idle, PDF!table
<1>. QED  BY <1>1, <1>2, <1>3, <1>4, <1>5 DEF PDF!IInv

LEMMA StartReadKeeps ==
    ASSUME PDF!IInv, NEW c \in Calls, NEW f \in Files, NEW call \in {"read", "select"},
           PDF!StartRead(c, f, call)
    PROVE  PDF!IInv'
<1>1. PDF!Shape'
  <2>1. place' \in [Calls -> PDF!Places]
    BY DEF PDF!IInv, PDF!Shape, PDF!Places, PDF!StartRead, PDF!Starts, PDF!Go, PDF!table,
       PDF!marks, PDF!Idle
  <2>2. hand' \in [Calls -> PDF!Locals]
    BY DEF PDF!IInv, PDF!Shape, PDF!Locals, PDF!Kinds, PDF!Deletions, PDF!Rows, PDF!StartRead,
       PDF!Starts, PDF!Go, PDF!table, PDF!marks, PDF!Idle
  <2>3. object' \subseteq drawn' /\ drawn' \subseteq Files /\ PDF!Rows' \subseteq drawn'
    BY DEF PDF!IInv, PDF!Shape, PDF!Holds, PDF!Rows, PDF!StartRead, PDF!Starts, PDF!Go,
       PDF!table, PDF!marks, PDF!Idle
  <2>4. /\ row' \in [Files -> {"none", "available", "deleting", "missing"}]
        /\ revision' \in [Files -> Nat]
    BY DEF PDF!IInv, PDF!Shape, PDF!StartRead, PDF!Starts, PDF!Go, PDF!table, PDF!marks, PDF!Idle
  <2>5. lost' \subseteq Files /\ late' \subseteq Files /\ spoiled' \subseteq Files
    BY DEF PDF!IInv, PDF!Shape, PDF!Holds, PDF!Rows, PDF!StartRead, PDF!Starts, PDF!Go,
       PDF!table, PDF!marks, PDF!Idle
  <2>. QED  BY <2>1, <2>2, <2>3, <2>4, <2>5 DEF PDF!Shape
<1>2. PDF!Holds'
  BY DEF PDF!IInv, PDF!Shape, PDF!Holds, PDF!Deletions, PDF!Rows, PDF!StartRead, PDF!Starts,
     PDF!Go, PDF!table, PDF!marks, PDF!Idle
<1>3. PDF!Exports'
  BY DEF PDF!IInv, PDF!Shape, PDF!Holds, PDF!Exports, PDF!Rows, PDF!Deletions, PDF!StartRead,
     PDF!Starts, PDF!Go, PDF!table, PDF!marks, PDF!Idle
<1>4. PDF!Removed'
  BY DEF PDF!IInv, PDF!Shape, PDF!Holds, PDF!Exports, PDF!Removed, PDF!StartRead, PDF!Starts,
     PDF!Go, PDF!table, PDF!marks, PDF!Idle
<1>5. PDF!Agree'
  BY DEF PDF!IInv, PDF!Shape, PDF!Holds, PDF!Exports, PDF!Removed, PDF!Agree, PDF!Deleting,
     PDF!Rows, PDF!StartRead, PDF!Starts, PDF!Go, PDF!table, PDF!marks, PDF!Idle
<1>. QED  BY <1>1, <1>2, <1>3, <1>4, <1>5 DEF PDF!IInv

LEMMA GetKeeps ==
    ASSUME PDF!IInv, NEW c \in Calls, PDF!Get(c)
    PROVE  PDF!IInv'
<1>1. PDF!Shape'
  <2>1. place' \in [Calls -> PDF!Places]
    BY DEF PDF!IInv, PDF!Shape, PDF!Places, PDF!Get, PDF!Go, PDF!Ends, PDF!Idle, PDF!table,
       PDF!marks
  <2>2. hand' \in [Calls -> PDF!Locals]
    BY DEF PDF!IInv, PDF!Shape, PDF!Locals, PDF!Kinds, PDF!Deletions, PDF!Rows, PDF!Get, PDF!Go,
       PDF!Ends, PDF!Idle, PDF!table, PDF!marks
  <2>3. object' \subseteq drawn' /\ drawn' \subseteq Files /\ PDF!Rows' \subseteq drawn'
    BY DEF PDF!IInv, PDF!Shape, PDF!Holds, PDF!Rows, PDF!Get, PDF!Go, PDF!Ends, PDF!Idle,
       PDF!table, PDF!marks
  <2>4. /\ row' \in [Files -> {"none", "available", "deleting", "missing"}]
        /\ revision' \in [Files -> Nat]
    BY DEF PDF!IInv, PDF!Shape, PDF!Get, PDF!Go, PDF!Ends, PDF!Idle, PDF!table, PDF!marks
  <2>5. lost' \subseteq Files /\ late' \subseteq Files /\ spoiled' \subseteq Files
    BY DEF PDF!IInv, PDF!Shape, PDF!Holds, PDF!Rows, PDF!Get, PDF!Go, PDF!Ends, PDF!Idle,
       PDF!table, PDF!marks
  <2>. QED  BY <2>1, <2>2, <2>3, <2>4, <2>5 DEF PDF!Shape
<1>2. PDF!Holds'
  BY DEF PDF!IInv, PDF!Shape, PDF!Holds, PDF!Deletions, PDF!Rows, PDF!Get, PDF!Go, PDF!Ends,
     PDF!Idle, PDF!table, PDF!marks
<1>3. PDF!Exports'
  BY DEF PDF!IInv, PDF!Shape, PDF!Holds, PDF!Exports, PDF!Rows, PDF!Deletions, PDF!Get, PDF!Go,
     PDF!Ends, PDF!Idle, PDF!table, PDF!marks
<1>4. PDF!Removed'
  BY DEF PDF!IInv, PDF!Shape, PDF!Holds, PDF!Exports, PDF!Removed, PDF!Get, PDF!Go, PDF!Ends,
     PDF!Idle, PDF!table, PDF!marks
<1>5. PDF!Agree'
  BY DEF PDF!IInv, PDF!Shape, PDF!Holds, PDF!Exports, PDF!Removed, PDF!Agree, PDF!Deleting,
     PDF!Rows, PDF!Get, PDF!Go, PDF!Ends, PDF!Idle, PDF!table, PDF!marks
<1>. QED  BY <1>1, <1>2, <1>3, <1>4, <1>5 DEF PDF!IInv

(* What is called missing is missing: an object never comes back. *)
LEMMA MissKeeps ==
    ASSUME PDF!IInv, NEW c \in Calls, PDF!Miss(c)
    PROVE  PDF!IInv'
<1>1. PDF!Shape'
  <2>1. place' \in [Calls -> PDF!Places]
    BY DEF PDF!IInv, PDF!Shape, PDF!Places, PDF!Miss, PDF!Ends, PDF!Idle, PDF!marks
  <2>2. hand' \in [Calls -> PDF!Locals]
    BY DEF PDF!IInv, PDF!Shape, PDF!Locals, PDF!Kinds, PDF!Deletions, PDF!Rows, PDF!Miss,
       PDF!Ends, PDF!Idle, PDF!marks
  <2>3. object' \subseteq drawn' /\ drawn' \subseteq Files /\ PDF!Rows' \subseteq drawn'
    BY DEF PDF!IInv, PDF!Shape, PDF!Holds, PDF!Rows, PDF!Miss, PDF!Ends, PDF!Idle, PDF!marks
  <2>4. /\ row' \in [Files -> {"none", "available", "deleting", "missing"}]
        /\ revision' \in [Files -> Nat]
    BY DEF PDF!IInv, PDF!Shape, PDF!Miss, PDF!Ends, PDF!Idle, PDF!marks
  <2>5. lost' \subseteq Files /\ late' \subseteq Files /\ spoiled' \subseteq Files
    BY DEF PDF!IInv, PDF!Shape, PDF!Holds, PDF!Rows, PDF!Miss, PDF!Ends, PDF!Idle, PDF!marks
  <2>. QED  BY <2>1, <2>2, <2>3, <2>4, <2>5 DEF PDF!Shape
<1>2. PDF!Holds'
  BY DEF PDF!IInv, PDF!Shape, PDF!Holds, PDF!Deletions, PDF!Rows, PDF!Miss, PDF!Ends, PDF!Idle,
     PDF!marks
<1>3. PDF!Exports'
  BY DEF PDF!IInv, PDF!Shape, PDF!Holds, PDF!Exports, PDF!Rows, PDF!Deletions, PDF!Miss, PDF!Ends,
     PDF!Idle, PDF!marks
<1>4. PDF!Removed'
  BY DEF PDF!IInv, PDF!Shape, PDF!Holds, PDF!Exports, PDF!Removed, PDF!Miss, PDF!Ends, PDF!Idle,
     PDF!marks
<1>5. PDF!Agree'
  BY DEF PDF!IInv, PDF!Shape, PDF!Holds, PDF!Exports, PDF!Removed, PDF!Agree, PDF!Deleting,
     PDF!Rows, PDF!Miss, PDF!Ends, PDF!Idle, PDF!marks
<1>. QED  BY <1>1, <1>2, <1>3, <1>4, <1>5 DEF PDF!IInv

LEMMA SelectKeeps ==
    ASSUME PDF!IInv, NEW c \in Calls, PDF!Select(c)
    PROVE  PDF!IInv'
<1>1. PDF!Shape'
  <2>1. place' \in [Calls -> PDF!Places]
    BY DEF PDF!IInv, PDF!Shape, PDF!Places, PDF!Select, PDF!Ends, PDF!Idle, PDF!marks
  <2>2. hand' \in [Calls -> PDF!Locals]
    BY DEF PDF!IInv, PDF!Shape, PDF!Locals, PDF!Kinds, PDF!Deletions, PDF!Rows, PDF!Select,
       PDF!Ends, PDF!Idle, PDF!marks
  <2>3. object' \subseteq drawn' /\ drawn' \subseteq Files /\ PDF!Rows' \subseteq drawn'
    BY DEF PDF!IInv, PDF!Shape, PDF!Holds, PDF!Rows, PDF!Select, PDF!Ends, PDF!Idle, PDF!marks
  <2>4. /\ row' \in [Files -> {"none", "available", "deleting", "missing"}]
        /\ revision' \in [Files -> Nat]
    BY DEF PDF!IInv, PDF!Shape, PDF!Select, PDF!Ends, PDF!Idle, PDF!marks
  <2>5. lost' \subseteq Files /\ late' \subseteq Files /\ spoiled' \subseteq Files
    BY DEF PDF!IInv, PDF!Shape, PDF!Holds, PDF!Rows, PDF!Select, PDF!Ends, PDF!Idle, PDF!marks
  <2>. QED  BY <2>1, <2>2, <2>3, <2>4, <2>5 DEF PDF!Shape
<1>2. PDF!Holds'
  BY DEF PDF!IInv, PDF!Shape, PDF!Holds, PDF!Deletions, PDF!Rows, PDF!Select, PDF!Ends, PDF!Idle,
     PDF!marks
<1>3. PDF!Exports'
  BY DEF PDF!IInv, PDF!Shape, PDF!Holds, PDF!Exports, PDF!Rows, PDF!Deletions, PDF!Select,
     PDF!Ends, PDF!Idle, PDF!marks
<1>4. PDF!Removed'
  BY DEF PDF!IInv, PDF!Shape, PDF!Holds, PDF!Exports, PDF!Removed, PDF!Select, PDF!Ends, PDF!Idle,
     PDF!marks
<1>5. PDF!Agree'
  BY DEF PDF!IInv, PDF!Shape, PDF!Holds, PDF!Exports, PDF!Removed, PDF!Agree, PDF!Deleting,
     PDF!Rows, PDF!Select, PDF!Ends, PDF!Idle, PDF!marks
<1>. QED  BY <1>1, <1>2, <1>3, <1>4, <1>5 DEF PDF!IInv

LEMMA StartDeleteKeeps ==
    ASSUME PDF!IInv, NEW c \in Calls, NEW f \in Files, PDF!StartDelete(c, f)
    PROVE  PDF!IInv'
<1>1. PDF!Shape'
  <2>1. place' \in [Calls -> PDF!Places]
    BY DEF PDF!IInv, PDF!Shape, PDF!Places, PDF!StartDelete, PDF!Starts, PDF!Go, PDF!table,
       PDF!marks, PDF!Idle
  <2>2. hand' \in [Calls -> PDF!Locals]
    BY DEF PDF!IInv, PDF!Shape, PDF!Locals, PDF!Kinds, PDF!Deletions, PDF!Rows, PDF!StartDelete,
       PDF!Starts, PDF!Go, PDF!table, PDF!marks, PDF!Idle
  <2>3. object' \subseteq drawn' /\ drawn' \subseteq Files /\ PDF!Rows' \subseteq drawn'
    BY DEF PDF!IInv, PDF!Shape, PDF!Holds, PDF!Rows, PDF!StartDelete, PDF!Starts, PDF!Go,
       PDF!table, PDF!marks, PDF!Idle
  <2>4. /\ row' \in [Files -> {"none", "available", "deleting", "missing"}]
        /\ revision' \in [Files -> Nat]
    BY DEF PDF!IInv, PDF!Shape, PDF!StartDelete, PDF!Starts, PDF!Go, PDF!table, PDF!marks, PDF!Idle
  <2>5. lost' \subseteq Files /\ late' \subseteq Files /\ spoiled' \subseteq Files
    BY DEF PDF!IInv, PDF!Shape, PDF!Holds, PDF!Rows, PDF!StartDelete, PDF!Starts, PDF!Go,
       PDF!table, PDF!marks, PDF!Idle
  <2>. QED  BY <2>1, <2>2, <2>3, <2>4, <2>5 DEF PDF!Shape
<1>2. PDF!Holds'
  BY DEF PDF!IInv, PDF!Shape, PDF!Holds, PDF!Deletions, PDF!Rows, PDF!StartDelete, PDF!Starts,
     PDF!Go, PDF!table, PDF!marks, PDF!Idle
<1>3. PDF!Exports'
  BY DEF PDF!IInv, PDF!Shape, PDF!Holds, PDF!Exports, PDF!Rows, PDF!Deletions, PDF!StartDelete,
     PDF!Starts, PDF!Go, PDF!table, PDF!marks, PDF!Idle
<1>4. PDF!Removed'
  BY DEF PDF!IInv, PDF!Shape, PDF!Holds, PDF!Exports, PDF!Removed, PDF!StartDelete, PDF!Starts,
     PDF!Go, PDF!table, PDF!marks, PDF!Idle
<1>5. PDF!Agree'
  BY DEF PDF!IInv, PDF!Shape, PDF!Holds, PDF!Exports, PDF!Removed, PDF!Agree, PDF!Deleting,
     PDF!Rows, PDF!StartDelete, PDF!Starts, PDF!Go, PDF!table, PDF!marks, PDF!Idle
<1>. QED  BY <1>1, <1>2, <1>3, <1>4, <1>5 DEF PDF!IInv

(* The keys are those of rows, so no export's file is among them. *)
LEMMA StartDeleteAllKeeps ==
    ASSUME PDF!IInv, NEW c \in Calls, NEW call \in {"deleteAll", "deleteAccount"},
           PDF!StartDeleteAll(c, call)
    PROVE  PDF!IInv'
<1>1. PDF!Shape'
  <2>1. place' \in [Calls -> PDF!Places]
    BY DEF PDF!IInv, PDF!Shape, PDF!Places, PDF!StartDeleteAll, PDF!Starts, PDF!Go, PDF!table,
       PDF!marks, PDF!Idle
  <2>2. hand' \in [Calls -> PDF!Locals]
    BY DEF PDF!IInv, PDF!Shape, PDF!Locals, PDF!Kinds, PDF!Deletions, PDF!Rows,
       PDF!StartDeleteAll, PDF!Starts, PDF!Go, PDF!table, PDF!marks, PDF!Idle
  <2>3. object' \subseteq drawn' /\ drawn' \subseteq Files /\ PDF!Rows' \subseteq drawn'
    BY DEF PDF!IInv, PDF!Shape, PDF!Holds, PDF!Rows, PDF!StartDeleteAll, PDF!Starts, PDF!Go,
       PDF!table, PDF!marks, PDF!Idle
  <2>4. /\ row' \in [Files -> {"none", "available", "deleting", "missing"}]
        /\ revision' \in [Files -> Nat]
    BY DEF PDF!IInv, PDF!Shape, PDF!StartDeleteAll, PDF!Starts, PDF!Go, PDF!table, PDF!marks,
       PDF!Idle
  <2>5. lost' \subseteq Files /\ late' \subseteq Files /\ spoiled' \subseteq Files
    BY DEF PDF!IInv, PDF!Shape, PDF!Holds, PDF!Rows, PDF!StartDeleteAll, PDF!Starts, PDF!Go,
       PDF!table, PDF!marks, PDF!Idle
  <2>. QED  BY <2>1, <2>2, <2>3, <2>4, <2>5 DEF PDF!Shape
<1>2. PDF!Holds'
  BY DEF PDF!IInv, PDF!Shape, PDF!Holds, PDF!Deletions, PDF!Rows, PDF!StartDeleteAll, PDF!Starts,
     PDF!Go, PDF!table, PDF!marks, PDF!Idle
<1>3. PDF!Exports'
  <2>1. /\ hand'[c].keys = PDF!Rows /\ hand'[c].call \in PDF!Deletions /\ place'[c] \in {"mark", "erase"}
        /\ \A d \in Calls : d # c => place'[d] = place[d] /\ hand'[d] = hand[d]
    BY DEF PDF!IInv, PDF!Shape, PDF!StartDeleteAll, PDF!Starts, PDF!Go, PDF!Idle, PDF!Deletions
  <2>2. row' = row /\ object' = object /\ lost' = lost /\ PDF!Rows' = PDF!Rows
    BY DEF PDF!StartDeleteAll, PDF!Starts, PDF!table, PDF!marks, PDF!Rows
  <2>3. \A d \in Calls : row[hand[d].file] = "none" => hand[d].file \notin PDF!Rows
    BY DEF PDF!Rows
  <2>. QED  BY <2>1, <2>2, <2>3 DEF PDF!IInv, PDF!Exports
<1>4. PDF!Removed'
  BY DEF PDF!IInv, PDF!Shape, PDF!Holds, PDF!Exports, PDF!Removed, PDF!StartDeleteAll, PDF!Starts,
     PDF!Go, PDF!table, PDF!marks, PDF!Idle
<1>5. PDF!Agree'
  BY DEF PDF!IInv, PDF!Shape, PDF!Holds, PDF!Exports, PDF!Removed, PDF!Agree, PDF!Deleting,
     PDF!Rows, PDF!StartDeleteAll, PDF!Starts, PDF!Go, PDF!table, PDF!marks, PDF!Idle
<1>. QED  BY <1>1, <1>2, <1>3, <1>4, <1>5 DEF PDF!IInv

(* The rows marked are rows this deletion will reach again. *)
LEMMA MarkKeeps ==
    ASSUME PDF!IInv, NEW c \in Calls, PDF!Mark(c)
    PROVE  PDF!IInv'
<1>1. PDF!Shape'
  <2>1. place' \in [Calls -> PDF!Places]
    BY DEF PDF!IInv, PDF!Shape, PDF!Places, PDF!Mark, PDF!Reached, PDF!Becomes, PDF!Go, PDF!marks
  <2>2. hand' \in [Calls -> PDF!Locals]
    BY DEF PDF!IInv, PDF!Shape, PDF!Locals, PDF!Kinds, PDF!Deletions, PDF!Rows, PDF!Mark,
       PDF!Reached, PDF!Becomes, PDF!Go, PDF!marks
  <2>3. object' \subseteq drawn' /\ drawn' \subseteq Files /\ PDF!Rows' \subseteq drawn'
    BY DEF PDF!IInv, PDF!Shape, PDF!Holds, PDF!Rows, PDF!Mark, PDF!Reached, PDF!Becomes, PDF!Go,
       PDF!marks
  <2>4. /\ row' \in [Files -> {"none", "available", "deleting", "missing"}]
        /\ revision' \in [Files -> Nat]
    BY DEF PDF!IInv, PDF!Shape, PDF!Mark, PDF!Reached, PDF!Becomes, PDF!Go, PDF!marks
  <2>5. lost' \subseteq Files /\ late' \subseteq Files /\ spoiled' \subseteq Files
    BY DEF PDF!IInv, PDF!Shape, PDF!Holds, PDF!Rows, PDF!Mark, PDF!Reached, PDF!Becomes, PDF!Go,
       PDF!marks
  <2>. QED  BY <2>1, <2>2, <2>3, <2>4, <2>5 DEF PDF!Shape
<1>2. PDF!Holds'
  BY DEF PDF!IInv, PDF!Shape, PDF!Holds, PDF!Deletions, PDF!Rows, PDF!Mark, PDF!Reached,
     PDF!Becomes, PDF!Go, PDF!marks
<1>3. PDF!Exports'
  BY DEF PDF!IInv, PDF!Shape, PDF!Holds, PDF!Exports, PDF!Rows, PDF!Deletions, PDF!Mark,
     PDF!Reached, PDF!Becomes, PDF!Go, PDF!marks
<1>4. PDF!Removed'
  BY DEF PDF!IInv, PDF!Shape, PDF!Holds, PDF!Exports, PDF!Removed, PDF!Mark, PDF!Reached,
     PDF!Becomes, PDF!Go, PDF!marks
<1>5. PDF!Agree'
  BY DEF PDF!IInv, PDF!Shape, PDF!Holds, PDF!Exports, PDF!Removed, PDF!Agree, PDF!Deleting,
     PDF!Rows, PDF!Mark, PDF!Reached, PDF!Becomes, PDF!Go, PDF!marks
<1>. QED  BY <1>1, <1>2, <1>3, <1>4, <1>5 DEF PDF!IInv

(* The objects are gone and their rows will be erased, or what went is lost. *)
LEMMA RemoveKeeps ==
    ASSUME PDF!IInv, NEW c \in Calls, PDF!Remove(c)
    PROVE  PDF!IInv'
<1>1. PDF!Shape'
  <2>1. place' \in [Calls -> PDF!Places]
    BY DEF PDF!IInv, PDF!Shape, PDF!Places, PDF!Remove, PDF!Go, PDF!Ends, PDF!Fault, PDF!Idle,
       PDF!table
  <2>2. hand' \in [Calls -> PDF!Locals]
    BY DEF PDF!IInv, PDF!Shape, PDF!Locals, PDF!Kinds, PDF!Deletions, PDF!Rows, PDF!Remove,
       PDF!Go, PDF!Ends, PDF!Fault, PDF!Idle, PDF!table
  <2>3. object' \subseteq drawn' /\ drawn' \subseteq Files /\ PDF!Rows' \subseteq drawn'
    BY DEF PDF!IInv, PDF!Shape, PDF!Holds, PDF!Rows, PDF!Remove, PDF!Go, PDF!Ends, PDF!Fault,
       PDF!Idle, PDF!table
  <2>4. /\ row' \in [Files -> {"none", "available", "deleting", "missing"}]
        /\ revision' \in [Files -> Nat]
    BY DEF PDF!IInv, PDF!Shape, PDF!Remove, PDF!Go, PDF!Ends, PDF!Fault, PDF!Idle, PDF!table
  <2>5. lost' \subseteq Files /\ late' \subseteq Files /\ spoiled' \subseteq Files
    BY DEF PDF!IInv, PDF!Shape, PDF!Holds, PDF!Rows, PDF!Remove, PDF!Go, PDF!Ends, PDF!Fault,
       PDF!Idle, PDF!table
  <2>. QED  BY <2>1, <2>2, <2>3, <2>4, <2>5 DEF PDF!Shape
<1>2. PDF!Holds'
  BY DEF PDF!IInv, PDF!Shape, PDF!Holds, PDF!Deletions, PDF!Rows, PDF!Remove, PDF!Go, PDF!Ends,
     PDF!Fault, PDF!Idle, PDF!table
<1>3. PDF!Exports'
  BY DEF PDF!IInv, PDF!Shape, PDF!Holds, PDF!Exports, PDF!Rows, PDF!Deletions, PDF!Remove, PDF!Go,
     PDF!Ends, PDF!Fault, PDF!Idle, PDF!table
<1>4. PDF!Removed'
  BY DEF PDF!IInv, PDF!Shape, PDF!Holds, PDF!Exports, PDF!Removed, PDF!Remove, PDF!Go, PDF!Ends,
     PDF!Fault, PDF!Idle, PDF!table
<1>5. PDF!Agree'
  BY DEF PDF!IInv, PDF!Shape, PDF!Holds, PDF!Exports, PDF!Removed, PDF!Agree, PDF!Deleting,
     PDF!Rows, PDF!Remove, PDF!Go, PDF!Ends, PDF!Fault, PDF!Idle, PDF!table
<1>. QED  BY <1>1, <1>2, <1>3, <1>4, <1>5 DEF PDF!IInv

(* What is available again has its object, is lost, or is being erased. *)
LEMMA RestoreKeeps ==
    ASSUME PDF!IInv, NEW c \in Calls, PDF!Restore(c)
    PROVE  PDF!IInv'
<1>1. PDF!Shape'
  <2>1. place' \in [Calls -> PDF!Places]
    BY DEF PDF!IInv, PDF!Shape, PDF!Places, PDF!Restore, PDF!Restorable, PDF!Reached,
       PDF!Becomes, PDF!Ends, PDF!Fault, PDF!Idle
  <2>2. hand' \in [Calls -> PDF!Locals]
    BY DEF PDF!IInv, PDF!Shape, PDF!Locals, PDF!Kinds, PDF!Deletions, PDF!Rows, PDF!Restore,
       PDF!Restorable, PDF!Reached, PDF!Becomes, PDF!Ends, PDF!Fault, PDF!Idle
  <2>3. object' \subseteq drawn' /\ drawn' \subseteq Files /\ PDF!Rows' \subseteq drawn'
    BY DEF PDF!IInv, PDF!Shape, PDF!Holds, PDF!Rows, PDF!Restore, PDF!Restorable, PDF!Reached,
       PDF!Becomes, PDF!Ends, PDF!Fault, PDF!Idle
  <2>4. /\ row' \in [Files -> {"none", "available", "deleting", "missing"}]
        /\ revision' \in [Files -> Nat]
    BY DEF PDF!IInv, PDF!Shape, PDF!Restore, PDF!Restorable, PDF!Reached, PDF!Becomes, PDF!Ends,
       PDF!Fault, PDF!Idle
  <2>5. lost' \subseteq Files /\ late' \subseteq Files /\ spoiled' \subseteq Files
    BY DEF PDF!IInv, PDF!Shape, PDF!Holds, PDF!Rows, PDF!Restore, PDF!Restorable, PDF!Reached,
       PDF!Becomes, PDF!Ends, PDF!Fault, PDF!Idle
  <2>. QED  BY <2>1, <2>2, <2>3, <2>4, <2>5 DEF PDF!Shape
<1>2. PDF!Holds'
  BY DEF PDF!IInv, PDF!Shape, PDF!Holds, PDF!Deletions, PDF!Rows, PDF!Restore, PDF!Restorable,
     PDF!Reached, PDF!Becomes, PDF!Ends, PDF!Fault, PDF!Idle
<1>3. PDF!Exports'
  BY DEF PDF!IInv, PDF!Shape, PDF!Holds, PDF!Exports, PDF!Rows, PDF!Deletions, PDF!Restore,
     PDF!Restorable, PDF!Reached, PDF!Becomes, PDF!Ends, PDF!Fault, PDF!Idle
<1>4. PDF!Removed'
  BY DEF PDF!IInv, PDF!Shape, PDF!Holds, PDF!Exports, PDF!Removed, PDF!Restore, PDF!Restorable,
     PDF!Reached, PDF!Becomes, PDF!Ends, PDF!Fault, PDF!Idle
<1>5. PDF!Agree'
  BY DEF PDF!IInv, PDF!Shape, PDF!Holds, PDF!Exports, PDF!Removed, PDF!Agree, PDF!Deleting,
     PDF!Rows, PDF!Restore, PDF!Restorable, PDF!Reached, PDF!Becomes, PDF!Ends, PDF!Fault,
     PDF!Idle
<1>. QED  BY <1>1, <1>2, <1>3, <1>4, <1>5 DEF PDF!IInv

(* The rows erased had their objects removed, or were not among the keys. *)
LEMMA EraseKeeps ==
    ASSUME PDF!IInv, NEW c \in Calls, PDF!Erase(c)
    PROVE  PDF!IInv'
<1>1. PDF!Shape'
  <2>1. place' \in [Calls -> PDF!Places]
    BY DEF PDF!IInv, PDF!Shape, PDF!Places, PDF!Erase, PDF!Reached, PDF!Becomes, PDF!Ends,
       PDF!Fault, PDF!Idle
  <2>2. hand' \in [Calls -> PDF!Locals]
    BY DEF PDF!IInv, PDF!Shape, PDF!Locals, PDF!Kinds, PDF!Deletions, PDF!Rows, PDF!Erase,
       PDF!Reached, PDF!Becomes, PDF!Ends, PDF!Fault, PDF!Idle
  <2>3. object' \subseteq drawn' /\ drawn' \subseteq Files /\ PDF!Rows' \subseteq drawn'
    BY DEF PDF!IInv, PDF!Shape, PDF!Holds, PDF!Rows, PDF!Erase, PDF!Reached, PDF!Becomes,
       PDF!Ends, PDF!Fault, PDF!Idle
  <2>4. /\ row' \in [Files -> {"none", "available", "deleting", "missing"}]
        /\ revision' \in [Files -> Nat]
    BY DEF PDF!IInv, PDF!Shape, PDF!Erase, PDF!Reached, PDF!Becomes, PDF!Ends, PDF!Fault, PDF!Idle
  <2>5. lost' \subseteq Files /\ late' \subseteq Files /\ spoiled' \subseteq Files
    BY DEF PDF!IInv, PDF!Shape, PDF!Holds, PDF!Rows, PDF!Erase, PDF!Reached, PDF!Becomes,
       PDF!Ends, PDF!Fault, PDF!Idle
  <2>. QED  BY <2>1, <2>2, <2>3, <2>4, <2>5 DEF PDF!Shape
<1>2. PDF!Holds'
  BY DEF PDF!IInv, PDF!Shape, PDF!Holds, PDF!Deletions, PDF!Rows, PDF!Erase, PDF!Reached,
     PDF!Becomes, PDF!Ends, PDF!Fault, PDF!Idle
<1>3. PDF!Exports'
  BY DEF PDF!IInv, PDF!Shape, PDF!Holds, PDF!Exports, PDF!Rows, PDF!Deletions, PDF!Erase,
     PDF!Reached, PDF!Becomes, PDF!Ends, PDF!Fault, PDF!Idle
<1>4. PDF!Removed'
  BY DEF PDF!IInv, PDF!Shape, PDF!Holds, PDF!Exports, PDF!Removed, PDF!Erase, PDF!Reached,
     PDF!Becomes, PDF!Ends, PDF!Fault, PDF!Idle
<1>5. PDF!Agree'
  BY DEF PDF!IInv, PDF!Shape, PDF!Holds, PDF!Exports, PDF!Removed, PDF!Agree, PDF!Deleting,
     PDF!Rows, PDF!Erase, PDF!Reached, PDF!Becomes, PDF!Ends, PDF!Fault, PDF!Idle
<1>. QED  BY <1>1, <1>2, <1>3, <1>4, <1>5 DEF PDF!IInv

(* A dead call answers for what it reached. *)
LEMMA CallDiesKeeps ==
    ASSUME PDF!IInv, NEW c \in Calls, PDF!Dies(c)
    PROVE  PDF!IInv'
<1>1. PDF!Shape'
  <2>1. place' \in [Calls -> PDF!Places]
    BY DEF PDF!IInv, PDF!Shape, PDF!Places, PDF!Dies, PDF!Reached, PDF!Ends, PDF!Fault,
       PDF!Idle, PDF!table
  <2>2. hand' \in [Calls -> PDF!Locals]
    BY DEF PDF!IInv, PDF!Shape, PDF!Locals, PDF!Kinds, PDF!Deletions, PDF!Rows, PDF!Dies,
       PDF!Reached, PDF!Ends, PDF!Fault, PDF!Idle, PDF!table
  <2>3. object' \subseteq drawn' /\ drawn' \subseteq Files /\ PDF!Rows' \subseteq drawn'
    BY DEF PDF!IInv, PDF!Shape, PDF!Holds, PDF!Rows, PDF!Dies, PDF!Reached, PDF!Ends, PDF!Fault,
       PDF!Idle, PDF!table
  <2>4. /\ row' \in [Files -> {"none", "available", "deleting", "missing"}]
        /\ revision' \in [Files -> Nat]
    BY DEF PDF!IInv, PDF!Shape, PDF!Dies, PDF!Reached, PDF!Ends, PDF!Fault, PDF!Idle, PDF!table
  <2>5. lost' \subseteq Files /\ late' \subseteq Files /\ spoiled' \subseteq Files
    BY DEF PDF!IInv, PDF!Shape, PDF!Holds, PDF!Rows, PDF!Dies, PDF!Reached, PDF!Ends, PDF!Fault,
       PDF!Idle, PDF!table
  <2>. QED  BY <2>1, <2>2, <2>3, <2>4, <2>5 DEF PDF!Shape
<1>2. PDF!Holds'
  BY DEF PDF!IInv, PDF!Shape, PDF!Holds, PDF!Deletions, PDF!Rows, PDF!Dies, PDF!Reached, PDF!Ends,
     PDF!Fault, PDF!Idle, PDF!table
<1>3. PDF!Exports'
  BY DEF PDF!IInv, PDF!Shape, PDF!Holds, PDF!Exports, PDF!Rows, PDF!Deletions, PDF!Dies,
     PDF!Reached, PDF!Ends, PDF!Fault, PDF!Idle, PDF!table
<1>4. PDF!Removed'
  BY DEF PDF!IInv, PDF!Shape, PDF!Holds, PDF!Exports, PDF!Removed, PDF!Dies, PDF!Reached,
     PDF!Ends, PDF!Fault, PDF!Idle, PDF!table
<1>5. PDF!Agree'
  BY DEF PDF!IInv, PDF!Shape, PDF!Holds, PDF!Exports, PDF!Removed, PDF!Agree, PDF!Deleting,
     PDF!Rows, PDF!Dies, PDF!Reached, PDF!Ends, PDF!Fault, PDF!Idle, PDF!table
<1>. QED  BY <1>1, <1>2, <1>3, <1>4, <1>5 DEF PDF!IInv

-----------------------------------------------------------------------------
LEMMA FilesInitially == PDF!Init => PDF!IInv
<1>. SUFFICES ASSUME PDF!Init  PROVE PDF!IInv
  OBVIOUS
<1>1. PDF!Shape
  BY DEF PDF!Init, PDF!Shape, PDF!Rows, PDF!Places, PDF!Locals, PDF!Kinds, PDF!Idle
<1>. QED  BY <1>1 DEF PDF!IInv, PDF!Init, PDF!Holds, PDF!Exports, PDF!Removed, PDF!Agree

LEMMA FilesStay == PDF!IInv /\ [PDF!Next]_(PDF!vars) => PDF!IInv'
<1>. SUFFICES ASSUME PDF!IInv, [PDF!Next]_(PDF!vars)  PROVE PDF!IInv'
  OBVIOUS
<1>1. CASE UNCHANGED PDF!vars
  BY <1>1 DEF PDF!IInv, PDF!Shape, PDF!Holds, PDF!Exports, PDF!Removed, PDF!Agree, PDF!Deleting,
     PDF!Rows, PDF!vars, PDF!table, PDF!marks
<1>2. CASE PDF!Next
  BY <1>2, StartExportKeeps, NumberKeeps, PutKeeps, InsertKeeps, UndoKeeps, StartReadKeeps,
     GetKeeps, MissKeeps, SelectKeeps, StartDeleteKeeps, StartDeleteAllKeeps, MarkKeeps,
     RemoveKeeps, RestoreKeeps, EraseKeeps, CallDiesKeeps DEF PDF!Next
<1>. QED  BY <1>1, <1>2

(* The version selected, the account and the counts. *)
Chosen ==
    /\ selected \in Files \cup {None} /\ (selected # None => row[selected] # "none")
    /\ account \in BOOLEAN
    /\ count \in 0 .. MaxFileCalls /\ troubles \in 0 .. MaxFileFaults

(* A row goes only by a DELETE, which takes the selection along, and the   *)
(* foreign key keeps a version without a row from being selected.          *)
LEMMA ChosenStays ==
    ASSUME PDF!IInv, Chosen, [PDF!Next]_(PDF!vars)
    PROVE  Chosen'
<1>1. row \in [Files -> {"none", "available", "deleting", "missing"}]
  BY DEF PDF!IInv, PDF!Shape
<1>2. ASSUME NEW c \in Calls, PDF!Put(c) \/ PDF!Undo(c) \/ PDF!Get(c) \/ PDF!Number(c) \/ PDF!Remove(c) \/ PDF!Dies(c)
      PROVE  Chosen'
  <2>1. UNCHANGED <<row, selected, account, count>>
    BY <1>2 DEF PDF!Put, PDF!Undo, PDF!Get, PDF!Number, PDF!Remove, PDF!Dies, PDF!table
  <2>2. UNCHANGED troubles \/ PDF!Fault
    BY <1>2 DEF PDF!Put, PDF!Undo, PDF!Get, PDF!Number, PDF!Remove, PDF!Dies
  <2>. QED  BY <2>1, <2>2, FilesAssumption DEF Chosen, PDF!Fault
<1>3. ASSUME NEW c \in Calls, NEW p, NEW l, PDF!Starts(c, p, l)
      PROVE  Chosen'
  BY <1>3, FilesAssumption DEF Chosen, PDF!Starts, PDF!table
<1>4. ASSUME NEW c \in Calls, PDF!Insert(c) \/ PDF!Miss(c) \/ PDF!Mark(c) \/ PDF!Restore(c)
      PROVE  Chosen'
  <2>1. UNCHANGED <<selected, account, count>>
    BY <1>4 DEF PDF!Insert, PDF!Miss, PDF!Mark, PDF!Restore
  <2>2. UNCHANGED troubles \/ PDF!Fault
    BY <1>4 DEF PDF!Insert, PDF!Miss, PDF!Mark, PDF!Restore
  <2>3. \A f \in Files : row[f] # "none" => row'[f] # "none"
    BY <1>1, <1>4 DEF PDF!Insert, PDF!Inserted, PDF!Miss, PDF!Mark, PDF!Restore, PDF!Becomes
  <2>. QED  BY <2>1, <2>2, <2>3, FilesAssumption DEF Chosen, PDF!Fault
<1>5. ASSUME NEW c \in Calls, PDF!Select(c)
      PROVE  Chosen'
  <2>1. hand[c].file \in Files
    BY <1>5 DEF PDF!Select, PDF!IInv, PDF!Shape, PDF!Holds
  <2>. QED  BY <1>5, <2>1 DEF Chosen, PDF!Select
<1>6. ASSUME NEW c \in Calls, PDF!Erase(c)
      PROVE  Chosen'
  <2>1. CASE UNCHANGED <<row, selected, account>>
    BY <1>6, <2>1, FilesAssumption DEF Chosen, PDF!Erase, PDF!Fault
  <2>2. CASE /\ PDF!Becomes(PDF!Reached(c), "none")
             /\ selected' = IF selected \in PDF!Reached(c) THEN None ELSE selected
             /\ account' = (account /\ hand[c].call # "deleteAccount")
             /\ UNCHANGED troubles
    <3>1. account' \in BOOLEAN
      BY <2>2, Zenon
    <3>2. selected' \in Files \cup {None} /\ (selected' # None => row'[selected'] # "none")
      BY <1>1, <2>2 DEF Chosen, PDF!Becomes
    <3>3. UNCHANGED count
      BY <1>6 DEF PDF!Erase
    <3>. QED  BY <2>2, <3>1, <3>2, <3>3 DEF Chosen
  <2>. QED  BY <1>6, <2>1, <2>2 DEF PDF!Erase
<1>7. CASE UNCHANGED PDF!vars
  BY <1>7 DEF Chosen, PDF!vars, PDF!table
<1>8. CASE PDF!Next
  <2>1. PICK c \in Calls :
          \/ \E p, l : PDF!Starts(c, p, l)
          \/ PDF!Number(c) \/ PDF!Put(c) \/ PDF!Insert(c) \/ PDF!Undo(c) \/ PDF!Get(c) \/ PDF!Miss(c)
          \/ PDF!Select(c) \/ PDF!Mark(c) \/ PDF!Remove(c) \/ PDF!Restore(c) \/ PDF!Erase(c) \/ PDF!Dies(c)
    BY <1>8, Zenon DEF PDF!Next, PDF!StartExport, PDF!StartDelete, PDF!StartRead, PDF!StartDeleteAll
  <2>. QED  BY <1>2, <1>3, <1>4, <1>5, <1>6, <2>1
<1>. QED  BY <1>7, <1>8

LEMMA ChosenAlways == PDF!Spec => [](PDF!IInv /\ Chosen)
<1>1. PDF!Init => PDF!IInv /\ Chosen
  BY FilesInitially, FilesAssumption DEF PDF!Init, Chosen
<1>2. PDF!IInv /\ Chosen /\ [PDF!Next]_(PDF!vars) => PDF!IInv' /\ Chosen'
  BY FilesStay, ChosenStays
<1>. QED  BY <1>1, <1>2, PTL DEF PDF!Spec

(* A tailoring's selected version has its row, however selecting, marking  *)
(* and deleting overlap.                                                   *)
THEOREM SelectedIsThere == PDF!Spec => [](selected # None => row[selected] # "none")
<1>1. Chosen => (selected # None => row[selected] # "none")
  BY DEF Chosen
<1>. QED  BY <1>1, ChosenAlways, PTL

(* Rows, objects and what calls have in hand stay well typed, however they *)
(* overlap and fail.                                                       *)
THEOREM FilesTypeCorrect == PDF!Spec => []PDF!TypeOK
<1>1. PDF!IInv /\ Chosen => PDF!TypeOK
  BY DEF PDF!IInv, PDF!Shape, PDF!Locals, PDF!Kinds, Chosen, PDF!TypeOK
<1>. QED  BY <1>1, ChosenAlways, PTL

(* Whatever calls overlapped and failed: when none is under way the bucket *)
(* holds the PDFs the table names, but for what a dead call had in hand    *)
(* and for exports that landed under a deletion.                           *)
THEOREM BucketFollowsTable == PDF!Spec => []FilesMatchRows
<1>1. PDF!IInv => FilesMatchRows
  BY DEF FilesMatchRows, PDF!IInv, PDF!Shape, PDF!Agree, PDF!Deleting, PDF!FilesMatchRows
<1>. QED  BY <1>1, FilesInitially, FilesStay, PTL DEF PDF!Spec

-----------------------------------------------------------------------------
(* Signing in: a person has one account, and nothing the person saved or   *)
(* paid for is lost on the way to it.  The merge is a chain of statements  *)
(* with no transaction around them, so the invariant says at each place of *)
(* a sign-in what the statements so far have brought about (Rows,          *)
(* PlansKept), and that all sign-ins under way are to one account          *)
(* (Account), which is what keeps a second merge from carrying off what    *)
(* the first one brought.                                                  *)

(* The inductive invariant.                                                *)

AuthLocals == [device : Devices \cup {None}, user : Users \cup {None}, target : Users \cup {None},
               identity : Identities \cup {None}, found : BOOLEAN, folds : SUBSET Jobs, job : Jobs \cup {None},
               read : Nat \X Nat]

(* The places of a sign-in that knows whom it is for, those of one that    *)
(* merges, and those behind the guest's rows and behind its plan.          *)
Signing == {"pairs", "fold", "folding", "move", "plan", "planning", "sessions", "identities", "delete", "identity", "enter"}
Merges == Signing \ {"identity", "enter"}
PastRows == {"plan", "planning", "sessions", "identities", "delete", "identity", "enter"}
PastPlan == {"sessions", "identities", "delete", "identity", "enter"}

(* Whether call c merges its user, or has merged it, and is at one of these. *)
Leaves(c, places) == step[c] \in places /\ mine[c].user # mine[c].target

(* What a call holds, wherever it is. *)
CallOK(c) ==
    /\ step[c] # "off" => mine[c].device \in Devices /\ mine[c].user \in Users
    /\ step[c] \in {"find", "pairs"} \cup Signing => mine[c].identity \in Identities
    /\ step[c] \in Signing => mine[c].target \in Users
    /\ step[c] \in {"write", "folding"} => mine[c].job \in Jobs /\ mine[c].read[1] \in {1, 2}
    /\ step[c] = "folding" => mine[c].read[2] \in {1, 2}

Bounded == \E b \in Nat : /\ \A u \in Users : pro[u] <= b
                          /\ \A c \in SignIns : mine[c].read[1] <= b /\ mine[c].read[2] <= b

(* Users that are, or that somebody knows, were drawn; a device that is    *)
(* signed in has a session.                                                *)
Drawn ==
    /\ users \subseteq ids
    /\ \A d \in Devices : session[d] # None => session[d] \in ids
    /\ \A d \in signedIn : session[d] \in ids
    /\ \A i \in Identities : holds[i] # None => holds[i] \in ids
    /\ \A c \in SignIns : step[c] # "off" => mine[c].user \in ids
    /\ \A c \in SignIns : step[c] \in Signing => mine[c].target \in ids

AuthShape == Auth!TypeOK /\ Bounded /\ Drawn /\ \A c \in SignIns : CallOK(c)

(* One account: all sign-ins under way are to it, or one is the first. *)
SignsIn(c) ==
    /\ mine[c].target \in Auth!Linked \/ (Auth!Linked = {} /\ Auth!First(c) /\ mine[c].user = mine[c].target)
    /\ step[c] \in Merges => mine[c].user # mine[c].target

Account ==
    /\ \A s, t \in Auth!Linked : s = t
    /\ \A c \in SignIns : step[c] \in Signing => SignsIn(c)
    /\ Auth!Linked = {} => \A b, c \in SignIns : step[b] \in Signing /\ step[c] \in Signing => b = c
    /\ \A d \in signedIn : session[d] \in Auth!Linked

(* Every row is with a user that can be reached; none is left behind. *)
Rows ==
    /\ \A j \in Jobs \ behind : kept[j] > 0 => \E u \in Users : app[u][j] >= kept[j]
    /\ \A j \in Jobs \ behind, u \in Users : app[u][j] > 0 => u \in Auth!Reachable
    /\ \A c \in SignIns : Leaves(c, PastRows) => \A j \in Jobs \ behind : app[mine[c].user][j] = 0
    /\ \A c \in SignIns : Leaves(c, {"identity", "enter"}) => mine[c].user \notin users

PlansKept ==
    /\ bought > 0 => \E u \in Users : pro[u] >= bought
    /\ \A u \in Users : pro[u] > 0 => u \in Auth!Reachable
    /\ \A c \in SignIns : Leaves(c, PastPlan) => pro[mine[c].user] = 0

AuthInv == AuthShape /\ (~crossed => Account /\ Rows /\ (~missed => PlansKept))

-----------------------------------------------------------------------------
(* What a step of one call does to the calls.                              *)

(* Call c is at a place with these locals, the others where they were. *)
Turn(c, stop, locals) ==
    /\ step'[c] = stop /\ mine'[c] = locals
    /\ step' \in [SignIns -> Auth!Places] /\ mine' \in [SignIns -> AuthLocals]
    /\ \A b \in SignIns \ {c} : step'[b] = step[b] /\ mine'[b] = mine[b]

LEMMA IdleTyped == Auth!Idle \in AuthLocals /\ Auth!Idle.read[1] = 0 /\ Auth!Idle.read[2] = 0
BY DEF Auth!Idle, AuthLocals

LEMMA Turns ==
    ASSUME AuthShape, NEW c \in SignIns, NEW stop \in Auth!Places, NEW locals \in AuthLocals,
           Auth!Goes(c, stop), Auth!Notes(c, locals) \/ (UNCHANGED mine /\ locals = mine[c])
    PROVE  Turn(c, stop, locals)
BY DEF AuthShape, Auth!TypeOK, Auth!Goes, Auth!Notes, Turn, AuthLocals

LEMMA TurnsOff == ASSUME AuthShape, NEW c \in SignIns, Auth!Ends(c) PROVE Turn(c, "off", Auth!Idle)
BY Turns, IdleTyped DEF Auth!Ends, Auth!Places

(* Everything keeps its bound if what is new is bounded. *)
Known(x, n) ==
    \/ x <= n
    \/ \E u \in Users : x <= pro[u]
    \/ \E b \in SignIns : x <= mine[b].read[1] \/ x <= mine[b].read[2]

LEMMA StaysBounded ==
    ASSUME AuthShape, NEW n \in Nat, \A u \in Users : pro'[u] \in Nat /\ Known(pro'[u], n),
           mine' \in [SignIns -> AuthLocals], \A c \in SignIns : Known(mine'[c].read[1], n) /\ Known(mine'[c].read[2], n)
    PROVE  Bounded'
<1>1. PICK b \in Nat : /\ \A u \in Users : pro[u] <= b
                       /\ \A c \in SignIns : mine[c].read[1] <= b /\ mine[c].read[2] <= b
  BY DEF AuthShape, Bounded
<1>2. /\ \A u \in Users : pro[u] \in Nat
      /\ \A c \in SignIns : /\ mine[c].read[1] \in Nat /\ mine[c].read[2] \in Nat
                            /\ mine'[c].read[1] \in Nat /\ mine'[c].read[2] \in Nat
  BY DEF AuthShape, Auth!TypeOK, AuthLocals
<1>. DEFINE m == IF n > b THEN n ELSE b
<1>3. m \in Nat /\ n <= m /\ b <= m
  BY <1>1
<1>. HIDE DEF m
<1>4. \A x \in Nat : Known(x, n) => x <= m
  BY <1>1, <1>2, <1>3 DEF Known
<1>. QED  BY <1>2, <1>3, <1>4 DEF Bounded

LEMMA TurnDrawn ==
    ASSUME AuthShape, NEW c \in SignIns, NEW stop, NEW locals, Turn(c, stop, locals),
           ids \subseteq ids', users' \subseteq ids',
           \A d \in Devices : session'[d] \in ids' \/ session'[d] \in {session[d], None},
           \A d \in signedIn' : session'[d] \in ids' \/ (d \in signedIn /\ session'[d] = session[d]),
           \A i \in Identities : holds'[i] \in ids' \/ holds'[i] \in {holds[i], None},
           stop # "off" => locals.user \in ids', stop \in Signing => locals.target \in ids'
    PROVE  Drawn'
BY DEF AuthShape, Drawn, Turn

(* The shape, when one call takes a turn and its plans stay. *)
LEMMA TurnKeeps ==
    ASSUME AuthSetting, AuthShape, NEW c \in SignIns, NEW stop, NEW locals, Turn(c, stop, locals),
           CallOK(c)', Auth!TypeOK', Drawn', UNCHANGED pro,
           \A i \in {1, 2} : locals.read[i] <= 2 \/ locals.read[i] = mine[c].read[i]
               \/ \E u \in Users : locals.read[i] = pro[u]
    PROVE  AuthShape'
<1>1. \A b \in SignIns : CallOK(b)'
  BY DEF Turn, AuthShape, CallOK
<1>2. \A u \in Users : pro'[u] \in Nat /\ Known(pro'[u], 2)
  BY DEF AuthShape, Auth!TypeOK, Known
<1>3. \A b \in SignIns : mine[b].read[1] \in Nat /\ mine[b].read[2] \in Nat
  BY DEF AuthShape, Auth!TypeOK
<1>4. \A b \in SignIns : Known(mine'[b].read[1], 2) /\ Known(mine'[b].read[2], 2)
  <2>1. \A u \in Users : pro[u] \in Nat
    BY DEF AuthShape, Auth!TypeOK
  <2>2. Known(locals.read[1], 2) /\ Known(locals.read[2], 2)
    BY <1>3, <2>1 DEF Known
  <2>3. \A b \in SignIns \ {c} : Known(mine[b].read[1], 2) /\ Known(mine[b].read[2], 2)
    BY <1>3 DEF Known
  <2>. QED  BY <2>2, <2>3 DEF Turn
<1>5. Bounded'
  BY <1>2, <1>4, StaysBounded DEF Turn
<1>. QED  BY <1>1, <1>5 DEF AuthShape

-----------------------------------------------------------------------------
(* What leaves the account, the rows and the plans as they are.            *)

LEMMA Reach ==
    ASSUME AuthSetting, AuthShape, NEW u \in Users
    PROVE  /\ u \in Auth!Reachable <=> (\E d \in Devices : session[d] = u) \/ u \in Auth!Linked \/ u \in left
           /\ u \in Auth!Linked <=> \E i \in Identities : holds[i] = u
           /\ u \in Auth!Range(session) \cup Auth!Range(holds) <=> (\E d \in Devices : session[d] = u) \/ u \in Auth!Linked
BY DEF AuthSetting, AuthShape, Auth!TypeOK, Auth!Reachable, Auth!Linked, Auth!Range

LEMMA ReachStays ==
    ASSUME AuthSetting, AuthShape, AuthShape', UNCHANGED holds, left \subseteq left', NEW u \in Users,
           u \in Auth!Reachable,
           \A d \in Devices : session[d] = u => session'[d] = u \/ u \in Auth!Linked \/ u \in left'
    PROVE  u \in Auth!Reachable'
BY DEF AuthSetting, AuthShape, Auth!TypeOK, Auth!Reachable, Auth!Linked, Auth!Range

SignsOn(c) ==
    step'[c] \in Signing =>
          /\ mine'[c].target = mine[c].target /\ mine'[c].user = mine[c].user
          /\ (step'[c] = step[c] /\ mine'[c] = mine[c]) \/ step[c] \in Merges

LEMMA AccountStays ==
    ASSUME AuthShape, Account, UNCHANGED holds, \A c \in SignIns : SignsOn(c),
           signedIn' \subseteq signedIn, \A d \in signedIn' : session'[d] = session[d]
    PROVE  Account'
<1>1. Auth!Linked' = Auth!Linked
  BY DEF Auth!Linked
<1>2. \A c \in SignIns : step'[c] \in Signing => step[c] \in Signing
  BY DEF SignsOn, Merges
<1>3. ASSUME NEW c \in SignIns, step'[c] \in Signing PROVE SignsIn(c)'
  BY <1>1, <1>2, <1>3 DEF SignsOn, Account, SignsIn, Merges, Auth!First
<1>. QED  BY <1>1, <1>2, <1>3 DEF Account

LEMMA RowsStay ==
    ASSUME AuthShape, Rows, UNCHANGED <<app, kept>>, behind \subseteq behind',
           \A u \in Users, j \in Jobs \ behind : app[u][j] > 0 /\ u \in Auth!Reachable => u \in Auth!Reachable',
           \A c \in SignIns : Leaves(c, PastRows)' => Leaves(c, PastRows) /\ mine'[c].user = mine[c].user,
           \A c \in SignIns : Leaves(c, {"identity", "enter"})' => mine'[c].user \notin users'
    PROVE  Rows'
BY DEF Rows

LEMMA PlansStay ==
    ASSUME AuthShape, PlansKept, UNCHANGED <<pro, bought>>,
           \A u \in Users : pro[u] > 0 /\ u \in Auth!Reachable => u \in Auth!Reachable',
           \A c \in SignIns : Leaves(c, PastPlan)' => Leaves(c, PastPlan) /\ mine'[c].user = mine[c].user
    PROVE  PlansKept'
BY DEF PlansKept

(* Whom a call merges is not the account. *)
LEMMA NotLinked ==
    ASSUME Account, NEW c \in SignIns, step[c] \in Signing, mine[c].user # mine[c].target
    PROVE  mine[c].target \in Auth!Linked /\ mine[c].user \notin Auth!Linked
BY DEF Account, SignsIn

-----------------------------------------------------------------------------
(* Steps that change no row.                                               *)

LEMMA CallKeeps ==
    ASSUME AuthSetting, AuthInv, NEW c \in SignIns, NEW stop, NEW locals, Turn(c, stop, locals),
           CallOK(c)',
           UNCHANGED <<Auth!rows, ids, Auth!told, behind, missed, left>>, crossed' \in BOOLEAN, crossed => crossed',
           asked' \in 0 .. MaxSignIns, deaths' \in 0 .. MaxDeaths,
           stop # "off" => locals.user = mine[c].user /\ step[c] # "off",
           stop \in Signing => locals.target = mine[c].target /\ step[c] \in Signing,
           \A i \in {1, 2} : locals.read[i] <= 2 \/ locals.read[i] = mine[c].read[i]
               \/ \E u \in Users : locals.read[i] = pro[u],
           ~crossed' => SignsOn(c), Leaves(c, PastRows)' => Leaves(c, PastRows),
           Leaves(c, PastPlan)' => Leaves(c, PastPlan),
           Leaves(c, {"identity", "enter"})' => Leaves(c, {"identity", "enter"})
    PROVE  AuthInv'
<1>1. UNCHANGED <<users, app, pro, holds, session, signedIn, kept, bought>>
  BY DEF Auth!rows, Auth!told
<1>2. Auth!TypeOK'
  BY <1>1 DEF AuthInv, AuthShape, Auth!TypeOK, Turn, AuthLocals
<1>3. Drawn'
  <2>1. /\ stop # "off" => locals.user \in ids
        /\ stop \in Signing => locals.target \in ids
    BY DEF AuthInv, AuthShape, Drawn
  <2>. QED  BY <1>1, <2>1, TurnDrawn DEF AuthInv, AuthShape, Drawn
<1>4. AuthShape'
  BY <1>1, <1>2, <1>3, TurnKeeps DEF AuthInv
<1>5. ASSUME ~crossed' PROVE Account' /\ Rows' /\ (~missed' => PlansKept')
  <2>1. ~crossed /\ AuthShape /\ Account /\ Rows /\ (~missed => PlansKept)
    BY <1>5 DEF AuthInv
  <2>2. \A b \in SignIns : SignsOn(b)
    BY <1>5 DEF SignsOn, Turn
  <2>3. Account'
    BY <1>1, <2>1, <2>2, AccountStays
  <2>4. Auth!Reachable' = Auth!Reachable
    BY <1>1 DEF Auth!Reachable
  <2>5. \A b \in SignIns \ {c} : step'[b] = step[b] /\ mine'[b] = mine[b]
    BY DEF Turn
  <2>7. \A b \in SignIns : /\ Leaves(b, PastRows)' => Leaves(b, PastRows) /\ mine'[b].user = mine[b].user
                           /\ Leaves(b, PastPlan)' => Leaves(b, PastPlan) /\ mine'[b].user = mine[b].user
                           /\ Leaves(b, {"identity", "enter"})' => Leaves(b, {"identity", "enter"})
                              /\ mine'[b].user = mine[b].user
    BY <2>5 DEF Leaves, PastRows, PastPlan, Turn
  <2>8. Rows'
    BY <1>1, <2>1, <2>4, <2>7, RowsStay DEF Rows
  <2>9. ~missed' => PlansKept'
    BY <1>1, <2>1, <2>4, <2>7, PlansStay
  <2>. QED  BY <2>3, <2>8, <2>9
<1>. QED  BY <1>4, <1>5 DEF AuthInv

(* A call that ends without a row written. *)
LEMMA EndsKeeps ==
    ASSUME AuthSetting, AuthInv, NEW c \in SignIns, Auth!Ends(c), UNCHANGED <<Auth!rows, ids, Auth!told,
           Auth!marks>>,
           asked' \in 0 .. MaxSignIns, deaths' \in 0 .. MaxDeaths
    PROVE  AuthInv'
<1>1. Turn(c, "off", Auth!Idle)
  BY TurnsOff DEF AuthInv
<1>2. "off" \notin Signing /\ CallOK(c)' /\ SignsOn(c) /\ ~Leaves(c, PastRows)' /\ ~Leaves(c, PastPlan)'
      /\ ~Leaves(c, {"identity", "enter"})'
  BY <1>1 DEF Turn, CallOK, SignsOn, Signing, Leaves, PastRows, PastPlan
<1>3. \A i \in {1, 2} : Auth!Idle.read[i] <= 2
  BY IdleTyped
<1>. QED  BY <1>1, <1>2, <1>3, CallKeeps DEF Auth!marks, AuthInv, AuthShape, Auth!TypeOK

LEMMA ThrowsKeeps == ASSUME AuthSetting, AuthInv, NEW c \in SignIns, Auth!Throws(c) PROVE AuthInv'
BY EndsKeeps DEF Auth!Throws, AuthInv, AuthShape, Auth!TypeOK

LEMMA FindKeeps == ASSUME AuthSetting, AuthInv, NEW c \in SignIns, Auth!Find(c) PROVE AuthInv'
<1>. DEFINE m == mine[c]
            i == m.identity
            u == m.user
<1>1. PICK target \in Auth!Targets(i, u) :
         /\ Auth!Notes(c, [m EXCEPT !.target = target, !.found = holds[i] # None])
         /\ Auth!Goes(c, IF target = u THEN "identity" ELSE "pairs")
  BY DEF Auth!Find
<1>. DEFINE r == [m EXCEPT !.target = target, !.found = holds[i] # None]
            stop == IF target = u THEN "identity" ELSE "pairs"
<1>2. AuthShape /\ step[c] = "find" /\ m \in AuthLocals /\ i \in Identities /\ u \in Users
  BY DEF Auth!Find, AuthInv, AuthShape, CallOK, Auth!TypeOK, AuthLocals
<1>3. target \in Users
  <2>1. \A k \in Identities : holds[k] # None => holds[k] \in Users
    BY <1>2 DEF AuthShape, Auth!TypeOK
  <2>2. Auth!Linked \subseteq Users
    BY <2>1 DEF Auth!Linked
  <2>. QED  BY <1>2, <2>1, <2>2 DEF Auth!Targets
<1>4. r \in AuthLocals /\ r.user = u /\ r.target = target /\ r.found = (holds[i] # None)
      /\ r.read = m.read
      /\ r.device = m.device /\ r.identity = i
  BY <1>2, <1>3 DEF AuthLocals
<1>. HIDE DEF r
<1>5. Turn(c, stop, r)
  BY <1>1, <1>2, <1>4, Turns DEF r, Auth!Places
<1>6. CallOK(c)'
  BY <1>2, <1>3, <1>4, <1>5 DEF CallOK, Turn, AuthShape, Signing
<1>7. UNCHANGED <<Auth!rows, ids, asked, deaths, Auth!told, behind, missed, left>>
      /\ crossed' = (crossed \/ (Auth!Linked = {} /\ \E b \in SignIns \ {c} : Auth!First(b)))
  BY DEF Auth!Find
<1>8. Auth!TypeOK'
  BY <1>2, <1>5, <1>7 DEF AuthShape, Auth!TypeOK, Turn, AuthLocals, Auth!rows, Auth!told
<1>9. Drawn'
  <2>1. u \in ids /\ target \in ids
    BY <1>2 DEF AuthShape, Drawn, Auth!Targets, Auth!Linked
  <2>2. UNCHANGED <<users, session, signedIn, holds, ids>>
    BY <1>7 DEF Auth!rows
  <2>. QED  BY <1>2, <1>4, <1>5, <2>1, <2>2, TurnDrawn DEF AuthShape, Drawn
<1>10. AuthShape'
  BY <1>2, <1>4, <1>5, <1>6, <1>7, <1>8, <1>9, TurnKeeps DEF Auth!rows
<1>11. ASSUME ~crossed' PROVE Account' /\ Rows' /\ (~missed' => PlansKept')
  <2>1. ~crossed /\ Account /\ Rows /\ (~missed => PlansKept)
    BY <1>7, <1>11 DEF AuthInv
  <2>2. UNCHANGED <<users, app, pro, holds, session, signedIn, kept, bought>>
    BY <1>7 DEF Auth!rows, Auth!told
  <2>3. Auth!Linked' = Auth!Linked /\ Auth!Reachable' = Auth!Reachable
    BY <2>2, <1>7 DEF Auth!Linked, Auth!Reachable
  <2>4. \A b \in SignIns \ {c} : step'[b] = step[b] /\ mine'[b] = mine[b]
    BY <1>5 DEF Turn
  <2>5. \A b \in SignIns \ {c} : step[b] \in Signing => SignsIn(b)'
    BY <2>1, <2>3, <2>4 DEF Account, SignsIn, Auth!First
  <2>6. SignsIn(c)'
    <3>1. step'[c] = stop /\ mine'[c] = r
      BY <1>5 DEF Turn
    <3>2. target \in Auth!Linked \/ (Auth!Linked = {} /\ target = u /\ holds[i] = None)
      BY <1>2, <2>1 DEF Auth!Targets, Auth!Linked
    <3>. QED  BY <1>2, <1>4, <2>3, <3>1, <3>2 DEF SignsIn, Auth!First, Merges
  <2>7. Auth!Linked = {} => \A b \in SignIns \ {c} : step[b] \notin Signing
    BY <1>7, <1>11, <2>1 DEF Account, SignsIn
  <2>8. Account'
    BY <2>1, <2>2, <2>3, <2>4, <2>5, <2>6, <2>7 DEF Account
  <2>9. ~Leaves(c, PastRows)' /\ ~Leaves(c, PastPlan)' /\ ~Leaves(c, {"identity", "enter"})'
    BY <1>4, <1>5 DEF Leaves, Turn, PastRows, PastPlan
  <2>10. \A b \in SignIns : /\ Leaves(b, PastRows)' => Leaves(b, PastRows) /\ mine'[b].user = mine[b].user
                            /\ Leaves(b, PastPlan)' => Leaves(b, PastPlan) /\ mine'[b].user = mine[b].user
                            /\ Leaves(b, {"identity", "enter"})' => Leaves(b, {"identity", "enter"})
                               /\ mine'[b].user = mine[b].user
    BY <2>4, <2>9 DEF Leaves
  <2>11. Rows'
    BY <1>2, <1>7, <2>1, <2>2, <2>3, <2>10, RowsStay DEF Rows
  <2>12. ~missed' => PlansKept'
    BY <1>2, <1>7, <2>1, <2>2, <2>3, <2>10, PlansStay
  <2>. QED  BY <2>8, <2>11, <2>12
<1>. QED  BY <1>10, <1>11 DEF AuthInv

LEMMA PairsKeeps == ASSUME AuthSetting, AuthInv, NEW c \in SignIns, Auth!Pairs(c) PROVE AuthInv'
<1>. DEFINE m == mine[c]
            both == {j \in Jobs : app[m.user][j] > 0 /\ app[m.target][j] > 0}
            r == [m EXCEPT !.folds = both]
<1>1. AuthShape /\ step[c] = "pairs" /\ m \in AuthLocals /\ CallOK(c)
  BY DEF Auth!Pairs, AuthInv, AuthShape, Auth!TypeOK, AuthLocals
<1>2. r \in AuthLocals /\ r.user = m.user /\ r.target = m.target /\ r.read = m.read
      /\ r.device = m.device /\ r.identity = m.identity
  BY <1>1 DEF AuthLocals
<1>. HIDE DEF r
<1>3. Turn(c, "fold", r)
  BY <1>1, <1>2, Turns DEF Auth!Pairs, Auth!Places, r
<1>4. step[c] \in Signing /\ CallOK(c)' /\ SignsOn(c) /\ ~Leaves(c, PastRows)' /\ ~Leaves(c, PastPlan)'
      /\ ~Leaves(c, {"identity", "enter"})'
  BY <1>1, <1>2, <1>3 DEF Turn, CallOK, SignsOn, Signing, Merges, Leaves, PastRows, PastPlan
<1>. QED  BY <1>1, <1>2, <1>3, <1>4, CallKeeps DEF Auth!Pairs, Auth!marks, AuthShape, Auth!TypeOK

LEMMA FoldReadKeeps == ASSUME AuthSetting, AuthInv, NEW c \in SignIns, Auth!FoldRead(c) PROVE AuthInv'
<1>. DEFINE m == mine[c]
<1>1. AuthShape /\ step[c] = "fold" /\ m \in AuthLocals /\ CallOK(c) /\ asked \in 0 .. MaxSignIns
      /\ deaths \in 0 .. MaxDeaths
  BY DEF Auth!FoldRead, AuthInv, AuthShape, Auth!TypeOK, AuthLocals
<1>2. UNCHANGED <<Auth!rows, ids, asked, deaths, Auth!told, Auth!marks>>
  BY DEF Auth!FoldRead
<1>3. CASE Auth!Goes(c, "move") /\ UNCHANGED mine
  <2>1. Turn(c, "move", m)
    BY <1>1, <1>3, Turns DEF Auth!Places
  <2>2. step[c] \in Signing /\ CallOK(c)' /\ SignsOn(c) /\ ~Leaves(c, PastRows)'
        /\ ~Leaves(c, PastPlan)' /\ ~Leaves(c, {"identity", "enter"})'
    BY <1>1, <2>1 DEF Turn, CallOK, SignsOn, Signing, Merges, Leaves, PastRows, PastPlan
  <2>. QED  BY <1>1, <1>2, <2>1, <2>2, CallKeeps DEF Auth!marks, AuthShape, Auth!TypeOK
<1>4. ASSUME NEW j \in m.folds,
             LET read == <<app[m.user][j], app[m.target][j]>> IN
             /\ Auth!Goes(c, IF 0 \in {read[1], read[2]} THEN "fold" ELSE "folding")
             /\ Auth!Notes(c, [m EXCEPT !.folds = @ \ {j}, !.job = j, !.read = read])
      PROVE  AuthInv'
  <2>. DEFINE read == <<app[m.user][j], app[m.target][j]>>
              r == [m EXCEPT !.folds = @ \ {j}, !.job = j, !.read = read]
              stop == IF 0 \in {read[1], read[2]} THEN "fold" ELSE "folding"
  <2>1. j \in Jobs /\ m.user \in Users /\ m.target \in Users
    BY <1>1 DEF CallOK, Signing, AuthLocals
  <2>2. app[m.user][j] \in 0 .. 2 /\ app[m.target][j] \in 0 .. 2
    BY <1>1, <2>1 DEF AuthShape, Auth!TypeOK, Auth!Stages
  <2>3. r \in AuthLocals /\ r.user = m.user /\ r.target = m.target /\ r.device = m.device
        /\ r.identity = m.identity
        /\ r.job = j /\ r.read[1] = app[m.user][j] /\ r.read[2] = app[m.target][j]
    <3>1. read \in Nat \X Nat /\ m.folds \ {j} \in SUBSET Jobs
      BY <1>1, <2>2 DEF AuthLocals
    <3>2. r = [m EXCEPT !.folds = m.folds \ {j}, !.job = j, !.read = read]
      BY <1>1 DEF AuthLocals
    <3>. HIDE DEF read
    <3>3. r \in AuthLocals /\ r.user = m.user /\ r.target = m.target /\ r.device = m.device
          /\ r.identity = m.identity
          /\ r.job = j /\ r.read = read
      BY <1>1, <2>1, <3>1, <3>2 DEF AuthLocals
    <3>. QED  BY <3>3 DEF read
  <2>4. stop \in Auth!Places /\ (stop = "folding" => app[m.user][j] # 0 /\ app[m.target][j] # 0)
        /\ stop \in {"fold", "folding"}
    BY DEF Auth!Places
  <2>. HIDE DEF r, stop
  <2>5. Turn(c, stop, r)
    BY <1>1, <1>4, <2>3, <2>4, Turns DEF r, stop
  <2>6. step[c] \in Signing /\ CallOK(c)' /\ SignsOn(c) /\ ~Leaves(c, PastRows)'
        /\ ~Leaves(c, PastPlan)' /\ ~Leaves(c, {"identity", "enter"})'
    BY <1>1, <2>1, <2>2, <2>3, <2>4, <2>5 DEF Turn, CallOK, SignsOn, Signing, Merges, Leaves,
       PastRows, PastPlan
  <2>. QED  BY <1>1, <1>2, <2>2, <2>3, <2>4, <2>5, <2>6, CallKeeps DEF Auth!marks, AuthShape,
     Auth!TypeOK
<1>. QED  BY <1>3, <1>4 DEF Auth!FoldRead

LEMMA PlanReadKeeps == ASSUME AuthSetting, AuthInv, NEW c \in SignIns, Auth!PlanRead(c) PROVE AuthInv'
<1>. DEFINE m == mine[c]
            read == <<pro[m.user], pro[m.target]>>
            r == [m EXCEPT !.read = read]
<1>1. AuthShape /\ step[c] = "plan" /\ m \in AuthLocals /\ CallOK(c) /\ asked \in 0 .. MaxSignIns
      /\ deaths \in 0 .. MaxDeaths
  BY DEF Auth!PlanRead, AuthInv, AuthShape, Auth!TypeOK, AuthLocals
<1>2. m.user \in Users /\ m.target \in Users
  BY <1>1 DEF CallOK, Signing
<1>3. pro[m.user] \in Nat /\ pro[m.target] \in Nat
  BY <1>1, <1>2 DEF AuthShape, Auth!TypeOK
<1>4. r \in AuthLocals /\ r.user = m.user /\ r.target = m.target /\ r.device = m.device
      /\ r.identity = m.identity
      /\ r.read[1] = pro[m.user] /\ r.read[2] = pro[m.target]
  BY <1>1, <1>3 DEF AuthLocals
<1>. HIDE DEF r
<1>5. Turn(c, "planning", r)
  BY <1>1, <1>4, Turns DEF Auth!PlanRead, Auth!Places, r
<1>6. /\ step[c] \in Signing /\ CallOK(c)' /\ SignsOn(c)
      /\ Leaves(c, PastRows)' => Leaves(c, PastRows)
      /\ ~Leaves(c, PastPlan)' /\ ~Leaves(c, {"identity", "enter"})'
  BY <1>1, <1>4, <1>5 DEF Turn, CallOK, SignsOn, Signing, Merges, Leaves, PastRows, PastPlan
<1>. QED  BY <1>1, <1>2, <1>4, <1>5, <1>6, CallKeeps DEF Auth!PlanRead, Auth!marks, AuthShape,
   Auth!TypeOK

-----------------------------------------------------------------------------
(* Requests that come in, and writing down a job.                          *)

LEMMA ArrivesKeeps ==
    ASSUME AuthSetting, AuthInv, NEW c \in SignIns, NEW d \in Devices, NEW stop \in {"write", "find"},
           NEW locals \in AuthLocals,
           Auth!Arrives(c, d, stop, locals), locals.device = d, locals.read[1] <= 2, locals.read[2] <= 2,
           stop = "find" => locals.identity \in Identities,
           stop = "write" => locals.job \in Jobs /\ locals.read[1] \in {1, 2}
    PROVE  AuthInv'
<1>1. PICK u \in Users :
         /\ Auth!Notes(c, [locals EXCEPT !.user = u])
         /\ \/ u = session[d] /\ UNCHANGED <<users, session, ids>>
            \/ /\ session[d] = None /\ u \notin ids
               /\ users' = users \cup {u} /\ ids' = ids \cup {u}
               /\ session' = [session EXCEPT ![d] = u]
  BY DEF Auth!Arrives, AuthInv, AuthShape, Auth!TypeOK
<1>2. /\ step[c] = "off" /\ asked' \in 0 .. MaxSignIns /\ Auth!Goes(c, stop)
      /\ UNCHANGED <<app, pro, holds, signedIn, deaths, kept, bought, behind, missed, crossed, left>>
  BY DEF Auth!Arrives, AuthInv, AuthShape, Auth!TypeOK, AuthSetting, Auth!told, Auth!marks
<1>. DEFINE r == [locals EXCEPT !.user = u]
<1>3. r \in AuthLocals /\ r.user = u /\ r.device = d /\ r.read = locals.read
      /\ r.identity = locals.identity /\ r.job = locals.job
  BY DEF AuthLocals
<1>. HIDE DEF r
<1>4. Turn(c, stop, r)
  BY <1>1, <1>2, <1>3, Turns DEF Auth!Places, AuthInv, r
<1>5. CallOK(c)'
  BY <1>3, <1>4 DEF Turn, CallOK, Signing
<1>6. session' \in [Devices -> Users \cup {None}]
      /\ (\A x \in Devices : session'[x] = session[x] \/ (x = d /\ session[d] = None /\ session'[x] = u))
  BY <1>1 DEF AuthInv, AuthShape, Auth!TypeOK
<1>7. Auth!TypeOK'
  BY <1>1, <1>2, <1>4, <1>6 DEF AuthInv, AuthShape, Auth!TypeOK, Turn, AuthLocals
<1>8. u \in ids' /\ ids \subseteq ids' /\ users' \subseteq ids'
  BY <1>1, <1>2 DEF AuthInv, AuthShape, Drawn, Auth!TypeOK, AuthSetting
<1>9. Drawn'
  <2>1. \A x \in Devices : session'[x] \in ids' \/ session'[x] = session[x]
    BY <1>6, <1>8
  <2>2. stop \notin Signing
    BY DEF Signing
  <2>3. \A x \in signedIn' : session'[x] \in ids' \/ (x \in signedIn /\ session'[x] = session[x])
    BY <1>2, <2>1 DEF AuthInv, AuthShape, Auth!TypeOK
  <2>. QED  BY <1>2, <1>3, <1>4, <1>8, <2>1, <2>2, <2>3, TurnDrawn DEF AuthInv
<1>10. AuthShape'
  BY <1>2, <1>3, <1>4, <1>5, <1>7, <1>9, TurnKeeps DEF AuthInv
<1>11. ASSUME ~crossed' PROVE Account' /\ Rows' /\ (~missed' => PlansKept')
  <2>1. AuthShape /\ Account /\ Rows /\ (~missed => PlansKept)
    BY <1>2, <1>11 DEF AuthInv
  <2>2. \A b \in SignIns \ {c} : step'[b] = step[b] /\ mine'[b] = mine[b]
    BY <1>4 DEF Turn
  <2>3. \A b \in SignIns : SignsOn(b)
    BY <1>4, <2>2 DEF SignsOn, Turn, Signing
  <2>4. \A x \in signedIn : session'[x] = session[x]
    BY <1>6, <2>1 DEF Account, Auth!Linked, AuthShape, Auth!TypeOK
  <2>5. Account'
    BY <1>2, <2>1, <2>3, <2>4, AccountStays
  <2>6. \A w \in Users : w \in Auth!Reachable => w \in Auth!Reachable'
    BY <1>2, <1>6, <1>10, <2>1, ReachStays DEF AuthSetting
  <2>7. ~Leaves(c, PastRows)' /\ ~Leaves(c, PastPlan)' /\ ~Leaves(c, {"identity", "enter"})'
    BY <1>4 DEF Leaves, Turn, PastRows, PastPlan
  <2>8. \A b \in SignIns : Leaves(b, {"identity", "enter"})' => mine'[b].user \notin users'
    <3>1. ASSUME NEW b \in SignIns, Leaves(b, {"identity", "enter"})'
          PROVE  b # c /\ mine'[b] = mine[b] /\ mine[b].user \notin users /\ mine[b].user \in ids
      BY <2>1, <2>2, <2>7, <3>1 DEF Leaves, Rows, AuthShape, Drawn
    <3>. QED  BY <1>1, <3>1
  <2>9. \A b \in SignIns : /\ Leaves(b, PastRows)' => Leaves(b, PastRows) /\ mine'[b].user = mine[b].user
                           /\ Leaves(b, PastPlan)' => Leaves(b, PastPlan) /\ mine'[b].user = mine[b].user
    BY <2>2, <2>7 DEF Leaves
  <2>10. Rows'
    BY <1>2, <2>1, <2>6, <2>8, <2>9, RowsStay
  <2>11. ~missed' => PlansKept'
    BY <1>2, <2>1, <2>6, <2>9, PlansStay
  <2>. QED  BY <2>5, <2>10, <2>11
<1>. QED  BY <1>10, <1>11 DEF AuthInv

LEMMA StartWriteKeeps == ASSUME AuthSetting, AuthInv, NEW c \in SignIns, Auth!StartWrite(c) PROVE AuthInv'
<1>1. PICK d \in Devices, j \in Jobs, stage \in Auth!Stages \ {0} :
         Auth!Arrives(c, d, "write", [Auth!Idle EXCEPT !.device = d, !.job = j, !.read = <<stage, 0>>])
  BY DEF Auth!StartWrite
<1>. DEFINE r == [Auth!Idle EXCEPT !.device = d, !.job = j, !.read = <<stage, 0>>]
<1>2. stage \in {1, 2}
  BY DEF Auth!Stages
<1>3. r \in AuthLocals /\ r.device = d /\ r.job = j /\ r.read[1] = stage /\ r.read[2] = 0
  <2>1. <<stage, 0>> \in Nat \X Nat
    BY <1>2
  <2>. QED  BY <2>1, IdleTyped DEF AuthLocals
<1>4. Auth!Arrives(c, d, "write", r)
  BY <1>1
<1>. HIDE DEF r
<1>. QED  BY <1>2, <1>3, <1>4, ArrivesKeeps

LEMMA StartSignInKeeps == ASSUME AuthSetting, AuthInv, NEW c \in SignIns, Auth!StartSignIn(c)
                          PROVE  AuthInv'
<1>1. PICK d \in Devices, i \in Identities : Auth!Arrives(c, d, "find", [Auth!Idle EXCEPT !.device = d, !.identity = i])
  BY DEF Auth!StartSignIn
<1>. DEFINE r == [Auth!Idle EXCEPT !.device = d, !.identity = i]
<1>2. r \in AuthLocals /\ r.device = d /\ r.identity = i /\ r.read[1] = 0 /\ r.read[2] = 0
  BY DEF Auth!Idle, AuthLocals
<1>3. Auth!Arrives(c, d, "find", r)
  BY <1>1
<1>. HIDE DEF r
<1>. QED  BY <1>2, <1>3, ArrivesKeeps

LEMMA WriteKeeps == ASSUME AuthSetting, AuthInv, NEW c \in SignIns, Auth!Write(c) PROVE AuthInv'
<1>. DEFINE u == mine[c].user
            j == mine[c].job
            stage == mine[c].read[1]
<1>1. CASE Auth!Throws(c)
  BY <1>1, ThrowsKeeps
<1>2. CASE ~Auth!Throws(c)
  <2>1. /\ step[c] = "write" /\ u \in users /\ Auth!Ends(c)
        /\ app' = [app EXCEPT ![u][j] = Auth!Later(@, stage)]
           /\ kept' = [kept EXCEPT ![j] = Auth!Later(@, stage)]
        /\ behind' = behind \cup {k \in {j} : Auth!Passed(u)}
        /\ UNCHANGED <<users, pro, holds, session, signedIn, ids, asked, deaths, bought, missed, crossed, left>>
    BY <1>2 DEF Auth!Write
  <2>2. AuthShape /\ CallOK(c) /\ u \in Users /\ j \in Jobs /\ stage \in {1, 2}
    BY <2>1 DEF AuthInv, AuthShape, CallOK, Auth!TypeOK
  <2>3. Turn(c, "off", Auth!Idle)
    BY <2>1, <2>2, TurnsOff
  <2>4. CallOK(c)'
    BY <2>3 DEF Turn, CallOK, Signing
  <2>5. /\ app' \in [Users -> [Jobs -> Auth!Stages]] /\ kept' \in [Jobs -> Auth!Stages]
        /\ app'[u][j] = Auth!Later(app[u][j], stage) /\ kept'[j] = Auth!Later(kept[j], stage)
        /\ \A v \in Users, k \in Jobs : v # u \/ k # j => app'[v][k] = app[v][k]
        /\ \A k \in Jobs \ {j} : kept'[k] = kept[k]
    BY <2>1, <2>2 DEF AuthShape, Auth!TypeOK, Auth!Stages, Auth!Later
  <2>6. Auth!TypeOK'
    BY <2>1, <2>2, <2>3, <2>5 DEF AuthShape, Auth!TypeOK, Turn, AuthLocals
  <2>7. Drawn'
    <3>1. "off" \notin Signing /\ users \subseteq ids
      BY <2>2 DEF Signing, AuthShape, Drawn
    <3>. QED  BY <2>1, <2>2, <2>3, <3>1, TurnDrawn
  <2>8. AuthShape'
    BY <2>1, <2>2, <2>3, <2>4, <2>6, <2>7, IdleTyped, TurnKeeps
  <2>9. ASSUME ~crossed' PROVE Account' /\ Rows' /\ (~missed' => PlansKept')
    <3>1. Account /\ Rows /\ (~missed => PlansKept)
      BY <2>1, <2>9 DEF AuthInv
    <3>2. \A b \in SignIns \ {c} : step'[b] = step[b] /\ mine'[b] = mine[b]
      BY <2>3 DEF Turn
    <3>3. Account'
      <4>1. \A b \in SignIns : SignsOn(b)
        BY <2>3, <3>2 DEF SignsOn, Turn, Signing
      <4>. QED  BY <2>1, <2>2, <3>1, <4>1, AccountStays
    <3>4. Auth!Reachable' = Auth!Reachable
      BY <2>1 DEF Auth!Reachable
    <3>5. \A b \in SignIns : /\ Leaves(b, PastRows)' => Leaves(b, PastRows) /\ mine'[b].user = mine[b].user
                             /\ Leaves(b, PastPlan)' => Leaves(b, PastPlan) /\ mine'[b].user = mine[b].user
                             /\ Leaves(b, {"identity", "enter"})' => Leaves(b, {"identity", "enter"})
                                /\ mine'[b].user = mine[b].user
      BY <2>3, <3>2 DEF Leaves, Turn, PastRows, PastPlan
    <3>6. ~missed' => PlansKept'
      BY <2>1, <2>2, <3>1, <3>4, <3>5, PlansStay
    <3>7. j \notin behind' => u \in Auth!Reachable
              /\ \A b \in SignIns : ~Auth!Merging(b, u, {"plan", "planning", "sessions", "identities", "delete"})
      BY <2>1, <2>2, Reach DEF Auth!Passed
    <3>8. \A k \in Jobs : app'[u][k] >= app[u][k] /\ app[u][k] \in 0 .. 2 /\ app'[u][k] \in 0 .. 2
      BY <2>2, <2>5 DEF Auth!Later, AuthShape, Auth!TypeOK, Auth!Stages
    <3>9. \A k \in Jobs \ behind' : kept'[k] > 0 => \E v \in Users : app'[v][k] >= kept'[k]
      <4>. SUFFICES ASSUME NEW k \in Jobs \ behind', kept'[k] > 0
                    PROVE  \E v \in Users : app'[v][k] >= kept'[k]
        OBVIOUS
      <4>1. kept[k] \in 0 .. 2 /\ kept'[k] \in 0 .. 2
                /\ \A v \in Users : app[v][k] \in 0 .. 2 /\ app'[v][k] \in 0 .. 2 /\ app'[v][k] >= app[v][k]
        BY <2>2, <2>5, <3>8 DEF AuthShape, Auth!TypeOK, Auth!Stages
      <4>2. kept[k] > 0 => \E v \in Users : app[v][k] >= kept[k]
        BY <2>1, <3>1 DEF Rows
      <4>3. CASE kept'[k] = kept[k]
        BY <4>1, <4>2, <4>3
      <4>4. CASE kept'[k] # kept[k]
        BY <2>2, <2>5, <4>1, <4>4 DEF Auth!Later
      <4>. QED  BY <4>3, <4>4
    <3>10. \A k \in Jobs \ behind', v \in Users : app'[v][k] > 0 => v \in Auth!Reachable
      BY <2>1, <2>5, <3>1, <3>7 DEF Rows
    <3>11. ASSUME NEW b \in SignIns, Leaves(b, PastRows), NEW k \in Jobs \ behind'
           PROVE  app'[mine[b].user][k] = 0
      <4>1. app[mine[b].user][k] = 0 /\ mine[b].user \in Users
        BY <2>1, <2>2, <3>1, <3>11 DEF Rows, AuthShape, CallOK, Leaves, PastRows
      <4>2. CASE mine[b].user = u /\ k = j
        <5>1. step[b] \notin {"plan", "planning", "sessions", "identities", "delete"}
          BY <3>7, <3>11, <4>2 DEF Auth!Merging, Leaves
        <5>2. Leaves(b, {"identity", "enter"})
          BY <3>11, <5>1 DEF Leaves, PastRows
        <5>. QED  BY <2>1, <3>1, <4>2, <5>2 DEF Rows
      <4>3. CASE ~(mine[b].user = u /\ k = j)
        BY <2>2, <2>5, <4>1, <4>3
      <4>. QED  BY <4>2, <4>3
    <3>12. Rows'
      <4>1. \A b \in SignIns : Leaves(b, PastRows)' => \A k \in Jobs \ behind' : app'[mine'[b].user][k] = 0
        BY <3>5, <3>11
      <4>2. \A b \in SignIns : Leaves(b, {"identity", "enter"})' => mine'[b].user \notin users'
        BY <2>1, <3>1, <3>5 DEF Rows
      <4>. QED  BY <3>4, <3>9, <3>10, <4>1, <4>2 DEF Rows
    <3>. QED  BY <3>3, <3>6, <3>12
  <2>. QED  BY <2>8, <2>9 DEF AuthInv
<1>. QED  BY <1>1, <1>2

-----------------------------------------------------------------------------
(* The merge's writes.                                                     *)

(* A step of a merge that writes and goes on. *)
LEMMA MergeShape ==
    ASSUME AuthSetting, AuthInv, NEW c \in SignIns, step[c] \in Signing,
           NEW stop \in Signing \ {"folding"}, Auth!Goes(c, stop),
           UNCHANGED <<mine, ids, asked, deaths, Auth!told>>,
           users' \subseteq users, app' \in [Users -> [Jobs -> Auth!Stages]], pro' \in [Users -> Nat],
           \A u \in Users : pro'[u] = 0 \/ (\E v \in Users : pro'[u] = pro[v])
               \/ pro'[u] \in {mine[c].read[1], mine[c].read[2]},
           holds' \in [Identities -> Users \cup {None}], \A i \in Identities : holds'[i] \in {holds[i], None},
           session' \in [Devices -> Users \cup {None}], \A d \in Devices : session'[d] \in {session[d], None},
           signedIn' \subseteq signedIn, \A d \in signedIn' : session'[d] = session[d],
           behind' \subseteq Jobs, missed' \in BOOLEAN, UNCHANGED <<crossed, left>>
    PROVE  /\ AuthShape' /\ step'[c] = stop
           /\ \A b \in SignIns \ {c} : step'[b] = step[b]
<1>1. AuthShape /\ mine[c] \in AuthLocals /\ CallOK(c) /\ UNCHANGED <<kept, bought>>
  BY DEF AuthInv, AuthShape, Auth!TypeOK, AuthLocals, Auth!told
<1>2. Turn(c, stop, mine[c])
  BY <1>1, Turns DEF Auth!Places, Signing
<1>3. Auth!TypeOK'
  BY <1>1, <1>2 DEF AuthShape, Auth!TypeOK, Turn, AuthLocals
<1>4. \A b \in SignIns : CallOK(b)'
  BY <1>1, <1>2 DEF Turn, CallOK, AuthShape, Signing
<1>5. Drawn'
  <2>1. mine[c].user \in ids /\ mine[c].target \in ids /\ users \subseteq ids
    BY <1>1 DEF AuthShape, Drawn, Signing
  <2>. QED  BY <1>1, <1>2, <2>1, TurnDrawn
<1>6. Bounded'
  <2>1. /\ \A v \in Users : pro[v] \in Nat /\ pro'[v] \in Nat
        /\ \A b \in SignIns : mine[b].read[1] \in Nat /\ mine[b].read[2] \in Nat
    BY <1>1 DEF AuthShape, Auth!TypeOK
  <2>2. \A v \in Users : Known(pro'[v], 0)
    BY <2>1 DEF Known
  <2>3. \A b \in SignIns : Known(mine[b].read[1], 0) /\ Known(mine[b].read[2], 0)
    BY <2>1 DEF Known
  <2>. QED  BY <1>1, <1>2, <2>1, <2>2, <2>3, StaysBounded DEF Turn
<1>. QED  BY <1>2, <1>3, <1>4, <1>5, <1>6 DEF AuthShape, Turn

LEMMA MergeFacts ==
    ASSUME AuthSetting, AuthInv, NEW c \in SignIns, step[c] \in Merges
    PROVE  /\ mine[c].user \in Users /\ mine[c].target \in Users /\ step[c] \in Signing
           /\ ~crossed => /\ mine[c].user # mine[c].target /\ mine[c].target \in Auth!Linked
              /\ mine[c].user \notin Auth!Linked
                          /\ mine[c].target \in Auth!Reachable
<1>1. mine[c].user \in Users /\ mine[c].target \in Users /\ step[c] \in Signing
  BY DEF AuthInv, AuthShape, CallOK, Signing, Merges
<1>2. ASSUME ~crossed
      PROVE  mine[c].user # mine[c].target /\ mine[c].target \in Auth!Linked
             /\ mine[c].user \notin Auth!Linked
  BY <1>1, <1>2, NotLinked DEF AuthInv, Account, SignsIn
<1>. QED  BY <1>1, <1>2, Reach DEF AuthInv

(* SignIns whose merge is past its rows or plan are not disturbed by others. *)
LEMMA OthersLeave ==
    ASSUME NEW c \in SignIns, NEW stop, step'[c] = stop, UNCHANGED mine,
           \A b \in SignIns \ {c} : step'[b] = step[b], NEW S,
           stop \in S => step[c] \in S
    PROVE  \A b \in SignIns : Leaves(b, S)' => Leaves(b, S) /\ mine'[b].user = mine[b].user
BY DEF Leaves

LEMMA FoldWriteKeeps == ASSUME AuthSetting, AuthInv, NEW c \in SignIns, Auth!FoldWrite(c) PROVE AuthInv'
<1>. DEFINE u == mine[c].user
            t == mine[c].target
            j == mine[c].job
            read == mine[c].read
<1>1. CASE Auth!Throws(c)
  BY <1>1, ThrowsKeeps
<1>2. CASE ~Auth!Throws(c)
  <2>1. /\ step[c] = "folding" /\ app[t][j] # 0
        /\ app' = [app EXCEPT ![u][j] = 0, ![t][j] = Auth!Folded(read[1], read[2])]
        /\ behind' = behind \cup {k \in {j} : app[t][j] # read[2] \/ app[u][j] > read[1]}
        /\ Auth!Goes(c, "fold")
        /\ UNCHANGED <<users, pro, holds, session, signedIn, mine, ids, asked, deaths, Auth!told, missed, crossed, left>>
    BY <1>2 DEF Auth!FoldWrite
  <2>2. AuthShape /\ u \in Users /\ t \in Users /\ j \in Jobs /\ read[1] \in {1, 2}
        /\ read[2] \in {1, 2}
    BY <2>1 DEF AuthInv, AuthShape, CallOK, Signing
  <2>3. Auth!Folded(read[1], read[2]) \in {1, 2} /\ Auth!Folded(read[1], read[2]) >= read[1]
        /\ Auth!Folded(read[1], read[2]) >= read[2]
    BY <2>2 DEF Auth!Folded, Auth!HasApplied
  <2>4. /\ app' \in [Users -> [Jobs -> Auth!Stages]] /\ app'[t][j] = Auth!Folded(read[1], read[2])
        /\ u # t => app'[u][j] = 0
        /\ \A v \in Users, k \in Jobs : ~(v \in {u, t} /\ k = j) => app'[v][k] = app[v][k]
    <3>. PICK f : f = Auth!Folded(read[1], read[2])
      OBVIOUS
    <3>1. f \in Auth!Stages /\ 0 \in Auth!Stages
      BY <2>3 DEF Auth!Stages
    <3>2. app \in [Users -> [Jobs -> Auth!Stages]]
      BY <2>2 DEF AuthShape, Auth!TypeOK
    <3>3. PICK between : between = [app EXCEPT ![u][j] = 0]
      OBVIOUS
    <3>4. /\ between \in [Users -> [Jobs -> Auth!Stages]] /\ between[u][j] = 0
          /\ \A v \in Users, k \in Jobs : ~(v = u /\ k = j) => between[v][k] = app[v][k]
      BY <2>2, <3>1, <3>2, <3>3
    <3>5. app' = [between EXCEPT ![t][j] = f]
      BY <2>1, <3>3
    <3>. QED  BY <2>2, <3>1, <3>4, <3>5
  <2>5. AuthShape' /\ step'[c] = "fold" /\ \A b \in SignIns \ {c} : step'[b] = step[b]
    <3>1. /\ step[c] \in Signing /\ "fold" \in Signing \ {"folding"} /\ behind' \subseteq Jobs
             /\ UNCHANGED Auth!told
          /\ missed \in BOOLEAN /\ pro \in [Users -> Nat] /\ holds \in [Identities -> Users \cup {None}]
          /\ session \in [Devices -> Users \cup {None}]
      BY <2>1, <2>2 DEF Signing, AuthShape, Auth!TypeOK
    <3>. QED  BY <2>1, <2>4, <3>1, MergeShape
  <2>6. ASSUME ~crossed' PROVE Account' /\ Rows' /\ (~missed' => PlansKept')
    <3>1. Account /\ Rows /\ (~missed => PlansKept)
      BY <2>1, <2>6 DEF AuthInv
    <3>2. u # t /\ t \in Auth!Reachable
      BY <2>1, <2>6, MergeFacts DEF Merges, Signing
    <3>3. Account'
      <4>1. \A b \in SignIns : SignsOn(b)
        BY <2>1, <2>5 DEF SignsOn, Merges, Signing
      <4>. QED  BY <2>1, <2>2, <3>1, <4>1, AccountStays
    <3>4. Auth!Reachable' = Auth!Reachable /\ UNCHANGED <<kept, bought>>
      BY <2>1 DEF Auth!Reachable, Auth!told
    <3>5. ~missed' => PlansKept'
      <4>1. \A b \in SignIns : Leaves(b, PastPlan)' => Leaves(b, PastPlan) /\ mine'[b].user = mine[b].user
        BY <2>1, <2>5, OthersLeave DEF PastPlan
      <4>. QED  BY <2>1, <2>2, <3>1, <3>4, <4>1, PlansStay
    <3>6. \A k \in Jobs \ behind', v \in Users : \E w \in Users : app'[w][k] >= app[v][k]
      <4>. SUFFICES ASSUME NEW k \in Jobs \ behind', NEW v \in Users
                    PROVE  \E w \in Users : app'[w][k] >= app[v][k]
        OBVIOUS
      <4>1. app[v][k] \in 0 .. 2
        BY <2>2 DEF AuthShape, Auth!TypeOK, Auth!Stages
      <4>2. CASE v \in {u, t} /\ k = j
        <5>1. app[t][j] = read[2] /\ ~(app[u][j] > read[1]) /\ app[u][j] \in 0 .. 2
          BY <2>1, <2>2, <4>2 DEF AuthShape, Auth!TypeOK, Auth!Stages
        <5>2. app'[t][j] >= app[v][k]
          BY <2>2, <2>3, <2>4, <4>1, <4>2, <5>1
        <5>. QED  BY <2>2, <4>2, <5>2
      <4>3. CASE ~(v \in {u, t} /\ k = j)
        BY <2>4, <4>1, <4>3
      <4>. QED  BY <4>2, <4>3
    <3>7. \A k \in Jobs \ behind' : kept'[k] > 0 => \E v \in Users : app'[v][k] >= kept'[k]
      <4>. SUFFICES ASSUME NEW k \in Jobs \ behind', kept[k] > 0
                    PROVE  \E v \in Users : app'[v][k] >= kept[k]
        BY <3>4
      <4>1. PICK v \in Users : app[v][k] >= kept[k]
        BY <2>1, <3>1 DEF Rows
      <4>2. PICK w \in Users : app'[w][k] >= app[v][k]
        BY <3>6
      <4>3. app[v][k] \in Nat /\ app'[w][k] \in Nat /\ kept[k] \in Nat
        <5>1. \A x \in Auth!Stages : x \in Nat
          BY DEF Auth!Stages
        <5>. QED  BY <2>2, <2>4, <5>1 DEF AuthShape, Auth!TypeOK
      <4>. QED  BY <4>1, <4>2, <4>3
    <3>8. \A k \in Jobs \ behind', v \in Users : app'[v][k] > 0 => v \in Auth!Reachable
      BY <2>1, <2>4, <3>1, <3>2 DEF Rows
    <3>9. ASSUME NEW b \in SignIns, Leaves(b, PastRows)', NEW k \in Jobs \ behind'
          PROVE  app'[mine'[b].user][k] = 0
      <4>1. Leaves(b, PastRows) /\ mine'[b].user = mine[b].user
        BY <2>1, <2>5, <3>9, OthersLeave DEF PastRows
      <4>2. app[mine[b].user][k] = 0 /\ mine[b].user \in Users
        BY <2>1, <2>2, <3>1, <4>1 DEF Rows, AuthShape, CallOK, Leaves, PastRows
      <4>3. mine[b].user # t
        <5>1. mine[b].user \notin Auth!Linked
          BY <3>1, <4>1, NotLinked DEF Leaves, PastRows, Signing
        <5>2. t \in Auth!Linked
          BY <2>1, <2>6, MergeFacts DEF Merges, Signing
        <5>. QED  BY <5>1, <5>2
      <4>. QED  BY <2>4, <3>2, <4>1, <4>2, <4>3
    <3>10. \A b \in SignIns : Leaves(b, {"identity", "enter"})' => mine'[b].user \notin users'
      BY <2>1, <2>5, <3>1 DEF Leaves, Rows
    <3>11. Rows'
      BY <3>4, <3>7, <3>8, <3>9, <3>10 DEF Rows
    <3>. QED  BY <3>3, <3>5, <3>11
  <2>. QED  BY <2>5, <2>6 DEF AuthInv
<1>. QED  BY <1>1, <1>2

LEMMA MoveKeeps == ASSUME AuthSetting, AuthInv, NEW c \in SignIns, Auth!Move(c) PROVE AuthInv'
<1>. DEFINE u == mine[c].user
            t == mine[c].target
<1>1. CASE Auth!Throws(c)
  BY <1>1, ThrowsKeeps
<1>2. CASE ~Auth!Throws(c)
  <2>1. /\ step[c] = "move" /\ ~Auth!Clashes(u, t)
        /\ app' = [app EXCEPT ![u] = Auth!NoRows, ![t] = [j \in Jobs |-> Auth!Later(app[u][j], app[t][j])]]
        /\ Auth!Goes(c, "plan")
        /\ UNCHANGED <<users, pro, holds, session, signedIn, mine, ids, asked, deaths, Auth!told, Auth!marks>>
    BY <1>2 DEF Auth!Move
  <2>2. AuthShape /\ u \in Users /\ t \in Users /\ step[c] \in Merges
    BY <2>1 DEF AuthInv, AuthShape, CallOK, Signing, Merges
  <2>3. /\ app \in [Users -> [Jobs -> Auth!Stages]] /\ \A v \in Users, k \in Jobs : app[v][k] \in 0 .. 2
    BY <2>2 DEF AuthShape, Auth!TypeOK, Auth!Stages
  <2>4. /\ app' \in [Users -> [Jobs -> Auth!Stages]] /\ \A v \in Users \ {u, t} : app'[v] = app[v]
        /\ \A k \in Jobs : app'[t][k] = Auth!Later(app[u][k], app[t][k])
        /\ u # t => \A k \in Jobs : app'[u][k] = 0
    <3>. PICK apps : apps = [j \in Jobs |-> Auth!Later(app[u][j], app[t][j])]
      OBVIOUS
    <3>1. apps \in [Jobs -> Auth!Stages] /\ \A k \in Jobs : apps[k] = Auth!Later(app[u][k], app[t][k])
      BY <2>2, <2>3 DEF Auth!Later, Auth!Stages
    <3>2. Auth!NoRows \in [Jobs -> Auth!Stages] /\ \A k \in Jobs : Auth!NoRows[k] = 0
      BY DEF Auth!NoRows, Auth!Stages
    <3>3. app' = [app EXCEPT ![u] = Auth!NoRows, ![t] = apps]
      BY <2>1
    <3>. QED  BY <2>2, <2>3, <3>1, <3>2, <3>3
  <2>5. \A v \in Users, k \in Jobs : app'[v][k] \in 0 .. 2
    BY <2>4 DEF Auth!Stages
  <2>6. AuthShape' /\ step'[c] = "plan" /\ \A b \in SignIns \ {c} : step'[b] = step[b]
    <3>1. /\ step[c] \in Signing /\ "plan" \in Signing \ {"folding"} /\ behind' \subseteq Jobs
             /\ UNCHANGED <<Auth!told, behind, missed, crossed, left>>
          /\ missed \in BOOLEAN /\ pro \in [Users -> Nat] /\ holds \in [Identities -> Users \cup {None}]
          /\ session \in [Devices -> Users \cup {None}]
      BY <2>1, <2>2 DEF Signing, AuthShape, Auth!TypeOK, Auth!marks
    <3>. QED  BY <2>1, <2>4, <3>1, MergeShape
  <2>7. ASSUME ~crossed' PROVE Account' /\ Rows' /\ (~missed' => PlansKept')
    <3>0. UNCHANGED <<behind, missed, crossed, left, kept, bought>>
      BY <2>1 DEF Auth!told, Auth!marks
    <3>1. Account /\ Rows /\ (~missed => PlansKept)
      BY <2>7, <3>0 DEF AuthInv
    <3>2. u # t /\ t \in Auth!Reachable /\ t \in Auth!Linked
      BY <2>2, <2>7, <3>0, MergeFacts
    <3>3. Account'
      <4>1. \A b \in SignIns : SignsOn(b)
        BY <2>1, <2>2, <2>6 DEF SignsOn, Merges
      <4>. QED  BY <2>1, <2>2, <3>1, <4>1, AccountStays
    <3>4. Auth!Reachable' = Auth!Reachable
      BY <2>1, <3>0 DEF Auth!Reachable
    <3>5. ~missed' => PlansKept'
      <4>1. \A b \in SignIns : Leaves(b, PastPlan)' => Leaves(b, PastPlan) /\ mine'[b].user = mine[b].user
        BY <2>1, <2>6, OthersLeave DEF PastPlan
      <4>. QED  BY <2>1, <2>2, <3>0, <3>1, <3>4, <4>1, PlansStay
    <3>6. \A k \in Jobs, v \in Users : \E w \in Users : app'[w][k] >= app[v][k]
      <4>. SUFFICES ASSUME NEW k \in Jobs, NEW v \in Users
                    PROVE  \E w \in Users : app'[w][k] >= app[v][k]
        OBVIOUS
      <4>1. app[v][k] \in 0 .. 2 /\ app[u][k] \in 0 .. 2 /\ app[t][k] \in 0 .. 2
        BY <2>2, <2>3
      <4>2. app'[t][k] >= app[u][k] /\ app'[t][k] >= app[t][k]
        BY <2>4, <4>1 DEF Auth!Later
      <4>3. CASE v \in {u, t}
        BY <2>2, <4>2, <4>3
      <4>4. CASE v \notin {u, t}
        BY <2>4, <4>1, <4>4
      <4>. QED  BY <4>3, <4>4
    <3>7. \A k \in Jobs \ behind' : kept'[k] > 0 => \E v \in Users : app'[v][k] >= kept'[k]
      <4>. SUFFICES ASSUME NEW k \in Jobs \ behind, kept[k] > 0
                    PROVE  \E v \in Users : app'[v][k] >= kept[k]
        BY <3>0
      <4>1. PICK v \in Users : app[v][k] >= kept[k]
        BY <3>1 DEF Rows
      <4>2. PICK w \in Users : app'[w][k] >= app[v][k]
        BY <3>6
      <4>3. kept[k] \in 0 .. 2
        BY <2>2 DEF AuthShape, Auth!TypeOK, Auth!Stages
      <4>. QED  BY <2>3, <2>5, <4>1, <4>2, <4>3
    <3>8. \A k \in Jobs \ behind', v \in Users : app'[v][k] > 0 => v \in Auth!Reachable
      BY <2>4, <3>0, <3>1, <3>2 DEF Rows
    <3>9. ASSUME NEW b \in SignIns, Leaves(b, PastRows)', NEW k \in Jobs \ behind'
          PROVE  app'[mine'[b].user][k] = 0
      <4>1. CASE b = c
        BY <2>1, <2>4, <3>2, <4>1
      <4>2. CASE b # c
        <5>1. Leaves(b, PastRows) /\ mine'[b].user = mine[b].user
          BY <2>1, <2>6, <3>9, <4>2 DEF Leaves
        <5>2. app[mine[b].user][k] = 0 /\ mine[b].user \in Users
          BY <2>2, <3>0, <3>1, <5>1 DEF Rows, AuthShape, CallOK, Leaves, PastRows
        <5>3. mine[b].user # t
          BY <3>1, <3>2, <5>1, NotLinked DEF Leaves, PastRows, Signing
        <5>. QED  BY <2>4, <3>2, <5>1, <5>2, <5>3
      <4>. QED  BY <4>1, <4>2
    <3>10. \A b \in SignIns : Leaves(b, {"identity", "enter"})' => mine'[b].user \notin users'
      BY <2>1, <2>6, <3>1 DEF Leaves, Rows
    <3>11. Rows'
      BY <3>4, <3>7, <3>8, <3>9, <3>10 DEF Rows
    <3>. QED  BY <3>3, <3>5, <3>11
  <2>. QED  BY <2>6, <2>7 DEF AuthInv
<1>. QED  BY <1>1, <1>2

LEMMA PlanWriteKeeps == ASSUME AuthSetting, AuthInv, NEW c \in SignIns, Auth!PlanWrite(c) PROVE AuthInv'
<1>. DEFINE u == mine[c].user
            t == mine[c].target
            read == mine[c].read
<1>1. CASE Auth!Throws(c)
  BY <1>1, ThrowsKeeps
<1>2. CASE ~Auth!Throws(c)
  <2>1. /\ step[c] = "planning"
        /\ pro' = IF read[1] = 0 THEN pro ELSE [pro EXCEPT ![u] = 0, ![t] = Auth!Later(read[1], read[2])]
        /\ missed' = (missed \/ <<pro[u], pro[t]>> # read)
        /\ Auth!Goes(c, "sessions")
        /\ UNCHANGED <<users, app, holds, session, signedIn, mine, ids, asked, deaths, Auth!told, behind, crossed, left>>
    BY <1>2 DEF Auth!PlanWrite
  <2>2. AuthShape /\ u \in Users /\ t \in Users /\ step[c] \in Merges /\ read \in Nat \X Nat
        /\ pro \in [Users -> Nat]
    BY <2>1 DEF AuthInv, AuthShape, CallOK, Signing, Merges, Auth!TypeOK
  <2>3. Auth!Later(read[1], read[2]) \in {read[1], read[2]} /\ read[1] \in Nat /\ read[2] \in Nat
        /\ Auth!Later(read[1], read[2]) >= read[1] /\ Auth!Later(read[1], read[2]) >= read[2]
    BY <2>2 DEF Auth!Later
  <2>4. /\ pro' \in [Users -> Nat] /\ \A v \in Users \ {u, t} : pro'[v] = pro[v]
        /\ read[1] = 0 => pro' = pro
        /\ read[1] # 0 => pro'[t] = Auth!Later(read[1], read[2]) /\ (u # t => pro'[u] = 0)
    BY <2>1, <2>2, <2>3
  <2>5. AuthShape' /\ step'[c] = "sessions" /\ \A b \in SignIns \ {c} : step'[b] = step[b]
    <3>1. /\ step[c] \in Signing /\ "sessions" \in Signing \ {"folding"} /\ behind' \subseteq Jobs
             /\ missed' \in BOOLEAN
          /\ app' \in [Users -> [Jobs -> Auth!Stages]] /\ holds \in [Identities -> Users \cup {None}]
          /\ session \in [Devices -> Users \cup {None}]
      BY <2>1, <2>2 DEF Signing, AuthShape, Auth!TypeOK
    <3>2. \A v \in Users : pro'[v] = 0 \/ (\E w \in Users : pro'[v] = pro[w])
              \/ pro'[v] \in {mine[c].read[1], mine[c].read[2]}
      BY <2>2, <2>3, <2>4
    <3>. QED  BY <2>1, <2>4, <3>1, <3>2, MergeShape
  <2>6. ASSUME ~crossed' PROVE Account' /\ Rows' /\ (~missed' => PlansKept')
    <3>0. UNCHANGED <<kept, bought>>
      BY <2>1 DEF Auth!told
    <3>1. Account /\ Rows /\ (~missed => PlansKept)
      BY <2>1, <2>6 DEF AuthInv
    <3>2. u # t /\ t \in Auth!Reachable /\ t \in Auth!Linked
      BY <2>1, <2>2, <2>6, MergeFacts
    <3>3. Account'
      <4>1. \A b \in SignIns : SignsOn(b)
        BY <2>1, <2>2, <2>5 DEF SignsOn, Merges
      <4>. QED  BY <2>1, <2>2, <3>1, <4>1, AccountStays
    <3>4. Auth!Reachable' = Auth!Reachable
      BY <2>1 DEF Auth!Reachable
    <3>5. Rows'
      <4>1. \A b \in SignIns : /\ Leaves(b, PastRows)' => Leaves(b, PastRows) /\ mine'[b].user = mine[b].user
                               /\ Leaves(b, {"identity", "enter"})' => Leaves(b, {"identity", "enter"})
                                  /\ mine'[b].user = mine[b].user
        BY <2>1, <2>5, OthersLeave DEF PastRows
      <4>. QED  BY <2>1, <2>2, <3>0, <3>1, <3>4, <4>1, RowsStay DEF Rows
    <3>6. ASSUME ~missed' PROVE PlansKept'
      <4>1. PlansKept /\ read[1] = pro[u] /\ read[2] = pro[t]
        <5>1. ~missed /\ <<pro[u], pro[t]>> = read
          BY <2>1, <3>6
        <5>. QED  BY <3>1, <5>1
      <4>2. \A v \in Users : \E w \in Users : pro'[w] >= pro[v]
        BY <2>2, <2>3, <2>4, <4>1
      <4>3. pro'[u] = 0
        BY <2>2, <2>4, <3>2, <4>1
      <4>4. bought' > 0 => \E v \in Users : pro'[v] >= bought'
        <5>. SUFFICES ASSUME bought > 0 PROVE \E v \in Users : pro'[v] >= bought
          BY <3>0
        <5>1. PICK v \in Users : pro[v] >= bought
          BY <4>1 DEF PlansKept
        <5>2. PICK w \in Users : pro'[w] >= pro[v]
          BY <4>2
        <5>3. bought \in Nat
          BY <2>2 DEF AuthShape, Auth!TypeOK
        <5>. QED  BY <2>2, <2>4, <5>1, <5>2, <5>3
      <4>5. \A v \in Users : pro'[v] > 0 => v \in Auth!Reachable'
        BY <2>4, <3>2, <3>4, <4>1, <4>3 DEF PlansKept
      <4>6. ASSUME NEW b \in SignIns, Leaves(b, PastPlan)' PROVE pro'[mine'[b].user] = 0
        <5>1. CASE mine[b].user = u
          BY <2>1, <4>3, <5>1
        <5>2. CASE b # c /\ mine[b].user # u
          <6>1. Leaves(b, PastPlan)
            BY <2>1, <2>5, <4>6, <5>2 DEF Leaves
          <6>2. mine[b].user \in Users /\ pro[mine[b].user] = 0
            BY <2>2, <4>1, <6>1 DEF PlansKept, AuthShape, CallOK, Leaves, PastPlan
          <6>3. mine[b].user # t
            BY <3>1, <3>2, <6>1, NotLinked DEF Leaves, PastPlan, Signing
          <6>. QED  BY <2>1, <2>4, <5>2, <6>2, <6>3
        <5>. QED  BY <5>1, <5>2
      <4>. QED  BY <4>4, <4>5, <4>6 DEF PlansKept
    <3>. QED  BY <3>3, <3>5, <3>6
  <2>. QED  BY <2>5, <2>6 DEF AuthInv
<1>. QED  BY <1>1, <1>2

(* The guest's sessions and identities go, then its row: none of it is in  *)
(* use any more.                                                           *)
LEMMA GuestGoes ==
    ASSUME AuthSetting, AuthInv, NEW c \in SignIns, step[c] \in {"sessions", "identities", "delete"},
           NEW stop \in {"identities", "delete", "identity"}, Auth!Goes(c, stop),
           stop = "identity" <=> step[c] = "delete",
           UNCHANGED <<mine, ids, asked, deaths, Auth!told, Auth!marks>>,
           users' \subseteq users, stop = "identity" => mine[c].user \notin users',
           app' \in [Users -> [Jobs -> Auth!Stages]], pro' \in [Users -> Nat],
           \A v \in Users \ {mine[c].user} : app'[v] = app[v] /\ pro'[v] = pro[v],
           app'[mine[c].user] \in {app[mine[c].user], Auth!NoRows}, pro'[mine[c].user] \in {pro[mine[c].user], 0},
           holds' \in {holds, Auth!WithoutIdentities(mine[c].user)},
           session' \in {session, [d \in Devices |-> IF session[d] = mine[c].user THEN None ELSE session[d]]},
           signedIn' = {d \in signedIn : session'[d] = session[d]}
    PROVE  AuthInv'
<1>. DEFINE u == mine[c].user
            t == mine[c].target
<1>1. AuthShape /\ u \in Users /\ t \in Users /\ step[c] \in Merges
  BY DEF AuthInv, AuthShape, CallOK, Signing, Merges
<1>2. UNCHANGED <<kept, bought, behind, missed, crossed, left>>
  BY DEF Auth!told, Auth!marks
<1>3. /\ session' \in [Devices -> Users \cup {None}]
             /\ \A d \in Devices : session'[d] = session[d] \/ (session[d] = u /\ session'[d] = None)
      /\ holds' \in [Identities -> Users \cup {None}]
         /\ \A i \in Identities : holds'[i] = holds[i] \/ (holds[i] = u /\ holds'[i] = None)
  BY <1>1 DEF AuthShape, Auth!TypeOK, Auth!WithoutIdentities
<1>4. /\ \A j \in Jobs : app'[u][j] \in {app[u][j], 0} /\ app[u][j] \in 0 .. 2
      /\ pro'[u] = 0 \/ pro'[u] = pro[u]
  BY <1>1 DEF Auth!NoRows, AuthShape, Auth!TypeOK, Auth!Stages
<1>5. AuthShape' /\ step'[c] = stop /\ \A b \in SignIns \ {c} : step'[b] = step[b]
  <2>1. /\ step[c] \in Signing /\ stop \in Signing \ {"folding"} /\ behind' \subseteq Jobs
           /\ missed' \in BOOLEAN
    BY <1>1, <1>2 DEF Signing, AuthShape, Auth!TypeOK
  <2>2. \A v \in Users : pro'[v] = 0 \/ \E w \in Users : pro'[v] = pro[w]
    BY <1>1, <1>4
  <2>. QED  BY <1>2, <1>3, <2>1, <2>2, MergeShape
<1>6. ASSUME ~crossed' PROVE Account' /\ Rows' /\ (~missed' => PlansKept')
  <2>1. Account /\ Rows /\ (~missed => PlansKept)
    BY <1>2, <1>6 DEF AuthInv
  <2>2. u # t /\ u \notin Auth!Linked
    BY <1>1, <1>2, <1>6, MergeFacts
  <2>3. UNCHANGED holds
    BY <1>1, <1>3, <2>2, Reach DEF AuthShape, Auth!TypeOK
  <2>4. Account'
    <3>1. \A b \in SignIns : SignsOn(b)
      BY <1>1, <1>5 DEF SignsOn, Merges
    <3>. QED  BY <1>1, <2>1, <2>3, <3>1, AccountStays
  <2>5. /\ \A j \in Jobs \ behind : app[u][j] = 0 /\ app'[u][j] = 0
        /\ ~missed => pro[u] = 0 /\ pro'[u] = 0
    <3>1. Leaves(c, PastRows) /\ Leaves(c, PastPlan)
      BY <2>2 DEF Leaves, PastRows, PastPlan
    <3>. QED  BY <1>4, <2>1, <3>1 DEF Rows, PlansKept
  <2>6. \A w \in Users \ {u} : w \in Auth!Reachable => w \in Auth!Reachable'
    BY <1>1, <1>2, <1>3, <1>5, <2>3, ReachStays
  <2>7. \A b \in SignIns : /\ Leaves(b, PastRows)' => Leaves(b, PastRows) /\ mine'[b].user = mine[b].user
                           /\ Leaves(b, PastPlan)' => Leaves(b, PastPlan) /\ mine'[b].user = mine[b].user
    BY <1>5, OthersLeave DEF PastRows, PastPlan
  <2>8. \A j \in Jobs \ behind, v \in Users : app'[v][j] = app[v][j]
    BY <2>5
  <2>9. \A b \in SignIns : Leaves(b, {"identity", "enter"})' => mine'[b].user \notin users'
    BY <1>5, <2>1 DEF Leaves, Rows
  <2>10. Rows'
    <3>1. \A j \in Jobs \ behind : kept[j] > 0 => \E v \in Users : app'[v][j] >= kept[j]
      BY <2>1, <2>8 DEF Rows
    <3>2. \A j \in Jobs \ behind, v \in Users : app'[v][j] > 0 => v \in Auth!Reachable'
      BY <2>1, <2>5, <2>6, <2>8 DEF Rows
    <3>3. \A b \in SignIns : Leaves(b, PastRows)' => \A j \in Jobs \ behind : app'[mine'[b].user][j] = 0
      BY <1>1, <2>1, <2>7, <2>8 DEF Rows, Leaves, PastRows, AuthShape, CallOK, Signing
    <3>. QED  BY <1>2, <2>9, <3>1, <3>2, <3>3 DEF Rows
  <2>11. ASSUME ~missed' PROVE PlansKept'
    <3>1. PlansKept /\ pro' = pro
      BY <1>1, <1>2, <2>1, <2>5, <2>11 DEF AuthShape, Auth!TypeOK
    <3>2. \A v \in Users : pro[v] > 0 /\ v \in Auth!Reachable => v \in Auth!Reachable'
      BY <1>2, <2>5, <2>6, <2>11
    <3>. QED  BY <1>1, <1>2, <2>7, <3>1, <3>2, PlansStay
  <2>. QED  BY <2>4, <2>10, <2>11
<1>. QED  BY <1>5, <1>6 DEF AuthInv

LEMMA EndSessionsKeeps == ASSUME AuthSetting, AuthInv, NEW c \in SignIns, Auth!EndSessions(c)
                          PROVE  AuthInv'
<1>1. AuthShape
  BY DEF AuthInv
<1>2. signedIn' = {d \in signedIn : session'[d] = session[d]}
  <2>1. \A d \in Devices : session'[d] = session[d] <=> session[d] # mine[c].user \/ session[d] = None
    BY <1>1 DEF Auth!EndSessions, AuthShape, Auth!TypeOK
  <2>2. \A d \in Devices : step[c] = "sessions" => mine[c].user \in Users
    BY <1>1 DEF AuthShape, CallOK
  <2>. QED  BY <1>1, <2>1, <2>2 DEF Auth!EndSessions, Auth!SessionsOf, AuthShape, Auth!TypeOK,
     AuthSetting
<1>. QED  BY <1>1, <1>2, GuestGoes DEF Auth!EndSessions, AuthShape, Auth!TypeOK

LEMMA DropIdentitiesKeeps == ASSUME AuthSetting, AuthInv, NEW c \in SignIns, Auth!DropIdentities(c)
                             PROVE  AuthInv'
<1>1. AuthShape
  BY DEF AuthInv
<1>2. signedIn' = {d \in signedIn : session'[d] = session[d]}
  BY DEF Auth!DropIdentities
<1>. QED  BY <1>1, <1>2, GuestGoes DEF Auth!DropIdentities, AuthShape, Auth!TypeOK

LEMMA ErasesRows ==
    ASSUME AuthShape, NEW u \in Users, Auth!Erases(u)
    PROVE  /\ app' \in [Users -> [Jobs -> Auth!Stages]] /\ pro' \in [Users -> Nat]
           /\ app'[u] = Auth!NoRows /\ pro'[u] = 0
           /\ \A v \in Users \ {u} : app'[v] = app[v] /\ pro'[v] = pro[v]
<1>1. Auth!NoRows \in [Jobs -> Auth!Stages]
  BY DEF Auth!NoRows, Auth!Stages
<1>. QED  BY <1>1 DEF Auth!Erases, AuthShape, Auth!TypeOK

LEMMA DeleteGuestKeeps == ASSUME AuthSetting, AuthInv, NEW c \in SignIns, Auth!DeleteGuest(c)
                          PROVE  AuthInv'
<1>. DEFINE u == mine[c].user
<1>1. AuthShape /\ u \in Users /\ Auth!Erases(u) /\ step[c] = "delete"
  BY DEF Auth!DeleteGuest, AuthInv, AuthShape, CallOK
<1>2. signedIn' = {d \in signedIn : session'[d] = session[d]}
  <2>1. \A d \in Devices : session'[d] = session[d] <=> session[d] # u \/ session[d] = None
    BY <1>1 DEF Auth!Erases, AuthShape, Auth!TypeOK
  <2>. QED  BY <1>1, <2>1 DEF Auth!Erases, Auth!SessionsOf, AuthShape, Auth!TypeOK, AuthSetting
<1>3. users' \subseteq users /\ u \notin users' /\ holds' = Auth!WithoutIdentities(u)
      /\ session' = [d \in Devices |-> IF session[d] = u THEN None ELSE session[d]]
  BY <1>1 DEF Auth!Erases
<1>4. Auth!Goes(c, "identity") /\ UNCHANGED <<mine, ids, asked, deaths, Auth!told, Auth!marks>>
  BY DEF Auth!DeleteGuest
<1>. QED  BY <1>1, <1>2, <1>3, <1>4, ErasesRows, GuestGoes

-----------------------------------------------------------------------------
(* The identity and the session.                                           *)

LEMMA IdentifyKeeps == ASSUME AuthSetting, AuthInv, NEW c \in SignIns, Auth!Identify(c) PROVE AuthInv'
<1>. DEFINE t == mine[c].target
            i == mine[c].identity
<1>1. CASE Auth!Throws(c)
  BY <1>1, ThrowsKeeps
<1>2. CASE ~Auth!Throws(c)
  <2>1. /\ step[c] = "identity" /\ (mine[c].found \/ Auth!Insertable(c))
        /\ holds' = IF mine[c].found THEN holds ELSE [holds EXCEPT ![i] = t]
        /\ Auth!Goes(c, "enter")
        /\ UNCHANGED <<users, app, pro, session, signedIn, mine, ids, asked, deaths, Auth!told, Auth!marks>>
    BY <1>2 DEF Auth!Identify
  <2>2. AuthShape /\ t \in Users /\ i \in Identities /\ mine[c] \in AuthLocals
        /\ UNCHANGED <<behind, missed, crossed, left, kept, bought>>
    BY <2>1 DEF AuthInv, AuthShape, CallOK, Signing, Auth!TypeOK, AuthLocals, Auth!told, Auth!marks
  <2>3. Turn(c, "enter", mine[c])
    BY <2>1, <2>2, Turns DEF Auth!Places
  <2>4. /\ holds' \in [Identities -> Users \cup {None}]
        /\ \A k \in Identities : holds'[k] = holds[k] \/ (k = i /\ holds[k] = None /\ holds'[k] = t /\ t \in users)
        /\ ~mine[c].found => holds'[i] = t
    BY <2>1, <2>2 DEF Auth!Insertable, AuthShape, Auth!TypeOK
  <2>5. Auth!TypeOK' /\ CallOK(c)'
    BY <2>1, <2>2, <2>3, <2>4 DEF AuthShape, Auth!TypeOK, Turn, AuthLocals, CallOK, Signing
  <2>6. Drawn'
    <3>1. mine[c].user \in ids /\ t \in ids /\ users \subseteq ids
      BY <2>1, <2>2 DEF AuthShape, Drawn, Signing
    <3>. QED  BY <2>1, <2>2, <2>3, <2>4, <3>1, TurnDrawn
  <2>7. AuthShape'
    BY <2>1, <2>2, <2>3, <2>5, <2>6, TurnKeeps
  <2>8. ASSUME ~crossed' PROVE Account' /\ Rows' /\ (~missed' => PlansKept')
    <3>1. Account /\ Rows /\ (~missed => PlansKept)
      BY <2>2, <2>8 DEF AuthInv
    <3>2. \A b \in SignIns \ {c} : step'[b] = step[b] /\ mine'[b] = mine[b]
      BY <2>3 DEF Turn
    <3>3. t \in Auth!Linked \/ (Auth!Linked = {} /\ ~mine[c].found)
      BY <2>1, <3>1 DEF Account, SignsIn, Auth!First, Signing
    <3>4. Auth!Linked' = Auth!Linked \cup {t}
      <4>1. \A s \in Users : s \in Auth!Linked' <=> \E k \in Identities : holds'[k] = s
        BY <2>2, <2>5 DEF Auth!Linked, AuthSetting
      <4>2. \A s \in Users : s \in Auth!Linked <=> \E k \in Identities : holds[k] = s
        BY DEF Auth!Linked, AuthSetting
      <4>3. Auth!Linked \subseteq Users /\ Auth!Linked' \subseteq Users
        BY <2>2, <2>4 DEF Auth!Linked, AuthShape, Auth!TypeOK
      <4>4. t \in Auth!Linked'
        <5>1. CASE t \in Auth!Linked
          BY <2>2, <2>4, <4>1, <4>2, <5>1 DEF AuthSetting
        <5>2. CASE ~mine[c].found
          BY <2>2, <2>4, <4>1, <5>2
        <5>. QED  BY <3>3, <5>1, <5>2
      <4>5. \A s \in Users : s \in Auth!Linked' => s = t \/ s \in Auth!Linked
        BY <2>4, <4>1, <4>2
      <4>6. \A s \in Users : s \in Auth!Linked => s \in Auth!Linked'
        BY <2>4, <4>1, <4>2 DEF AuthSetting
      <4>. QED  BY <2>2, <4>3, <4>4, <4>5, <4>6
    <3>5. Auth!Linked' = {t}
      BY <3>1, <3>3, <3>4 DEF Account
    <3>6. ASSUME NEW b \in SignIns, step'[b] \in Signing PROVE SignsIn(b)'
      <4>1. CASE b = c
        BY <2>3, <3>5, <4>1 DEF SignsIn, Turn, Merges, Signing
      <4>2. CASE b # c
        <5>1. step[b] \in Signing /\ SignsIn(b)
          BY <3>1, <3>2, <3>6, <4>2 DEF Account
        <5>2. Auth!Linked # {}
          BY <2>1, <3>1, <4>2, <5>1 DEF Account, Signing
        <5>. QED  BY <3>2, <3>4, <4>2, <5>1, <5>2 DEF SignsIn
      <4>. QED  BY <4>1, <4>2
    <3>7. Account'
      BY <2>1, <3>1, <3>4, <3>5, <3>6 DEF Account
    <3>8. \A v \in Users : v \in Auth!Reachable => v \in Auth!Reachable'
      <4>1. ASSUME NEW v \in Users, v \in Auth!Reachable PROVE v \in Auth!Reachable'
        <5>1. (\E d \in Devices : session[d] = v) \/ v \in Auth!Linked \/ v \in left
          BY <2>2, <4>1, Reach
        <5>2. (\E d \in Devices : session'[d] = v) \/ v \in Auth!Linked' \/ v \in left'
          BY <2>1, <2>2, <3>4, <5>1
        <5>. QED  BY <2>7, <4>1, <5>2 DEF AuthSetting, AuthShape, Auth!TypeOK, Auth!Reachable,
           Auth!Linked, Auth!Range
      <4>. QED  BY <4>1
    <3>9. \A b \in SignIns : /\ Leaves(b, PastRows)' => Leaves(b, PastRows) /\ mine'[b].user = mine[b].user
                             /\ Leaves(b, PastPlan)' => Leaves(b, PastPlan) /\ mine'[b].user = mine[b].user
                             /\ Leaves(b, {"identity", "enter"})' => Leaves(b, {"identity", "enter"})
                                /\ mine'[b].user = mine[b].user
      BY <2>1, <2>3, <3>2 DEF Leaves, Turn, PastRows, PastPlan
    <3>10. Rows'
      BY <2>1, <2>2, <3>1, <3>8, <3>9, RowsStay DEF Rows
    <3>11. ~missed' => PlansKept'
      BY <2>1, <2>2, <3>1, <3>8, <3>9, PlansStay
    <3>. QED  BY <3>7, <3>10, <3>11
  <2>. QED  BY <2>7, <2>8 DEF AuthInv
<1>. QED  BY <1>1, <1>2

LEMMA EnterKeeps == ASSUME AuthSetting, AuthInv, NEW c \in SignIns, Auth!Enter(c) PROVE AuthInv'
<1>. DEFINE t == mine[c].target
            u == mine[c].user
            d == mine[c].device
<1>1. /\ step[c] = "enter" /\ users' = users \cup {t} /\ session' = [session EXCEPT ![d] = t]
      /\ signedIn' = signedIn \cup {d} /\ left' = left \cup ({session[d]} \ {u, t, None})
         /\ Auth!Ends(c)
      /\ UNCHANGED <<app, pro, holds, ids, asked, deaths, behind, missed, crossed, kept, bought>>
  BY DEF Auth!Enter, Auth!told
<1>2. AuthShape /\ t \in Users /\ u \in Users /\ d \in Devices
  BY <1>1 DEF AuthInv, AuthShape, CallOK, Signing
<1>3. Turn(c, "off", Auth!Idle)
  BY <1>1, <1>2, TurnsOff
<1>4. session' \in [Devices -> Users \cup {None}] /\ session'[d] = t
          /\ \A x \in Devices \ {d} : session'[x] = session[x]
  BY <1>1, <1>2 DEF AuthShape, Auth!TypeOK
<1>5. Auth!TypeOK' /\ CallOK(c)'
  BY <1>1, <1>2, <1>3, <1>4 DEF AuthShape, Auth!TypeOK, Turn, AuthLocals, CallOK, Signing
<1>6. Drawn'
  <2>1. t \in ids /\ users \subseteq ids /\ "off" \notin Signing
    BY <1>1, <1>2 DEF AuthShape, Drawn, Signing
  <2>. QED  BY <1>1, <1>2, <1>3, <1>4, <2>1, TurnDrawn
<1>7. AuthShape'
  BY <1>1, <1>2, <1>3, <1>5, <1>6, IdleTyped, TurnKeeps
<1>8. ASSUME ~crossed' PROVE Account' /\ Rows' /\ (~missed' => PlansKept')
  <2>1. Account /\ Rows /\ (~missed => PlansKept)
    BY <1>1, <1>8 DEF AuthInv
  <2>2. \A b \in SignIns \ {c} : step'[b] = step[b] /\ mine'[b] = mine[b]
    BY <1>3 DEF Turn
  <2>3. t \in Auth!Linked /\ Auth!Linked' = Auth!Linked
    BY <1>1, <2>1 DEF Account, SignsIn, Auth!First, Signing, Auth!Linked
  <2>4. \A b \in SignIns : step'[b] \in Signing => b # c /\ step[b] \in Signing /\ SignsIn(b)'
    BY <1>3, <2>1, <2>2, <2>3 DEF Turn, Account, SignsIn, Auth!First, Signing
  <2>5. Account'
    BY <1>1, <1>4, <2>1, <2>3, <2>4 DEF Account
  <2>6. /\ \A j \in Jobs \ behind : app[u][j] > 0 => u = t
        /\ ~missed => (pro[u] > 0 => u = t)
    <3>1. u # t => Leaves(c, PastRows) /\ Leaves(c, PastPlan)
      BY <1>1 DEF Leaves, PastRows, PastPlan
    <3>2. \A j \in Jobs : app[u][j] \in 0 .. 2
      BY <1>2 DEF AuthShape, Auth!TypeOK, Auth!Stages
    <3>. QED  BY <2>1, <3>1, <3>2 DEF Rows, PlansKept
  <2>7. \A w \in Users : w \in Auth!Reachable /\ (w = u => u = t) => w \in Auth!Reachable'
    BY <1>1, <1>2, <1>4, <1>7, <2>3, ReachStays DEF AuthSetting
  <2>8. \A b \in SignIns : /\ Leaves(b, PastRows)' => Leaves(b, PastRows) /\ mine'[b].user = mine[b].user
                           /\ Leaves(b, PastPlan)' => Leaves(b, PastPlan) /\ mine'[b].user = mine[b].user
                           /\ Leaves(b, {"identity", "enter"})' => b # c /\ Leaves(b, {"identity", "enter"})
                              /\ mine'[b].user = mine[b].user
    BY <1>3, <2>2 DEF Leaves, Turn, PastRows, PastPlan
  <2>9. \A b \in SignIns : Leaves(b, {"identity", "enter"})' => mine'[b].user \notin users'
    <3>1. ASSUME NEW b \in SignIns, Leaves(b, {"identity", "enter"}) PROVE mine[b].user # t
      BY <2>1, <2>3, <3>1, NotLinked DEF Leaves, Signing
    <3>. QED  BY <1>1, <2>1, <2>8, <3>1 DEF Rows
  <2>10. Rows'
    BY <1>1, <1>2, <2>1, <2>6, <2>7, <2>8, <2>9, RowsStay
  <2>11. ~missed' => PlansKept'
    BY <1>1, <1>2, <2>1, <2>6, <2>7, <2>8, PlansStay
  <2>. QED  BY <2>5, <2>10, <2>11
<1>. QED  BY <1>7, <1>8 DEF AuthInv

-----------------------------------------------------------------------------
(* Buying Pro, signing out, deleting the account, and dying.               *)

(* A step no call takes. *)
LEMMA ShapeAside ==
    ASSUME AuthSetting, AuthShape, Auth!TypeOK', UNCHANGED <<step, mine>>, ids \subseteq ids',
           users' \subseteq ids', NEW n \in Nat,
           \A u \in Users : Known(pro'[u], n),
           \A d \in Devices : session'[d] \in ids' \/ session'[d] \in {session[d], None},
           \A d \in signedIn' : session'[d] \in ids' \/ (d \in signedIn /\ session'[d] = session[d]),
           \A i \in Identities : holds'[i] \in {holds[i], None}
    PROVE  AuthShape'
<1>1. \A c \in SignIns : CallOK(c)'
  BY DEF AuthShape, CallOK
<1>2. Drawn'
  BY DEF AuthShape, Drawn
<1>3. Bounded'
  <2>1. mine' \in [SignIns -> AuthLocals] /\ pro' \in [Users -> Nat]
    BY DEF Auth!TypeOK, AuthLocals
  <2>2. \A c \in SignIns : mine'[c].read[1] \in Nat /\ mine'[c].read[2] \in Nat /\ mine'[c] = mine[c]
    BY DEF Auth!TypeOK
  <2>3. \A c \in SignIns : Known(mine'[c].read[1], n) /\ Known(mine'[c].read[2], n)
    BY <2>2 DEF Known
  <2>. QED  BY <2>1, <2>3, StaysBounded
<1>. QED  BY <1>1, <1>2, <1>3 DEF AuthShape

LEMMA BuyKeeps == ASSUME AuthSetting, AuthInv, NEW d \in Devices, Auth!Buy(d) PROVE AuthInv'
<1>. DEFINE u == session[d]
<1>1. /\ u # None /\ u \in users /\ asked < MaxSignIns /\ asked' = asked + 1
      /\ pro' = [pro EXCEPT ![u] = bought + 1] /\ bought' = bought + 1
      /\ missed' = (missed \/ \E b \in SignIns : Auth!Merging(b, u, {"sessions", "identities", "delete"}))
      /\ UNCHANGED <<users, app, holds, session, signedIn, step, mine, ids, deaths, kept, behind, crossed, left>>
  BY DEF Auth!Buy
<1>2. AuthShape /\ u \in Users /\ bought \in Nat /\ pro \in [Users -> Nat] /\ users \subseteq ids
  BY <1>1 DEF AuthInv, AuthShape, Auth!TypeOK, Drawn
<1>3. pro' \in [Users -> Nat] /\ pro'[u] = bought + 1 /\ \A v \in Users \ {u} : pro'[v] = pro[v]
  BY <1>1, <1>2
<1>4. Auth!TypeOK'
  BY <1>1, <1>2, <1>3 DEF AuthShape, Auth!TypeOK, AuthSetting
<1>5. AuthShape'
  <2>1. \A v \in Users : Known(pro'[v], bought + 1)
    BY <1>2, <1>3 DEF Known
  <2>. QED  BY <1>1, <1>2, <1>4, <2>1, ShapeAside
<1>6. ASSUME ~crossed' PROVE Account' /\ Rows' /\ (~missed' => PlansKept')
  <2>1. Account /\ Rows /\ (~missed => PlansKept)
    BY <1>1, <1>6 DEF AuthInv
  <2>2. \A b \in SignIns : mine'[b] = mine[b] /\ step'[b] = step[b]
    BY <1>1
  <2>3. Auth!Reachable' = Auth!Reachable
    BY <1>1 DEF Auth!Reachable
  <2>4. Account'
    <3>1. \A b \in SignIns : SignsOn(b)
      BY <2>2 DEF SignsOn
    <3>. QED  BY <1>1, <1>2, <2>1, <3>1, AccountStays
  <2>5. Rows'
    BY <1>1, <1>2, <2>1, <2>2, <2>3, RowsStay DEF Leaves, Rows
  <2>6. ASSUME ~missed' PROVE PlansKept'
    <3>1. PlansKept
      BY <1>1, <2>1, <2>6
    <3>2. u \in Auth!Reachable
      BY <1>2, Reach
    <3>3. ASSUME NEW b \in SignIns, Leaves(b, PastPlan)
          PROVE  mine[b].user # u /\ mine[b].user \in Users /\ pro[mine[b].user] = 0
      <4>1. mine[b].user \in Users /\ pro[mine[b].user] = 0
        BY <1>2, <3>1, <3>3 DEF PlansKept, AuthShape, CallOK, Leaves, PastPlan
      <4>2. CASE step[b] \in {"identity", "enter"}
        BY <1>1, <2>1, <3>3, <4>1, <4>2 DEF Rows, Leaves
      <4>3. CASE step[b] \notin {"identity", "enter"}
        <5>1. ~Auth!Merging(b, u, {"sessions", "identities", "delete"})
          BY <1>1, <2>6
        <5>. QED  BY <3>3, <4>1, <4>3, <5>1 DEF Auth!Merging, Leaves, PastPlan
      <4>. QED  BY <4>1, <4>2, <4>3
    <3>4. \A b \in SignIns : Leaves(b, PastPlan)' => pro'[mine'[b].user] = 0
      BY <1>3, <2>2, <3>3 DEF Leaves
    <3>5. bought' > 0 => \E v \in Users : pro'[v] >= bought'
      BY <1>1, <1>2, <1>3
    <3>6. \A v \in Users : pro'[v] > 0 => v \in Auth!Reachable'
      BY <1>3, <2>3, <3>1, <3>2 DEF PlansKept
    <3>. QED  BY <3>4, <3>5, <3>6 DEF PlansKept
  <2>. QED  BY <2>4, <2>5, <2>6
<1>. QED  BY <1>5, <1>6 DEF AuthInv

LEMMA LogOutKeeps == ASSUME AuthSetting, AuthInv, NEW d \in Devices, Auth!LogOut(d) PROVE AuthInv'
<1>1. PICK u \in Users \ ids :
         users' = users \cup {u} /\ ids' = ids \cup {u} /\ session' = [session EXCEPT ![d] = u]
  BY DEF Auth!LogOut
<1>2. /\ d \in signedIn /\ asked < MaxSignIns /\ asked' = asked + 1 /\ signedIn' = signedIn \ {d}
      /\ UNCHANGED <<app, pro, holds, step, mine, deaths, kept, bought, behind, missed, crossed, left>>
  BY DEF Auth!LogOut, Auth!told, Auth!marks
<1>3. AuthShape
  BY DEF AuthInv
<1>4. session' \in [Devices -> Users \cup {None}] /\ session'[d] = u
          /\ \A x \in Devices \ {d} : session'[x] = session[x]
  BY <1>1, <1>3 DEF AuthShape, Auth!TypeOK
<1>5. Auth!TypeOK'
  BY <1>1, <1>2, <1>3, <1>4 DEF AuthShape, Auth!TypeOK, AuthSetting
<1>6. AuthShape'
  <2>1. \A v \in Users : Known(pro'[v], 0)
    BY <1>2, <1>3 DEF Known, AuthShape, Auth!TypeOK
  <2>2. users' \subseteq ids' /\ ids \subseteq ids'
            /\ \A x \in Devices : session'[x] \in ids' \/ session'[x] = session[x]
    BY <1>1, <1>3, <1>4 DEF AuthShape, Drawn
  <2>3. UNCHANGED <<step, mine>> /\ \A i \in Identities : holds'[i] \in {holds[i], None}
    BY <1>2
  <2>4. \A x \in signedIn' : x \in signedIn /\ session'[x] = session[x]
    BY <1>2, <1>3, <1>4 DEF AuthShape, Auth!TypeOK
  <2>. QED  BY <1>3, <1>5, <2>1, <2>2, <2>3, <2>4, ShapeAside
<1>7. ASSUME ~crossed' PROVE Account' /\ Rows' /\ (~missed' => PlansKept')
  <2>1. Account /\ Rows /\ (~missed => PlansKept)
    BY <1>2, <1>7 DEF AuthInv
  <2>2. \A b \in SignIns : mine'[b] = mine[b] /\ step'[b] = step[b]
    BY <1>2
  <2>3. Account'
    <3>1. \A b \in SignIns : SignsOn(b)
      BY <2>2 DEF SignsOn
    <3>2. \A x \in signedIn' : session'[x] = session[x]
      BY <1>2, <1>3, <1>4 DEF AuthShape, Auth!TypeOK
    <3>. QED  BY <1>2, <1>3, <2>1, <3>1, <3>2, AccountStays
  <2>4. \A w \in Users : w \in Auth!Reachable => w \in Auth!Reachable'
    BY <1>2, <1>3, <1>4, <1>6, <2>1, ReachStays DEF Account
  <2>5. \A b \in SignIns : Leaves(b, {"identity", "enter"})' => mine'[b].user \notin users'
    <3>1. \A b \in SignIns : Leaves(b, {"identity", "enter"}) => mine[b].user \notin users /\ mine[b].user \in ids
      BY <1>3, <2>1 DEF Leaves, Rows, AuthShape, Drawn
    <3>. QED  BY <1>1, <2>2, <3>1 DEF Leaves
  <2>6. Rows'
    BY <1>2, <1>3, <2>1, <2>2, <2>4, <2>5, RowsStay DEF Leaves
  <2>7. ~missed' => PlansKept'
    BY <1>2, <1>3, <2>1, <2>2, <2>4, PlansStay DEF Leaves
  <2>. QED  BY <2>3, <2>6, <2>7
<1>. QED  BY <1>6, <1>7 DEF AuthInv

LEMMA RequestDiesKeeps == ASSUME AuthSetting, AuthInv, NEW c \in SignIns, Auth!Dies(c) PROVE AuthInv'
<1>. DEFINE d == mine[c].device
            u == mine[c].user
            t == mine[c].target
<1>1. /\ deaths < MaxDeaths /\ deaths' = deaths + 1 /\ Auth!Ends(c)
      /\ UNCHANGED <<users, app, pro, holds, ids, asked, Auth!told, Auth!marks>>
  BY DEF Auth!Dies
<1>2. AuthShape /\ deaths' \in 0 .. MaxDeaths /\ asked' \in 0 .. MaxSignIns
  BY <1>1 DEF AuthInv, AuthShape, Auth!TypeOK, AuthSetting
<1>3. CASE UNCHANGED <<session, signedIn>>
  BY <1>1, <1>2, <1>3, EndsKeeps DEF Auth!rows
<1>4. CASE /\ step[c] = "enter" /\ session[d] = u
           /\ session' = [session EXCEPT ![d] = None] /\ signedIn' = signedIn \ {d}
  <2>1. d \in Devices /\ u \in Users /\ t \in Users
    BY <1>2, <1>4 DEF AuthShape, CallOK, Signing
  <2>2. Turn(c, "off", Auth!Idle)
    BY <1>1, <1>2, TurnsOff
  <2>3. session' \in [Devices -> Users \cup {None}] /\ session'[d] = None
            /\ \A x \in Devices \ {d} : session'[x] = session[x]
    BY <1>2, <1>4, <2>1 DEF AuthShape, Auth!TypeOK
  <2>4. UNCHANGED <<kept, bought, behind, missed, crossed, left>>
    BY <1>1 DEF Auth!told, Auth!marks
  <2>5. Auth!TypeOK' /\ CallOK(c)'
    BY <1>1, <1>2, <1>4, <2>2, <2>3, <2>4 DEF AuthShape, Auth!TypeOK, Turn, AuthLocals, CallOK,
       Signing
  <2>6. Drawn'
    <3>1. users \subseteq ids /\ "off" \notin Signing /\ \A x \in Devices : session'[x] \in {session[x], None}
      BY <1>2, <2>3 DEF AuthShape, Drawn, Signing
    <3>2. \A x \in signedIn' : x \in signedIn /\ session'[x] = session[x]
      BY <1>2, <1>4, <2>3 DEF AuthShape, Auth!TypeOK
    <3>. QED  BY <1>1, <1>2, <2>2, <3>1, <3>2, TurnDrawn
  <2>7. AuthShape'
    BY <1>1, <1>2, <2>2, <2>5, <2>6, IdleTyped, TurnKeeps
  <2>8. ASSUME ~crossed' PROVE Account' /\ Rows' /\ (~missed' => PlansKept')
    <3>1. Account /\ Rows /\ (~missed => PlansKept)
      BY <2>4, <2>8 DEF AuthInv
    <3>2. \A b \in SignIns \ {c} : step'[b] = step[b] /\ mine'[b] = mine[b]
      BY <2>2 DEF Turn
    <3>3. Account'
      <4>1. \A b \in SignIns : SignsOn(b)
        BY <2>2, <3>2 DEF SignsOn, Turn, Signing
      <4>2. signedIn' \subseteq signedIn /\ \A x \in signedIn' : session'[x] = session[x]
        BY <1>2, <1>4, <2>3 DEF AuthShape, Auth!TypeOK
      <4>. QED  BY <1>1, <1>2, <3>1, <4>1, <4>2, AccountStays
    <3>4. t \in Auth!Linked
      BY <1>4, <3>1 DEF Account, SignsIn, Auth!First, Signing
    <3>5. /\ \A j \in Jobs \ behind : app[u][j] > 0 => u \in Auth!Linked
          /\ ~missed => (pro[u] > 0 => u \in Auth!Linked)
      <4>1. u # t => Leaves(c, PastRows) /\ Leaves(c, PastPlan)
        BY <1>4 DEF Leaves, PastRows, PastPlan
      <4>. QED  BY <3>1, <3>4, <4>1 DEF Rows, PlansKept
    <3>6. \A w \in Users : w \in Auth!Reachable /\ (w = u => u \in Auth!Linked) => w \in Auth!Reachable'
      BY <1>1, <1>2, <1>4, <2>3, <2>4, <2>7, ReachStays
    <3>7. \A b \in SignIns : /\ Leaves(b, PastRows)' => Leaves(b, PastRows) /\ mine'[b].user = mine[b].user
                             /\ Leaves(b, PastPlan)' => Leaves(b, PastPlan) /\ mine'[b].user = mine[b].user
                             /\ Leaves(b, {"identity", "enter"})' => Leaves(b, {"identity", "enter"})
                                /\ mine'[b].user = mine[b].user
      BY <2>2, <3>2 DEF Leaves, Turn, PastRows, PastPlan
    <3>8. Rows'
      BY <1>1, <1>2, <2>4, <3>1, <3>5, <3>6, <3>7, RowsStay DEF Rows
    <3>9. ~missed' => PlansKept'
      BY <1>1, <1>2, <2>4, <3>1, <3>5, <3>6, <3>7, PlansStay
    <3>. QED  BY <3>3, <3>8, <3>9
  <2>. QED  BY <2>7, <2>8 DEF AuthInv
<1>. QED  BY <1>3, <1>4 DEF Auth!Dies

(* Of finitely many naturals one is the most. *)
LEMMA MostOf ==
    ASSUME NEW b \in Nat, NEW S \in SUBSET (0 .. b), S # {}
    PROVE  \E m \in S : \A x \in S : m >= x
<1>. DEFINE T == {b - x : x \in S}
            R == {ss \in Nat \X Nat : ss[1] < ss[2]}
<1>1. IsWellFoundedOn(R, Nat)
  BY NatLessThanWellFounded DEF OpToRel
<1>2. T # {} /\ T \in SUBSET Nat
  <2>1. PICK x \in S : TRUE
    OBVIOUS
  <2>2. b - x \in T
    BY <2>1
  <2>3. \A y \in S : y \in 0 .. b
    OBVIOUS
  <2>. QED  BY <2>2, <2>3
<1>3. PICK k \in T : \A y \in T : ~(<<y, k>> \in R)
  <2>. HIDE DEF R, T
  <2>. QED  BY <1>1, <1>2, WFMin
<1>4. PICK m \in S : k = b - m
  OBVIOUS
<1>5. ASSUME NEW x \in S PROVE m >= x
  <2>1. ~(<<b - x, b - m>> \in R) /\ x \in 0 .. b /\ m \in 0 .. b
    BY <1>3, <1>4
  <2>. QED  BY <2>1
<1>. QED  BY <1>5

(* What remains of a person's rows, once a user's have gone: one of the    *)
(* others' is the most.                                                    *)
LEMMA RemainsMost ==
    ASSUME NEW u \in Users, NEW of \in [Users -> Nat], NEW b \in Nat, \A v \in Users : of[v] <= b
    PROVE  /\ Auth!Remains(u, of) \cup {0} \in SUBSET (0 .. b)
           /\ \E x \in Auth!Remains(u, of) \cup {0} : \A y \in Auth!Remains(u, of) \cup {0} : x >= y
<1>1. \A v \in Users : of[v] \in 0 .. b
  OBVIOUS
<1>2. Auth!Remains(u, of) \subseteq 0 .. b
  BY <1>1 DEF Auth!Remains
<1>. DEFINE S == Auth!Remains(u, of) \cup {0}
<1>3. S \in SUBSET (0 .. b) /\ S # {}
  BY <1>2
<1>4. \E x \in S : \A y \in S : x >= y
  <2>. HIDE DEF S
  <2>. QED  BY <1>3, MostOf
<1>. QED  BY <1>3, <1>4

LEMMA DeleteAccountKeeps == ASSUME AuthSetting, AuthInv, NEW d \in Devices, Auth!DeleteAccount(d)
                            PROVE  AuthInv'
<1>. DEFINE u == session[d]
            Most(S) == CHOOSE x \in S : \A y \in S : x >= y
            of(j) == [v \in Users |-> app[v][j]]
<1>1. /\ d \in signedIn /\ asked < MaxSignIns /\ asked' = asked + 1 /\ Auth!Erases(u)
      /\ kept' = [j \in Jobs |-> IF app[u][j] = 0 THEN kept[j] ELSE Most(Auth!Remains(u, of(j)) \cup {0})]
      /\ bought' = IF pro[u] = 0 THEN bought ELSE Most(Auth!Remains(u, pro) \cup {0})
      /\ crossed' = (crossed \/ \E c \in SignIns : step[c] # "off")
      /\ UNCHANGED <<step, mine, ids, deaths, behind, missed, left>>
  BY DEF Auth!DeleteAccount
<1>2. AuthShape /\ u \in Users
  BY <1>1 DEF AuthInv, AuthShape, Drawn, Auth!TypeOK
<1>3. /\ app' \in [Users -> [Jobs -> Auth!Stages]] /\ pro' \in [Users -> Nat] /\ app'[u] = Auth!NoRows
         /\ pro'[u] = 0
      /\ \A v \in Users \ {u} : app'[v] = app[v] /\ pro'[v] = pro[v]
  BY <1>1, <1>2, ErasesRows
<1>4. /\ session' \in [Devices -> Users \cup {None}]
             /\ \A x \in Devices : session'[x] = session[x] \/ (session[x] = u /\ session'[x] = None)
      /\ holds' \in [Identities -> Users \cup {None}]
      /\ \A i \in Identities : holds'[i] # u /\ (holds'[i] = holds[i] \/ (holds[i] = u /\ holds'[i] = None))
      /\ users' \subseteq users /\ signedIn' \subseteq signedIn
      /\ \A x \in signedIn' : session'[x] = session[x] /\ session[x] # u
  BY <1>1, <1>2 DEF Auth!Erases, Auth!WithoutIdentities, Auth!SessionsOf, AuthShape, Auth!TypeOK,
     AuthSetting
<1>5. ASSUME NEW j \in Jobs, app[u][j] # 0
      PROVE  kept'[j] \in Auth!Stages /\ (kept'[j] > 0 => \E v \in Users \ {u} : app[v][j] = kept'[j])
  <2>. DEFINE S == Auth!Remains(u, of(j)) \cup {0}
  <2>1. \A v \in Users : app[v][j] \in 0 .. 2
    BY <1>2 DEF AuthShape, Auth!TypeOK, Auth!Stages
  <2>2. of(j) \in [Users -> Nat] /\ \A v \in Users : of(j)[v] <= 2
    BY <2>1
  <2>3. S \in SUBSET (0 .. 2) /\ \E x \in S : \A y \in S : x >= y
    <3>. HIDE DEF of
    <3>. QED  BY <1>2, <2>2, RemainsMost
  <2>4. \A x \in S : x = 0 \/ \E v \in Users \ {u} : app[v][j] = x
    BY DEF Auth!Remains
  <2>5. kept'[j] = CHOOSE x \in S : \A y \in S : x >= y
    BY <1>1, <1>5
  <2>6. kept'[j] \in S
    <3>. HIDE DEF S
    <3>. QED  BY <2>3, <2>5
  <2>7. kept'[j] \in 0 .. 2 /\ (kept'[j] = 0 \/ \E v \in Users \ {u} : app[v][j] = kept'[j])
    <3>. HIDE DEF S
    <3>. QED  BY <2>3, <2>4, <2>6
  <2>. QED  BY <2>7 DEF Auth!Stages
<1>6. ASSUME pro[u] # 0
      PROVE  bought' \in Nat /\ (bought' > 0 => \E v \in Users \ {u} : pro[v] = bought')
  <2>1. PICK b \in Nat : \A v \in Users : pro[v] <= b
    BY <1>2 DEF AuthShape, Bounded
  <2>. DEFINE S == Auth!Remains(u, pro) \cup {0}
  <2>2. S \in SUBSET (0 .. b) /\ \E x \in S : \A y \in S : x >= y
    BY <1>2, <2>1, RemainsMost DEF AuthShape, Auth!TypeOK
  <2>3. \A x \in S : x = 0 \/ \E v \in Users \ {u} : pro[v] = x
    BY DEF Auth!Remains
  <2>4. bought' = CHOOSE x \in S : \A y \in S : x >= y
    BY <1>1, <1>6
  <2>. HIDE DEF S
  <2>5. bought' \in S
    BY <2>2, <2>4
  <2>6. bought' \in 0 .. b
    BY <2>2, <2>5
  <2>7. bought' = 0 \/ \E v \in Users \ {u} : pro[v] = bought'
    BY <2>3, <2>5
  <2>8. bought' \in Nat
    BY <2>1, <2>6
  <2>. QED  BY <2>7, <2>8
<1>7. Auth!TypeOK'
  <2>1. kept' \in [Jobs -> Auth!Stages]
    <3>1. \A j \in Jobs : app[u][j] = 0 => kept'[j] = kept[j] /\ kept[j] \in Auth!Stages
      BY <1>1, <1>2 DEF AuthShape, Auth!TypeOK
    <3>2. kept' = [j \in Jobs |-> kept'[j]]
      BY <1>1
    <3>. QED  BY <1>5, <3>1, <3>2
  <2>2. bought' \in Nat
    BY <1>1, <1>2, <1>6 DEF AuthShape, Auth!TypeOK
  <2>3. asked' \in 0 .. MaxSignIns /\ crossed' \in BOOLEAN
    BY <1>1, <1>2 DEF AuthShape, Auth!TypeOK, AuthSetting
  <2>. QED  BY <1>1, <1>2, <1>3, <1>4, <2>1, <2>2, <2>3 DEF AuthShape, Auth!TypeOK
<1>8. AuthShape'
  <2>1. \A v \in Users : Known(pro'[v], 0)
    BY <1>2, <1>3 DEF Known, AuthShape, Auth!TypeOK
  <2>2. users' \subseteq ids'
    BY <1>1, <1>2, <1>4 DEF AuthShape, Drawn
  <2>. QED  BY <1>1, <1>2, <1>4, <1>7, <2>1, <2>2, ShapeAside
<1>9. ASSUME ~crossed' PROVE Account' /\ Rows' /\ (~missed' => PlansKept')
  <2>1. Account /\ Rows /\ (~missed => PlansKept) /\ \A c \in SignIns : step'[c] = "off"
    BY <1>1, <1>9 DEF AuthInv
  <2>2. Auth!Linked = {u} /\ Auth!Linked' = {} /\ signedIn' = {}
    <3>1. Auth!Linked = {u}
      BY <1>1, <2>1 DEF Account
    <3>2. \A i \in Identities : holds[i] \in {u, None}
      BY <3>1 DEF Auth!Linked
    <3>3. \A i \in Identities : holds'[i] = None
      BY <1>4, <3>2
    <3>4. \A x \in signedIn' : session[x] = u
      BY <1>4, <2>1, <3>1 DEF Account
    <3>. QED  BY <1>4, <3>1, <3>3, <3>4 DEF Auth!Linked
  <2>3. Account'
    BY <2>1, <2>2 DEF Account, Signing
  <2>4. \A v \in Users \ {u} : v \in Auth!Reachable => v \in Auth!Reachable'
    <3>1. ASSUME NEW v \in Users \ {u}, v \in Auth!Reachable PROVE v \in Auth!Reachable'
      <4>1. (\E x \in Devices : session[x] = v) \/ v \in left
        BY <1>2, <2>2, <3>1, Reach
      <4>2. (\E x \in Devices : session'[x] = v) \/ v \in left'
        BY <1>1, <1>4, <4>1
      <4>. QED  BY <1>8, <4>2 DEF AuthSetting, AuthShape, Auth!TypeOK, Auth!Reachable, Auth!Linked,
         Auth!Range
    <3>. QED  BY <3>1
  <2>5. \A c \in SignIns : ~Leaves(c, PastRows)' /\ ~Leaves(c, PastPlan)' /\ ~Leaves(c, {"identity", "enter"})'
    BY <2>1 DEF Leaves, PastRows, PastPlan
  <2>6. Rows'
    <3>1. ASSUME NEW j \in Jobs \ behind, kept'[j] > 0 PROVE \E v \in Users : app'[v][j] >= kept'[j]
      <4>1. \A v \in Users : app[v][j] \in 0 .. 2 /\ app'[v][j] \in 0 .. 2
        BY <1>2, <1>3 DEF AuthShape, Auth!TypeOK, Auth!Stages
      <4>2. CASE app[u][j] = 0
        <5>1. kept'[j] = kept[j] /\ \A v \in Users : app'[v][j] = app[v][j]
          BY <1>1, <1>3, <4>2 DEF Auth!NoRows
        <5>. QED  BY <2>1, <3>1, <5>1 DEF Rows
      <4>3. CASE app[u][j] # 0
        BY <1>3, <1>5, <3>1, <4>1, <4>3
      <4>. QED  BY <4>2, <4>3
    <3>2. \A j \in Jobs \ behind, v \in Users : app'[v][j] > 0 => v \in Auth!Reachable'
      BY <1>3, <2>1, <2>4 DEF Rows, Auth!NoRows
    <3>. QED  BY <1>1, <2>5, <3>1, <3>2 DEF Rows
  <2>7. ASSUME ~missed' PROVE PlansKept'
    <3>1. PlansKept
      BY <1>1, <2>1, <2>7
    <3>2. \A v \in Users : pro[v] \in Nat /\ pro'[v] \in Nat
      BY <1>2, <1>3 DEF AuthShape, Auth!TypeOK
    <3>3. ASSUME bought' > 0 PROVE \E v \in Users : pro'[v] >= bought'
      <4>1. CASE pro[u] = 0
        BY <1>1, <1>3, <3>1, <3>3, <4>1 DEF PlansKept
      <4>2. CASE pro[u] # 0
        BY <1>3, <1>6, <3>2, <3>3, <4>2
      <4>. QED  BY <4>1, <4>2
    <3>4. \A v \in Users : pro'[v] > 0 => v \in Auth!Reachable'
      BY <1>3, <2>4, <3>1 DEF PlansKept
    <3>. QED  BY <2>5, <3>3, <3>4 DEF PlansKept
  <2>. QED  BY <2>3, <2>6, <2>7
<1>. QED  BY <1>8, <1>9 DEF AuthInv

-----------------------------------------------------------------------------
(* The invariant, and what follows from it.                                *)

LEMMA InitIInv == ASSUME AuthSetting, Auth!Init PROVE AuthInv
<1>1. Auth!NoRows \in [Jobs -> Auth!Stages] /\ \A j \in Jobs : Auth!NoRows[j] = 0
  BY DEF Auth!NoRows, Auth!Stages
<1>2. /\ users = Devices /\ ids = Devices /\ app \in [Users -> [Jobs -> Auth!Stages]]
         /\ pro \in [Users -> Nat]
      /\ \A u \in Users : pro[u] = 0 /\ \A j \in Jobs : app[u][j] = 0
      /\ holds \in [Identities -> Users \cup {None}] /\ \A i \in Identities : holds[i] = None
      /\ session \in [Devices -> Users \cup {None}] /\ \A d \in Devices : session[d] = d
      /\ step \in [SignIns -> Auth!Places] /\ mine \in [SignIns -> AuthLocals]
         /\ \A c \in SignIns : step[c] = "off" /\ mine[c] = Auth!Idle
      /\ signedIn = {} /\ asked = 0 /\ deaths = 0 /\ kept \in [Jobs -> Auth!Stages]
         /\ (\A j \in Jobs : kept[j] = 0)
      /\ bought = 0 /\ behind = {} /\ missed = FALSE /\ crossed = FALSE /\ left = {}
  BY <1>1, IdleTyped DEF Auth!Init, AuthSetting, Auth!Places
<1>3. Auth!TypeOK
  <2>1. /\ Devices \subseteq Users /\ 0 \in 0 .. MaxSignIns /\ 0 \in 0 .. MaxDeaths
           /\ {} \subseteq Devices
        /\ {} \subseteq Jobs /\ {} \subseteq Users /\ FALSE \in BOOLEAN /\ 0 \in Nat
    BY DEF AuthSetting
  <2>. QED  BY <1>2, <2>1 DEF Auth!TypeOK, AuthLocals
<1>4. Bounded /\ Drawn /\ \A c \in SignIns : CallOK(c)
  <2>1. Bounded
    BY <1>2, IdleTyped DEF Bounded
  <2>. QED  BY <1>2, <2>1 DEF Drawn, CallOK, AuthSetting, Signing
<1>5. Auth!Linked = {}
  BY <1>2 DEF Auth!Linked
<1>6. Account /\ Rows /\ PlansKept
  BY <1>2, <1>5 DEF Account, Rows, PlansKept, Leaves, PastRows, PastPlan, Signing
<1>. QED  BY <1>3, <1>4, <1>6 DEF AuthInv, AuthShape

LEMMA StutterKeeps == ASSUME AuthInv, UNCHANGED Auth!vars PROVE AuthInv'
<1>1. /\ UNCHANGED <<users, app, pro, holds, session, signedIn, step, mine, ids, asked, deaths>>
      /\ UNCHANGED <<kept, bought, behind, missed, crossed, left>>
  BY DEF Auth!vars, Auth!rows, Auth!told, Auth!marks
<1>2. Auth!Linked' = Auth!Linked /\ Auth!Reachable' = Auth!Reachable
  BY <1>1 DEF Auth!Linked, Auth!Reachable
<1>3. AuthShape'
  BY <1>1 DEF AuthInv, AuthShape, Auth!TypeOK, Bounded, Drawn, CallOK
<1>4. ~crossed' => Account'
  BY <1>1, <1>2 DEF AuthInv, Account, SignsIn, Auth!First
<1>5. ~crossed' => Rows' /\ (~missed' => PlansKept')
  BY <1>1, <1>2 DEF AuthInv, Rows, PlansKept, Leaves
<1>. QED  BY <1>3, <1>4, <1>5 DEF AuthInv

LEMMA NextIInv == ASSUME AuthSetting, AuthInv, [Auth!Next]_(Auth!vars) PROVE AuthInv'
<1>1. ASSUME NEW c \in SignIns,
             \/ Auth!StartWrite(c) \/ Auth!Write(c) \/ Auth!StartSignIn(c) \/ Auth!Find(c)
             \/ Auth!Pairs(c) \/ Auth!FoldRead(c) \/ Auth!FoldWrite(c) \/ Auth!Move(c)
      PROVE  AuthInv'
  BY <1>1, StartWriteKeeps, WriteKeeps, StartSignInKeeps, FindKeeps, PairsKeeps, FoldReadKeeps,
     FoldWriteKeeps, MoveKeeps
<1>2. ASSUME NEW c \in SignIns,
             \/ Auth!PlanRead(c) \/ Auth!PlanWrite(c) \/ Auth!EndSessions(c) \/ Auth!DropIdentities(c)
             \/ Auth!DeleteGuest(c)
             \/ Auth!Identify(c) \/ Auth!Enter(c) \/ Auth!Dies(c)
      PROVE  AuthInv'
  BY <1>2, PlanReadKeeps, PlanWriteKeeps, EndSessionsKeeps, DropIdentitiesKeeps, DeleteGuestKeeps,
     IdentifyKeeps, EnterKeeps, RequestDiesKeeps
<1>3. ASSUME NEW d \in Devices, Auth!Buy(d) \/ Auth!LogOut(d) \/ Auth!DeleteAccount(d) PROVE AuthInv'
  BY <1>3, BuyKeeps, LogOutKeeps, DeleteAccountKeeps
<1>. QED  BY <1>1, <1>2, <1>3, StutterKeeps DEF Auth!Next

LEMMA SpecIInv == ASSUME AuthSetting PROVE Auth!Spec => []AuthInv
<1>1. Auth!Init => AuthInv
  BY InitIInv
<1>2. AuthInv /\ [Auth!Next]_(Auth!vars) => AuthInv'
  BY NextIInv
<1>. QED  BY <1>1, <1>2, PTL DEF Auth!Spec

(* SignIn counts with its own copy of the library. *)
LEMMA SameCount == \A S : Auth!Cardinality(S) = Cardinality(S)
BY DEF Auth!Cardinality, Cardinality

(* The invariant says more than the two properties. *)
LEMMA OneAccountHeld == ASSUME AuthSetting, AuthInv PROVE Auth!OneAccount
<1>. SUFFICES ASSUME ~crossed
              PROVE  Cardinality(Auth!Linked) <= 1
                     /\ (Auth!Quiet => \A d \in signedIn : session[d] \in Auth!Linked)
  BY SameCount DEF Auth!OneAccount
<1>1. Account
  BY DEF AuthInv
<1>2. Cardinality(Auth!Linked) <= 1
  <2>1. CASE Auth!Linked = {}
    BY <2>1, FS_EmptySet
  <2>2. CASE Auth!Linked # {}
    <3>1. PICK s \in Auth!Linked : TRUE
      BY <2>2
    <3>2. Auth!Linked = {s}
      BY <1>1, <3>1 DEF Account
    <3>3. Cardinality({s}) = 1
      BY FS_Singleton
    <3>. QED  BY <3>2, <3>3
  <2>. QED  BY <2>1, <2>2
<1>. QED  BY <1>1, <1>2 DEF Account

LEMMA NothingLostHeld == ASSUME AuthSetting, AuthInv PROVE Auth!NothingLost
<1>. SUFFICES ASSUME ~crossed
              PROVE  /\ \A j \in Jobs \ behind : kept[j] > 0 => \E u \in Auth!Reachable : app[u][j] >= kept[j]
                     /\ bought > 0 /\ ~missed => \E u \in Auth!Reachable : pro[u] >= bought
  BY DEF Auth!NothingLost
<1>1. AuthShape /\ Rows /\ (~missed => PlansKept)
  BY DEF AuthInv
<1>2. /\ \A u \in Users : pro[u] \in Nat /\ \A j \in Jobs : app[u][j] \in 0 .. 2 /\ kept[j] \in 0 .. 2
      /\ bought \in Nat
  BY <1>1 DEF AuthShape, Auth!TypeOK, Auth!Stages
<1>3. ASSUME NEW j \in Jobs \ behind, kept[j] > 0 PROVE \E u \in Auth!Reachable : app[u][j] >= kept[j]
  <2>1. PICK u \in Users : app[u][j] >= kept[j]
    BY <1>1, <1>3 DEF Rows
  <2>2. app[u][j] > 0
    BY <1>2, <1>3, <2>1
  <2>. QED  BY <1>1, <2>1, <2>2 DEF Rows
<1>4. ASSUME bought > 0, ~missed PROVE \E u \in Auth!Reachable : pro[u] >= bought
  <2>1. PICK u \in Users : pro[u] >= bought
    BY <1>1, <1>4 DEF PlansKept
  <2>2. pro[u] > 0
    BY <1>2, <1>4, <2>1
  <2>. QED  BY <1>1, <1>4, <2>1, <2>2 DEF PlansKept
<1>. QED  BY <1>3, <1>4

(* Users, identities, sessions and what calls hold stay well typed,        *)
(* however sign-ins, merges, logouts and deletions overlap and die.        *)
THEOREM SignInTypeCorrect == Auth!Spec => []Auth!TypeOK
<1>1. AuthInv => Auth!TypeOK
  BY DEF AuthInv, AuthShape
<1>. QED  BY <1>1, SpecIInv, SignInAssumption, PTL

(* One person, one account: however sign-ins on any number of devices      *)
(* overlap, die and are tried again, one user at most holds the identities *)
(* of the email and the devices signed in act for it, unless two first     *)
(* sign-ins, or one and a deletion, crossed.                               *)
THEOREM OneAccountAlways == Auth!Spec => []OneAccount
<1>1. AuthInv => OneAccount
  BY OneAccountHeld, SignInAssumption DEF OneAccount
<1>. QED  BY <1>1, SpecIInv, SignInAssumption, PTL

(* Guest data comes along: what the person was told is saved, applied to   *)
(* or paid for is with a user they are or can sign in as, whatever merges  *)
(* overlapped and died, but for what was written behind a merge's back.    *)
THEOREM NothingLostAlways == Auth!Spec => []NothingLost
<1>1. AuthInv => NothingLost
  BY NothingLostHeld, SignInAssumption DEF NothingLost
<1>. QED  BY <1>1, SpecIInv, SignInAssumption, PTL
=============================================================================
