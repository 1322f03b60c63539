----------------------------- MODULE TailorUsage -----------------------------
(***************************************************************************)
(* One person's tailored résumés and what they cost: the plan that takes   *)
(* one of the week's tailorings, the AI requests that write the résumé or  *)
(* rewrite a bullet of it, the app's budget of AI requests a day, and the  *)
(* person's own edits.  One step is one D1 statement or one AI request.    *)
(*                                                                         *)
(* Time is counted in UTC days, and a zone is the days by which its Monday *)
(* comes before UTC's; both the person's zone and the plan may change      *)
(* between any two steps.  The model's name is the same throughout.  What  *)
(* a request reserves is what it is charged (providerUnits is always       *)
(* null), so the day's units are the day's attempts.                       *)
(***************************************************************************)
EXTENDS Integers, FiniteSets, FiniteSetsExt

CONSTANTS
    Tailorings,   \* usage rows, each with the tailoring that names it
    Requests,     \* invocations that may be under way at once
    FreeLimit, ProLimit,   \* tailorings a week on either plan
    Zones,        \* the time zones the person may be in
    DailyCharges, \* APP_USER_DAILY_LIMIT
    Budget,       \* AI requests a day: those the units' limit and the others leave
    Week,         \* days of a week
    MaxDays, MaxCalls, MaxFaults   \* bounds

ASSUME UsageAssumption ==
    /\ IsFiniteSet(Tailorings) /\ "none" \notin Tailorings
    /\ FreeLimit \in Nat /\ ProLimit \in Nat /\ Zones \subseteq Nat /\ Zones # {}
    /\ DailyCharges \in Nat /\ Budget \in Nat /\ Week \in Nat \ {0}
    /\ MaxDays \in Nat /\ MaxCalls \in Nat /\ MaxFaults \in Nat

VARIABLES
    usage,      \* tailor_usage.state, "none" before the INSERT
    made,       \* the day of its created_at
    attempts,   \* attempt_count
    tailoring,  \* tailorings.status, "none" before the INSERT
    day,        \* today
    zone,       \* users.time_zone
    limit,      \* tailorings a week on the plan the person has now
    at,         \* where each request is
    my,         \* its locals
    calls, faults,
    recharged,  \* usage rows refunded once and charged again by a generation
    moved,      \* those charged under a larger plan, or that a new zone put in the week
    rewritten,  \* tailorings whose status is a rewriting's or the person's
    raced,      \* tailorings two generations overlapped on
    cut         \* those with a request that died, or whose refund failed

ledger == <<usage, made, attempts>>
now    == <<day, zone, limit>>
marks  == <<recharged, moved, rewritten, raced, cut>>
vars   == <<ledger, tailoring, now, at, my, calls, faults, marks>>

(* What a request is, of which row, and the allowance as it read it. *)
Idle ==
    [call |-> "none", id |-> "none", since |-> 0, limit |-> 0, used |-> 0, valid |-> FALSE]

Places == {"off", "reserve", "ask", "complete", "reject", "save", "refund"}

TypeOK ==
    /\ usage \in [Tailorings -> {"none", "reserved", "completed", "refunded"}]
    /\ made \in [Tailorings -> 0 .. MaxDays]
    /\ attempts \in [Tailorings -> Nat]
    /\ tailoring \in [Tailorings -> {"none", "planned", "generated", "failed"}]
    /\ day \in 0 .. MaxDays /\ zone \in Zones /\ limit \in {FreeLimit, ProLimit}
    /\ at \in [Requests -> Places]
    /\ my \in [Requests -> [call : {"none", "plan", "generate", "regenerate"},
                            id : Tailorings \cup {"none"}, since : Int, limit : Nat,
                            used : Nat, valid : BOOLEAN]]
    /\ calls \in 0 .. MaxCalls /\ faults \in 0 .. MaxFaults
    /\ recharged \subseteq Tailorings /\ moved \subseteq Tailorings
    /\ rewritten \subseteq Tailorings /\ raced \subseteq Tailorings
    /\ cut \subseteq Tailorings

Init ==
    /\ usage = [u \in Tailorings |-> "none"]
    /\ made = [u \in Tailorings |-> 0]
    /\ attempts = [u \in Tailorings |-> 0]
    /\ tailoring = [u \in Tailorings |-> "none"]
    /\ day = 0 /\ zone \in Zones /\ limit \in {FreeLimit, ProLimit}
    /\ at = [r \in Requests |-> "off"]
    /\ my = [r \in Requests |-> Idle]
    /\ calls = 0 /\ faults = 0
    /\ recharged = {} /\ moved = {} /\ rewritten = {} /\ raced = {} /\ cut = {}

-----------------------------------------------------------------------------
(* What the queries of the ledger count.                                   *)

Charged(u) == usage[u] \in {"reserved", "completed"}

ChargedSince(d) == {u \in Tailorings : Charged(u) /\ made[u] >= d}

AttemptsToday == MapThenSumSet(LAMBDA u : attempts[u], {u \in Tailorings : made[u] = day})

(* allowanceWindow, for a week: the Monday, in zone z, that day d is of. *)
WeekBegan(d, z) == d - ((d + z) % Week)

ThisWeek == ChargedSince(WeekBegan(day, zone))

Go(r, from, to) == at[r] = from /\ at' = [at EXCEPT ![r] = to]

Ends(r) == at' = [at EXCEPT ![r] = "off"] /\ my' = [my EXCEPT ![r] = Idle]

(* What a throw cost beyond its own statement: nothing, the catch refunds. *)
Fault == faults < MaxFaults /\ faults' = faults + 1

-----------------------------------------------------------------------------
(* POST /tailor/:job_id/plan.                                              *)

(* allowanceFor: the plan's limit, the window and what is used of it. *)
StartPlan(r, u) ==
    /\ calls < MaxCalls
    /\ usage[u] = "none" /\ \A q \in Requests : my[q].id # u
    /\ Go(r, "off", "reserve")
    /\ my' = [my EXCEPT ![r] =
         [Idle EXCEPT !.call = "plan", !.id = u, !.since = WeekBegan(day, zone),
                      !.limit = limit, !.used = Cardinality(ThisWeek)]]
    /\ calls' = calls + 1
    /\ UNCHANGED <<ledger, tailoring, now, faults, marks>>

HasRoom_AsRead(r) == my[r].used < my[r].limit

HasRoom(r) == Cardinality(ChargedSince(my[r].since)) < my[r].limit

(* reserveAppTailorQuota: "one statement both checks and reserves quota".  *)
ReservePlan(r) ==
    /\ my[r].call = "plan"
    /\ IF HasRoom(r) /\ AttemptsToday < Budget
       THEN /\ Go(r, "reserve", "ask")
            /\ usage' = [usage EXCEPT ![my[r].id] = "reserved"]
            /\ made' = [made EXCEPT ![my[r].id] = day]
            /\ attempts' = [attempts EXCEPT ![my[r].id] = 1]
            /\ UNCHANGED my
       ELSE at[r] = "reserve" /\ Ends(r) /\ UNCHANGED ledger
    /\ UNCHANGED <<tailoring, now, calls, faults, marks>>

-----------------------------------------------------------------------------
(* POST /tailorings/:id/generate and /regenerate.                          *)

Generating(u) == {r \in Requests : my[r].call = "generate" /\ my[r].id = u}

(* The row is loaded; a rewriting needs a résumé. *)
StartWriting(r, u, call) ==
    /\ calls < MaxCalls
    /\ tailoring[u] \in (IF call = "generate" THEN {"planned"} ELSE {}) \cup {"generated", "failed"}
    /\ Go(r, "off", "reserve")
    /\ my' = [my EXCEPT ![r] = [Idle EXCEPT !.call = call, !.id = u]]
    /\ calls' = calls + 1
    /\ raced' = IF call = "generate" /\ Generating(u) # {} THEN raced \cup {u} ELSE raced
    /\ UNCHANGED <<ledger, tailoring, now, faults, recharged, moved, rewritten, cut>>

(* A generation charges a refunded tailoring again, as far as a day's limit *)
(* allows: "chargeCredit only reactivates a previously refunded tailoring". *)
Charges(r) == my[r].call = "generate" /\ usage[my[r].id] = "refunded"

(* reserveTailorProviderAttempt. *)
ReserveAttempt(r) ==
    LET u == my[r].id IN
    /\ my[r].call \in {"generate", "regenerate"}
    /\ IF /\ Charges(r) => Cardinality(ChargedSince(day)) < DailyCharges
          /\ AttemptsToday + 1 <= Budget
       THEN /\ Go(r, "reserve", "ask")
            /\ usage' = [usage EXCEPT ![u] = IF Charges(r) THEN "reserved" ELSE @]
            /\ attempts' = [attempts EXCEPT ![u] = @ + 1]
            /\ recharged' = IF Charges(r) THEN recharged \cup {u} ELSE recharged
            /\ UNCHANGED <<made, my>>
       ELSE at[r] = "reserve" /\ Ends(r) /\ UNCHANGED <<ledger, recharged>>
    /\ UNCHANGED <<tailoring, now, calls, faults, moved, rewritten, raced, cut>>

-----------------------------------------------------------------------------
(* What all three do with the answer.                                      *)

(* The AI answers, with a résumé the evidence bears out or not, or throws, *)
(* as a plan with issues does.                                             *)
Ask(r) ==
    /\ at[r] = "ask"
    /\ \/ Go(r, "ask", "complete") /\ my' = [my EXCEPT ![r].valid = TRUE]
       \/ my[r].call # "plan" /\ Go(r, "ask", "reject") /\ UNCHANGED my
       \/ Go(r, "ask", "refund") /\ UNCHANGED my
    /\ UNCHANGED <<ledger, tailoring, now, calls, faults, marks>>

(* A statement of the try block: it is done, or throws, done or not. *)
Does(r, from, to, effect, none) ==
    /\ at[r] = from
    /\ \/ /\ effect /\ UNCHANGED faults
          /\ IF to = "off" THEN Ends(r) ELSE Go(r, from, to) /\ UNCHANGED my
       \/ /\ effect \/ none
          /\ Go(r, from, "refund") /\ Fault /\ UNCHANGED my

(* completeAppTailorUsage: only a rewriting preserves a refund. *)
Complete(r) ==
    LET u == my[r].id
        kept == my[r].call = "regenerate" /\ usage[u] = "refunded"
    IN
    /\ Does(r, "complete", "save",
            /\ usage' = [usage EXCEPT ![u] = IF kept THEN "refunded" ELSE "completed"]
            /\ recharged' = IF Charges(r) THEN recharged \cup {u} ELSE recharged,
            UNCHANGED <<usage, recharged>>)
    /\ UNCHANGED <<made, attempts, tailoring, now, calls, moved, rewritten, raced, cut>>

GivesBack_PlanOnly(r) == my[r].call = "plan"

(* failAppTailorUsage: a rewriting gives nothing back. *)
GivesBack(r) == my[r].call \in {"plan", "generate"}

Refunded(r) == usage' = [usage EXCEPT ![my[r].id] = IF GivesBack(r) THEN "refunded" ELSE @]

(* The résumé did not validate. *)
Reject(r) ==
    /\ Does(r, "reject", "save", Refunded(r), UNCHANGED usage)
    /\ UNCHANGED <<made, attempts, tailoring, now, calls, marks>>

Status(r) == IF my[r].call = "plan" THEN "planned" ELSE IF my[r].valid THEN "generated" ELSE "failed"

Save(r) ==
    LET u == my[r].id IN
    /\ Does(r, "save", "off",
            /\ tailoring' = [tailoring EXCEPT ![u] = Status(r)]
            /\ rewritten' = IF my[r].call = "regenerate" THEN rewritten \cup {u} ELSE rewritten \ {u},
            UNCHANGED <<tailoring, rewritten>>)
    /\ UNCHANGED <<ledger, now, calls, recharged, moved, raced, cut>>

(* The catch, whose own failure is swallowed. *)
Refund(r) ==
    /\ at[r] = "refund" /\ Ends(r)
    /\ \/ Refunded(r) /\ UNCHANGED <<faults, cut>>
       \/ Fault /\ cut' = cut \cup {my[r].id} /\ UNCHANGED usage
    /\ UNCHANGED <<made, attempts, tailoring, now, calls, recharged, moved, rewritten, raced>>

(* The invocation ends without its catch. *)
Dies(r) ==
    /\ at[r] # "off" /\ Ends(r) /\ Fault
    /\ cut' = cut \cup {my[r].id}
    /\ UNCHANGED <<ledger, tailoring, now, calls, recharged, moved, rewritten, raced>>

-----------------------------------------------------------------------------
(* PATCH /tailorings/:id: the person's edit is saved, valid or not. *)
Edit(u) ==
    /\ calls < MaxCalls /\ calls' = calls + 1
    /\ tailoring[u] # "none"
    /\ \E status \in {"generated", "failed"} : tailoring' = [tailoring EXCEPT ![u] = status]
    /\ rewritten' = rewritten \cup {u}
    /\ UNCHANGED <<ledger, now, at, my, faults, recharged, moved, raced, cut>>

NextDay ==
    /\ day < MaxDays /\ day' = day + 1
    /\ UNCHANGED <<ledger, tailoring, zone, limit, at, my, calls, faults, marks>>

(* The person says where they are, or signs in on a device that does: the  *)
(* week may begin on an earlier Monday, with what was charged since.       *)
MoveZone ==
    /\ calls < MaxCalls /\ calls' = calls + 1
    /\ zone' \in Zones \ {zone}
    /\ moved' = moved \cup
         {u \in ChargedSince(WeekBegan(day, zone')) : made[u] < WeekBegan(day, zone)}
    /\ UNCHANGED <<ledger, tailoring, day, limit, at, my, faults, recharged, rewritten, raced, cut>>

(* The plan is bought, ends, or is set by an admin: what a larger one let  *)
(* the person have stays charged, and requests may be between the two.     *)
ChangePlan ==
    LET planning == {r \in Requests : my[r].call = "plan" /\ at[r] = "reserve"} IN
    /\ calls < MaxCalls /\ calls' = calls + 1
    /\ limit' \in {FreeLimit, ProLimit} \ {limit}
    /\ moved' = IF limit' < limit
                THEN moved \cup ThisWeek \cup {my[r].id : r \in planning} ELSE moved
    /\ UNCHANGED <<ledger, tailoring, day, zone, at, my, faults, recharged, rewritten, raced, cut>>

Next ==
    \/ \E r \in Requests :
         \/ \E u \in Tailorings :
              \/ StartPlan(r, u)
              \/ \E call \in {"generate", "regenerate"} : StartWriting(r, u, call)
         \/ ReservePlan(r) \/ ReserveAttempt(r) \/ Ask(r) \/ Complete(r) \/ Reject(r)
         \/ Save(r) \/ Refund(r) \/ Dies(r)
    \/ \E u \in Tailorings : Edit(u)
    \/ NextDay \/ MoveZone \/ ChangePlan

Spec == Init /\ [][Next]_vars

-----------------------------------------------------------------------------
(* "Free gets 3 a week" (tailor.ts): however many requests reserve at once, *)
(* the week's charged tailorings are within the limit of the plan the      *)
(* person has now, in the zone the person is in now.  Apart are those a    *)
(* generation charged again after a refund, those from before a smaller    *)
(* plan, and those of the days a change of zone put back into the week.    *)
AllowanceKept == Cardinality(ThisWeek \ (recharged \cup moved)) <= limit

(* "Refunding changes the user's included-use count" (migration 0065): once *)
(* no request works on it, a tailoring that failed is not charged, however  *)
(* its requests failed; one is charged for a plan or a résumé it has.  Not  *)
(* so where a request died or its refund failed, or two generations of one  *)
(* tailoring overlapped.  What a rewriting or an edit spoils stays charged. *)
ChargedIsServed ==
    \A u \in Tailorings \ (cut \cup raced) : (\A r \in Requests : my[r].id # u) =>
        /\ usage[u] # "reserved"
        /\ Charged(u) => tailoring[u] # "none"
        /\ Charged(u) /\ tailoring[u] = "failed" => u \in rewritten
=============================================================================
