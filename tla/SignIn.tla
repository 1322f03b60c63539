-------------------------------- MODULE SignIn --------------------------------
(***************************************************************************)
(* Guests, accounts and signing in.  A device acts as the user of its      *)
(* session, at first a guest of its own.  Signing in with an identity that *)
(* an account holds moves the guest's rows over to it, statement by        *)
(* statement, and deletes the guest; with a new identity the guest becomes *)
(* the account.  All identities here are of one person and carry the same  *)
(* verified email.                                                         *)
(*                                                                         *)
(* One step is one D1 statement or batch.  How an identity is proved (a    *)
(* code, a link, Google, Apple, a password) is left out: it has no part in *)
(* what follows.  Of the rows a guest has, the model keeps the             *)
(* applications, which can clash, and the plan, which is read first and    *)
(* written later; the others move in one statement each.                   *)
(***************************************************************************)
EXTENDS Integers, FiniteSets, Functions

CONSTANTS
    Identities, Jobs,
    Devices, Users,   \* a device's first guest goes by the device's name
    Calls,        \* requests that may be under way at once
    None,         \* no user and no job
    MaxCalls, MaxFaults   \* bounds

(* Devices is a subset of Users, and None is no user and no job.           *)

VARIABLES
    users,     \* rows of users
    app,       \* stage of each user's application for each job
    pro,       \* until when each user has Pro, 0 for Free
    holds,     \* auth_identities.user_id
    session,   \* user of each device's live session
    signedIn,  \* devices whose session is of state "authenticated"
    at, my,    \* where each call is, and its locals
    drawn,     \* user ids drawn
    calls, faults,
    kept, bought,  \* what the person was told is saved and paid for
    late,      \* jobs written under a merge that had passed them, or died past the sessions
    missed,    \* Pro was bought under a merge that had passed the plan
    crossed,   \* two first sign-ins, or one and a deletion, overlapped
    left       \* guests of a device that a sign-in begun before them took over

rows  == <<users, app, pro, holds, session, signedIn>>
told  == <<kept, bought>>
marks == <<late, missed, crossed, left>>
vars  == <<rows, at, my, drawn, calls, faults, told, marks>>

Stages == 0 .. 2   \* none, Saved, applied

HasApplied(stage) == stage = 2

Places == {"off", "write", "find", "pairs", "fold", "folding", "move", "plan", "planning",
           "sessions", "identities", "delete", "identity", "enter"}

Idle == [device |-> None, user |-> None, target |-> None, identity |-> None, found |-> FALSE,
         folds |-> {}, job |-> None, read |-> <<0, 0>>]

TypeOK ==
    /\ users \subseteq Users
    /\ app \in [Users -> [Jobs -> Stages]] /\ pro \in [Users -> Nat]
    /\ holds \in [Identities -> Users \cup {None}]
    /\ session \in [Devices -> Users \cup {None}] /\ signedIn \subseteq Devices
    /\ at \in [Calls -> Places]
    /\ my \in [Calls -> [device : Devices \cup {None}, user : Users \cup {None},
                         target : Users \cup {None}, identity : Identities \cup {None},
                         found : BOOLEAN, folds : SUBSET Jobs, job : Jobs \cup {None},
                         read : Nat \X Nat]]
    /\ drawn \subseteq Users /\ calls \in 0 .. MaxCalls /\ faults \in 0 .. MaxFaults
    /\ kept \in [Jobs -> Stages] /\ bought \in Nat
    /\ late \subseteq Jobs /\ missed \in BOOLEAN /\ crossed \in BOOLEAN /\ left \subseteq Users

NoRows == [j \in Jobs |-> 0]

Init ==
    /\ users = Devices /\ drawn = Devices
    /\ app = [u \in Users |-> NoRows] /\ pro = [u \in Users |-> 0]
    /\ holds = [i \in Identities |-> None]
    /\ session = [d \in Devices |-> d] /\ signedIn = {}
    /\ at = [c \in Calls |-> "off"] /\ my = [c \in Calls |-> Idle]
    /\ calls = 0 /\ faults = 0
    /\ kept = NoRows /\ bought = 0
    /\ late = {} /\ missed = FALSE /\ crossed = FALSE /\ left = {}

Later(x, y) == IF x > y THEN x ELSE y

Goes(c, place) == at' = [at EXCEPT ![c] = place]
Notes(c, locals) == my' = [my EXCEPT ![c] = locals]
Ends(c) == Goes(c, "off") /\ Notes(c, Idle)

(* A statement is refused and the request with it: nothing is written.     *)
Throws(c) == Ends(c) /\ UNCHANGED <<rows, drawn, calls, faults, told, marks>>

(* The merge call c makes of user u, if any, has its rows behind it.       *)
Merging(c, u, places) == my[c].user = u /\ my[c].target # u /\ at[c] \in places

-----------------------------------------------------------------------------
(* A request comes in: a device without a session is given a guest.        *)
Arrives(c, d, place, locals) ==
    /\ at[c] = "off" /\ calls < MaxCalls /\ calls' = calls + 1
    /\ Goes(c, place)
    /\ \/ /\ session[d] # None
          /\ Notes(c, [locals EXCEPT !.user = session[d]])
          /\ UNCHANGED <<users, session, drawn>>
       \/ /\ session[d] = None
          /\ \E u \in Users \ drawn :
                /\ Notes(c, [locals EXCEPT !.user = u])
                /\ users' = users \cup {u} /\ drawn' = drawn \cup {u}
                /\ session' = [session EXCEPT ![d] = u]
    /\ UNCHANGED <<app, pro, holds, signedIn, faults, told, marks>>

(* Saving a job or marking it applied: the user is the session's, the row  *)
(* is written a moment later, in one step (its races are not looked at     *)
(* here).                                                                  *)
StartWrite(c) == \E d \in Devices, j \in Jobs, stage \in Stages \ {0} :
    Arrives(c, d, "write", [Idle EXCEPT !.device = d, !.job = j, !.read = <<stage, 0>>])

Passed(u) ==
    \/ \E b \in Calls : Merging(b, u, {"plan", "planning", "sessions", "identities", "delete"})
    \/ u \notin Range(session) \cup Range(holds)

Write(c) ==
    LET u == my[c].user  j == my[c].job  stage == my[c].read[1] IN
    /\ at[c] = "write"
    /\ \/ u \notin users /\ Throws(c)
       \/ /\ u \in users
          /\ app' = [app EXCEPT ![u][j] = Later(@, stage)]
          /\ kept' = [kept EXCEPT ![j] = Later(@, stage)]
          /\ late' = late \cup {k \in {j} : Passed(u)}
          /\ Ends(c)
          /\ UNCHANGED <<users, pro, holds, session, signedIn, drawn, calls, faults, bought, missed, crossed, left>>

(* Apple says the device's user has Pro, for longer each time.             *)
Buy(d) ==
    LET u == session[d] IN
    /\ u # None /\ u \in users /\ calls < MaxCalls /\ calls' = calls + 1
    /\ pro' = [pro EXCEPT ![u] = bought + 1] /\ bought' = bought + 1
    /\ missed' = (missed \/ \E b \in Calls : Merging(b, u, {"sessions", "identities", "delete"}))
    /\ UNCHANGED <<users, app, holds, session, signedIn, at, my, drawn, faults, kept, late, crossed, left>>

-----------------------------------------------------------------------------
(* signInWithIdentity: the account that holds the identity, else the one   *)
(* its verified email is on, else the session's own user.                  *)
StartSignIn(c) == \E d \in Devices, i \in Identities :
    Arrives(c, d, "find", [Idle EXCEPT !.device = d, !.identity = i])

Linked == {holds[i] : i \in Identities} \ {None}

(* findIdentityByProviderSubject, then findIdentityByEmail. *)
Targets_SubjectOnly(i, u) == {IF holds[i] # None THEN holds[i] ELSE u}

Targets(i, u) == IF holds[i] # None THEN {holds[i]} ELSE IF Linked # {} THEN Linked ELSE {u}

First(c) == at[c] = "identity" /\ ~my[c].found

Find(c) ==
    LET i == my[c].identity  u == my[c].user IN
    /\ at[c] = "find"
    /\ \E target \in Targets(i, u) :
          /\ Notes(c, [my[c] EXCEPT !.target = target, !.found = holds[i] # None])
          /\ Goes(c, IF target = u THEN "identity" ELSE "pairs")
    /\ crossed' = (crossed \/ (Linked = {} /\ \E b \in Calls \ {c} : First(b)))
    /\ UNCHANGED <<rows, drawn, calls, faults, told, late, missed, left>>

(* mergeApplicationConflicts: the jobs both have, then one at a time both  *)
(* rows, then one row out of the two as they were read.                    *)
Pairs(c) ==
    /\ at[c] = "pairs"
    /\ Notes(c, [my[c] EXCEPT !.folds = {j \in Jobs : app[my[c].user][j] > 0 /\ app[my[c].target][j] > 0}])
    /\ Goes(c, "fold")
    /\ UNCHANGED <<rows, drawn, calls, faults, told, marks>>

FoldRead(c) ==
    /\ at[c] = "fold"
    /\ \/ my[c].folds = {} /\ Goes(c, "move") /\ UNCHANGED my
       \/ \E j \in my[c].folds :
             LET read == <<app[my[c].user][j], app[my[c].target][j]>> IN
             /\ Goes(c, IF 0 \in {read[1], read[2]} THEN "fold" ELSE "folding")
             /\ Notes(c, [my[c] EXCEPT !.folds = @ \ {j}, !.job = j, !.read = read])
    /\ UNCHANGED <<rows, drawn, calls, faults, told, marks>>

(* mergedApplicationFields: an applied copy beats a Saved one.             *)
Folded_AccountWins(guest, account) == account

Folded(guest, account) ==
    IF HasApplied(guest) # HasApplied(account) /\ HasApplied(guest) THEN guest ELSE account

FoldWrite(c) ==
    LET u == my[c].user  t == my[c].target  j == my[c].job  read == my[c].read IN
    /\ at[c] = "folding"
    /\ \/ app[t][j] = 0 /\ Throws(c)
       \/ /\ app[t][j] # 0
          /\ app' = [app EXCEPT ![u][j] = 0, ![t][j] = Folded(read[1], read[2])]
          /\ late' = late \cup {k \in {j} : app[t][j] # read[2] \/ app[u][j] > read[1]}
          /\ Goes(c, "fold")
          /\ UNCHANGED <<users, pro, holds, session, signedIn, my, drawn, calls, faults, told, missed, crossed, left>>

(* The rest move over in one batch, which the unique index on user and job *)
(* refuses when the two have come to share a job since.                    *)
Clashes(u, t) == \E j \in Jobs : app[u][j] > 0 /\ app[t][j] > 0

Move(c) ==
    LET u == my[c].user  t == my[c].target IN
    /\ at[c] = "move"
    /\ \/ (Clashes(u, t) \/ (t \notin users /\ app[u] # NoRows)) /\ Throws(c)
       \/ /\ ~Clashes(u, t) /\ (t \in users \/ app[u] = NoRows)
          /\ app' = [app EXCEPT ![u] = NoRows, ![t] = [j \in Jobs |-> Later(app[u][j], app[t][j])]]
          /\ Goes(c, "plan")
          /\ UNCHANGED <<users, pro, holds, session, signedIn, my, drawn, calls, faults, told, marks>>

(* mergeGuestPlan: both plans are read, then the longer one is the account's. *)
PlanRead(c) ==
    /\ at[c] = "plan"
    /\ Notes(c, [my[c] EXCEPT !.read = <<pro[my[c].user], pro[my[c].target]>>])
    /\ Goes(c, "planning")
    /\ UNCHANGED <<rows, drawn, calls, faults, told, marks>>

PlanWrite(c) ==
    LET u == my[c].user  t == my[c].target  read == my[c].read IN
    /\ at[c] = "planning"
    /\ \/ read[1] > 0 /\ t \notin users /\ Throws(c)
       \/ /\ read[1] = 0 \/ t \in users
          /\ pro' = IF read[1] = 0 THEN pro
                    ELSE [pro EXCEPT ![u] = 0, ![t] = Later(read[1], read[2])]
          /\ missed' = (missed \/ <<pro[u], pro[t]>> # read)
          /\ Goes(c, "sessions")
          /\ UNCHANGED <<users, app, holds, session, signedIn, my, drawn, calls, faults, told, late, crossed, left>>

SessionsOf(u) == {d \in Devices : session[d] = u}

(* The guest goes: its sessions, its identities, then the row with what    *)
(* still hangs on it.                                                      *)
EndSessions(c) ==
    /\ at[c] = "sessions" /\ Goes(c, "identities")
    /\ session' = [d \in Devices |-> IF session[d] = my[c].user THEN None ELSE session[d]]
    /\ signedIn' = signedIn \ SessionsOf(my[c].user)
    /\ UNCHANGED <<users, app, pro, holds, my, drawn, calls, faults, told, marks>>

WithoutIdentities(u) == [i \in Identities |-> IF holds[i] = u THEN None ELSE holds[i]]

DropIdentities(c) ==
    /\ at[c] = "identities" /\ Goes(c, "delete")
    /\ holds' = WithoutIdentities(my[c].user)
    /\ UNCHANGED <<users, app, pro, session, signedIn, my, drawn, calls, faults, told, marks>>

(* A user's row is deleted, and by the cascade all that refers to it.      *)
Erases(u) ==
    /\ users' = users \ {u}
    /\ app' = [app EXCEPT ![u] = NoRows] /\ pro' = [pro EXCEPT ![u] = 0]
    /\ holds' = WithoutIdentities(u)
    /\ session' = [d \in Devices |-> IF session[d] = u THEN None ELSE session[d]]
    /\ signedIn' = signedIn \ SessionsOf(u)

DeleteGuest(c) ==
    /\ at[c] = "delete" /\ Goes(c, "identity")
    /\ Erases(my[c].user)
    /\ UNCHANGED <<my, drawn, calls, faults, told, marks>>

(* A new identity is inserted, once and for a user there is.               *)
Insertable(c) == my[c].target \in users /\ holds[my[c].identity] = None

Identify(c) ==
    /\ at[c] = "identity"
    /\ \/ ~my[c].found /\ ~Insertable(c) /\ Throws(c)
       \/ /\ my[c].found \/ Insertable(c)
          /\ holds' = IF my[c].found THEN holds ELSE [holds EXCEPT ![my[c].identity] = my[c].target]
          /\ Goes(c, "enter")
          /\ UNCHANGED <<users, app, pro, session, signedIn, my, drawn, calls, faults, told, marks>>

(* replaceSession, which creates the user when there is none.              *)
Enter(c) ==
    /\ at[c] = "enter"
    /\ users' = users \cup {my[c].target}
    /\ session' = [session EXCEPT ![my[c].device] = my[c].target]
    /\ signedIn' = signedIn \cup {my[c].device}
    /\ left' = left \cup ({session[my[c].device]} \ {my[c].user, my[c].target, None})
    /\ Ends(c)
    /\ UNCHANGED <<app, pro, holds, drawn, calls, faults, told, late, missed, crossed>>

-----------------------------------------------------------------------------
(* POST /logout: the device goes on as a new guest.                        *)
LogOut(d) ==
    /\ d \in signedIn /\ calls < MaxCalls /\ calls' = calls + 1
    /\ \E u \in Users \ drawn :
          /\ users' = users \cup {u} /\ drawn' = drawn \cup {u}
          /\ session' = [session EXCEPT ![d] = u]
    /\ signedIn' = signedIn \ {d}
    /\ UNCHANGED <<app, pro, holds, at, my, faults, told, marks>>

(* deleteUserAccountData: what the person was told is kept goes with it.   *)
Remains(u, of) == {of[v] : v \in Users \ {u}}

DeleteAccount(d) ==
    LET u == session[d]
        Most(S) == CHOOSE x \in S : \A y \in S : x >= y
    IN
    /\ d \in signedIn /\ calls < MaxCalls /\ calls' = calls + 1
    /\ Erases(u)
    /\ kept' = [j \in Jobs |-> IF app[u][j] = 0 THEN kept[j]
                               ELSE Most(Remains(u, [v \in Users |-> app[v][j]]) \cup {0})]
    /\ bought' = IF pro[u] = 0 THEN bought ELSE Most(Remains(u, pro) \cup {0})
    /\ crossed' = (crossed \/ \E c \in Calls : at[c] # "off")
    /\ UNCHANGED <<at, my, drawn, faults, late, missed, left>>

(* A request dies between two statements, or its statement fails; the old  *)
(* session may be revoked already.                                         *)
Dies(c) ==
    /\ at[c] # "off" /\ faults < MaxFaults /\ faults' = faults + 1
    /\ Ends(c)
    /\ \/ UNCHANGED <<session, signedIn>>
       \/ /\ at[c] = "enter" /\ session[my[c].device] = my[c].user
          /\ session' = [session EXCEPT ![my[c].device] = None]
          /\ signedIn' = signedIn \ {my[c].device}
    /\ UNCHANGED <<users, app, pro, holds, drawn, calls, told, marks>>

Next ==
    \/ \E c \in Calls :
          \/ StartWrite(c) \/ Write(c) \/ StartSignIn(c) \/ Find(c)
          \/ Pairs(c) \/ FoldRead(c) \/ FoldWrite(c) \/ Move(c)
          \/ PlanRead(c) \/ PlanWrite(c)
          \/ EndSessions(c) \/ DropIdentities(c) \/ DeleteGuest(c)
          \/ Identify(c) \/ Enter(c) \/ Dies(c)
    \/ \E d \in Devices : Buy(d) \/ LogOut(d) \/ DeleteAccount(d)

Spec == Init /\ [][Next]_vars

-----------------------------------------------------------------------------
Quiet == \A c \in Calls : at[c] = "off"

(* Whom the person can still act as, or become by signing in.              *)
Reachable == (Range(session) \cup Range(holds) \cup left) \ {None}

(* "Guest data comes along on sign-in": whatever sign-ins overlapped, died *)
(* and were tried again, every job the person saved or applied to, and the *)
(* Pro they bought, is with a user they can reach, but for what was        *)
(* written under a merge that had passed it, unless first sign-ins crossed. *)
NothingLost == Quiet /\ ~crossed =>
    /\ \A j \in Jobs \ late : kept[j] > 0 => \E u \in Reachable : app[u][j] >= kept[j]
    /\ bought > 0 /\ ~missed => \E u \in Reachable : pro[u] >= bought

(* "One person, one account": one user holds every identity of the email,  *)
(* and a signed-in device acts for it, unless first sign-ins crossed.      *)
OneAccount == ~crossed =>
    /\ Cardinality(Linked) <= 1
    /\ Quiet => \A d \in signedIn : session[d] \in Linked
=============================================================================
