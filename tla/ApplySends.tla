----------------------------- MODULE ApplySends -----------------------------
(***************************************************************************)
(* One person's auto-apply sends: the request that queues a send, the      *)
(* Workflow that fills and submits its form in a remote browser, the       *)
(* emailed code, the browser kept open for the job's next send, and Pause. *)
(*                                                                         *)
(* One step of an action is the code between two awaits that touch shared  *)
(* state, so requests, Workflows and Pause interleave at every await.  The *)
(* database statements are atomic (D1); everything between them is not.    *)
(* Every query of the code is scoped by user_id: one person is enough.     *)
(***************************************************************************)
EXTENDS Naturals, Sequences, FiniteSets

CONSTANTS
    Sends,      \* ids of apply_sends rows, one per call of queueSend
    Jobs,       \* jobs the sends are for
    JobOf,      \* JobOf[s]: the job of send s
    Real,       \* the sends with dry_run = 0
    Checks,     \* the dry runs with for_ask = 1
    Automatic,  \* the sends started by "Apply for me": Pause stops these
    Limit,      \* the plan's sends in its window
    Faults,     \* where a fault may strike: "request", "attempt", "finish"
    MaxFaults,  \* bound: faults in a behaviour
    NoSession, NoSend

ASSUME SendsAssumption ==
    /\ JobOf \in [Sends -> Jobs]
    /\ Real \subseteq Sends
    /\ Checks \subseteq Sends \ Real
    /\ Automatic \subseteq Real
    /\ Limit \in Nat /\ MaxFaults \in Nat
    /\ Faults \subseteq {"request", "attempt", "finish"}
    /\ NoSend \notin Sends
    /\ NoSession \notin Sends \X Nat

RunRetries == 2   \* retries of the step "open, fill and submit"

(* Definitions named X_... are bugs the code could have had in X; the       *)
(* properties of the runs are checked against them.                         *)

SENT_ConfirmedOnly == {"submitted"}

(* Statuses where something went out, or may have. *)
SENT == {"submitted", "unconfirmed"}
FINISHED == SENT \cup {"ready", "needs_you", "blocked", "gone", "failed"}
Going_WithoutUnconfirmed == {"queued", "running", "submitting", "code_needed", "submitted"}

(* The statuses the unique index idx_apply_sends_once covers. *)
Going == {"queued", "running", "submitting", "code_needed"} \cup SENT
Statuses == Going \cup FINISHED
(* A browser session is named by the send and the attempt that opened it. *)
Sessions == Sends \X (0 .. RunRetries)

VARIABLES
    status,    \* apply_sends.status, "none" before the INSERT
    session,   \* apply_sends.browser_session
    ledger,    \* the usage_ledger entry the send's ledger_id names
    orphans,   \* usage_ledger entries held that no row names
    tracked,   \* jobs trackJob moved to Applied
    req,       \* where the request that queues the send is
    cand, took,\* the request's locals: the row whose browser it found, the session
    at,        \* where the send's Workflow is, "off" before it is created
    step,      \* the Workflow step that runs runSend, failSend, ...
    tries,     \* failed attempts of the step "open, fill and submit"
    page,      \* the browser session the running step is attached to
    end, keep, \* the locals of finish: how the send ends, the session it keeps
    code,      \* the code event waiting in the Workflow: whose code it is
    asked,     \* sends in the order they were set code_needed (updated_at)
    stopping,  \* Pause: sends it read as queued, and one it must refund
    sent,      \* how many times the employer received the send's application
    closed,    \* browser sessions this code closed
    stopped,   \* sends whose row Pause ended
    cut,       \* sends whose finish was cut short once their row had ended
    faults     \* faults so far

rows    == <<status, session>>
books   == <<ledger, orphans, tracked>>
request == <<req, cand, took>>
flow    == <<at, step, tries, page, end, keep>>
codes   == <<code, asked>>
history == <<stopped, cut>>
vars    == <<rows, books, request, flow, codes, stopping, sent, closed, faults, history>>

ReqStates == {"idle", "checked", "reserved", "found", "browser", "inserted",
              "unstarted", "refund", "started", "done", "dead"}
Places == {"off", "run", "claim", "open", "fill", "mark", "press", "note",
           "noted", "finish", "settle", "sleep", "letgo", "drop", "await",
           "enter", "retype", "type", "expire", "fail", "end"}

TypeOK ==
    /\ status \in [Sends -> Statuses \cup {"none"}]
    /\ session \in [Sends -> Sessions \cup {NoSession}]
    /\ ledger \in [Sends -> {"none", "held", "released"}]
    /\ orphans \in Nat
    /\ tracked \subseteq Jobs
    /\ req \in [Sends -> ReqStates]
    /\ cand \in [Sends -> Sends \cup {NoSend}]
    /\ took \in [Sends -> Sessions \cup {NoSession}]
    /\ at \in [Sends -> Places]
    /\ step \in [Sends -> {"run", "enter", "expire", "fail"}]
    /\ tries \in [Sends -> 0 .. RunRetries]
    /\ page \in [Sends -> Sessions \cup {NoSession}]
    /\ end \in [Sends -> FINISHED]
    /\ keep \in [Sends -> Sessions \cup {NoSession}]
    /\ code \in [Sends -> Sends \cup {NoSend}]
    /\ asked \in Seq(Sends)
    /\ stopping \in [Sends -> {"no", "read", "refund"}]
    /\ sent \in [Sends -> Nat]
    /\ closed \subseteq Sessions
    /\ stopped \subseteq Sends /\ cut \subseteq Sends
    /\ faults \in 0 .. MaxFaults

Init ==
    /\ status = [s \in Sends |-> "none"]
    /\ session = [s \in Sends |-> NoSession]
    /\ ledger = [s \in Sends |-> "none"]
    /\ orphans = 0
    /\ tracked = {}
    /\ req = [s \in Sends |-> "idle"]
    /\ cand = [s \in Sends |-> NoSend]
    /\ took = [s \in Sends |-> NoSession]
    /\ at = [s \in Sends |-> "off"]
    /\ step = [s \in Sends |-> "run"]
    /\ tries = [s \in Sends |-> 0]
    /\ page = [s \in Sends |-> NoSession]
    /\ end = [s \in Sends |-> "failed"]
    /\ keep = [s \in Sends |-> NoSession]
    /\ code = [s \in Sends |-> NoSend]
    /\ asked = <<>>
    /\ stopping = [s \in Sends |-> "no"]
    /\ sent = [s \in Sends |-> 0]
    /\ closed = {}
    /\ stopped = {} /\ cut = {}
    /\ faults = 0

-----------------------------------------------------------------------------
(* The table: one real send of a job among those going, sent or unconfirmed. *)

Taken(s) == \E t \in Real \ {s} : JobOf[t] = JobOf[s] /\ status[t] \in Going

IndexAllows_Absent(s) == TRUE

IndexAllows(s) == s \in Real => ~Taken(s)

Used == Cardinality({s \in Sends : ledger[s] = "held"}) + orphans

(* The browsers that the job's finished sends left open. *)
Kept(s) == {r \in Sends : /\ JobOf[r] = JobOf[s]
                          /\ status[r] \in {"needs_you", "ready"}
                          /\ session[r] # NoSession}

-----------------------------------------------------------------------------
(* queueSend, the request.                                                 *)

Goto(s, from, to) == at[s] = from /\ at' = [at EXCEPT ![s] = to]

Turn(s, from, to) == req[s] = from /\ req' = [req EXCEPT ![s] = to]

(* The job and the person are checked.  A refused call changes nothing. *)
Check(s) ==
    /\ Turn(s, "idle", "checked")
    /\ s \in Real => JobOf[s] \notin tracked /\ ~Taken(s)
    /\ UNCHANGED <<rows, books, cand, took, flow, codes, stopping, sent, closed, faults, history>>

(* A real send takes one of the plan's sends: the count and the INSERT are *)
(* one statement.  Over the limit, the call is refused.                    *)
Reserve(s) ==
    /\ \/ /\ s \in Real
          /\ Used < Limit
          /\ Turn(s, "checked", "reserved")
          /\ ledger' = [ledger EXCEPT ![s] = "held"]
       \/ /\ s \in Real
          /\ Used >= Limit
          /\ Turn(s, "checked", "idle")
          /\ UNCHANGED ledger
       \/ /\ s \notin Real
          /\ Turn(s, "checked", "reserved")
          /\ UNCHANGED ledger
    /\ UNCHANGED <<rows, orphans, tracked, cand, took, flow, codes, stopping, sent, closed, faults, history>>

(* adoptKeptBrowser reads the newest kept browser of the job ... *)
FindKept(s) ==
    /\ \/ /\ Kept(s) = {}
          /\ Turn(s, "reserved", "browser")
          /\ UNCHANGED <<cand, took>>
       \/ \E r \in Kept(s) :
            /\ Turn(s, "reserved", "found")
            /\ cand' = [cand EXCEPT ![s] = r]
            /\ took' = [took EXCEPT ![s] = session[r]]
    /\ UNCHANGED <<rows, books, flow, codes, stopping, sent, closed, faults, history>>

(* UPDATE ... SET browser_session = NULL WHERE id = ? AND browser_session = ? *)
StillHas_Unchecked(r, b) == TRUE

StillHas(r, b) == session[r] = b

(* ... and takes it over only if the row still has it. *)
TakeOver(s) ==
    /\ Turn(s, "found", "browser")
    /\ IF StillHas(cand[s], took[s])
       THEN session' = [session EXCEPT ![cand[s]] = NoSession] /\ UNCHANGED took
       ELSE took' = [took EXCEPT ![s] = NoSession] /\ UNCHANGED session
    /\ UNCHANGED <<status, books, cand, flow, codes, stopping, sent, closed, faults, history>>

(* The INSERT; the unique index turns a second going send of the job down. *)
Insert(s) ==
    /\ \/ /\ IndexAllows(s)
          /\ Turn(s, "browser", "inserted")
          /\ status' = [status EXCEPT ![s] = "queued"]
          /\ session' = [session EXCEPT ![s] = took[s]]
       \/ /\ ~IndexAllows(s)
          /\ Turn(s, "browser", "refund")
          /\ UNCHANGED rows
    /\ took' = [took EXCEPT ![s] = NoSession]
    /\ UNCHANGED <<books, cand, flow, codes, stopping, sent, closed, faults, history>>

(* APPLY_SEND.create: the Workflow exists, or finish(row, "failed") runs in *)
(* the request, and its refund after it.                                    *)
Create(s) ==
    /\ Turn(s, "inserted", "started")
    /\ Goto(s, "off", "run")
    /\ UNCHANGED <<rows, books, cand, took, step, tries, page, end, keep, codes, stopping, sent, closed, faults, history>>

CreateFails(s) ==
    /\ Turn(s, "inserted", "unstarted")
    /\ UNCHANGED <<rows, books, cand, took, flow, codes, stopping, sent, closed, faults, history>>

Unstarted(s) ==
    /\ Turn(s, "unstarted", "refund")
    /\ status' = [status EXCEPT ![s] = "failed"]
    /\ session' = [session EXCEPT ![s] = NoSession]
    /\ UNCHANGED <<books, cand, took, flow, codes, stopping, sent, closed, faults, history>>

Refund(s) ==
    /\ Turn(s, "refund", "done")
    /\ ledger' = [ledger EXCEPT ![s] = IF @ = "held" THEN "released" ELSE @]
    /\ UNCHANGED <<rows, orphans, tracked, cand, took, flow, codes, stopping, sent, closed, faults, history>>

(* An automatic send is recorded as the job's ask once queueSend returned; *)
(* Pause finds automatic sends by that record.                             *)
Record(s) ==
    /\ Turn(s, "started", "done")
    /\ UNCHANGED <<rows, books, cand, took, flow, codes, stopping, sent, closed, faults, history>>

(* The request dies between two awaits (an eviction, a D1 error).  What it *)
(* reserved before its row was written is named by no row, and a send not  *)
(* yet recorded as automatic is not one of those Pause finds.              *)
RequestDies(s) ==
    /\ "request" \in Faults /\ faults < MaxFaults
    /\ req[s] \in ReqStates \ {"idle", "done", "dead"}
    /\ req' = [req EXCEPT ![s] = "dead"]
    /\ faults' = faults + 1
    /\ IF status[s] = "none" /\ ledger[s] = "held"
       THEN /\ ledger' = [ledger EXCEPT ![s] = "none"]
            /\ orphans' = orphans + 1
       ELSE UNCHANGED <<ledger, orphans>>
    /\ took' = [took EXCEPT ![s] = NoSession]
    /\ UNCHANGED <<rows, tracked, cand, flow, codes, stopping, sent, closed, history>>

-----------------------------------------------------------------------------
(* finish: the row says how the send ended, then the allowance comes back  *)
(* unless something went out, and a sent application lands in Tracker.     *)

Closing(b) == IF b = NoSession THEN closed ELSE closed \cup {b}

(* Leaves the page (closed unless kept) and starts finish(row, st). *)
EndAs(s, from, st, kept) ==
    /\ Goto(s, from, "finish")
    /\ end' = [end EXCEPT ![s] = st]
    /\ keep' = [keep EXCEPT ![s] = kept]
    /\ page' = [page EXCEPT ![s] = NoSession]
    /\ closed' = IF kept = NoSession THEN Closing(page[s]) ELSE closed

Finish(s) ==
    /\ Goto(s, "finish", "settle")
    /\ status' = [status EXCEPT ![s] = end[s]]
    /\ session' = [session EXCEPT ![s] = keep[s]]
    /\ UNCHANGED <<books, request, step, tries, page, end, keep, codes, stopping, sent, closed, faults, history>>

Releases_FailedOnly(st) == st = "failed"

Releases(st) == st \notin SENT

(* The Workflow sleeps on a form the browser step kept open, or is over.   *)
AfterFinish_ReadyOnly(s) == IF end[s] = "ready" THEN "sleep" ELSE "end"

AfterFinish(s) == IF step[s] = "run" /\ keep[s] # NoSession THEN "sleep" ELSE "end"

Settle(s) ==
    /\ Goto(s, "settle", AfterFinish(s))
    /\ ledger' = [ledger EXCEPT ![s] =
                    IF Releases(end[s]) /\ @ = "held" THEN "released" ELSE @]
    /\ tracked' = IF end[s] = "submitted" THEN tracked \cup {JobOf[s]} ELSE tracked
    /\ UNCHANGED <<rows, orphans, request, step, tries, page, end, keep, codes, stopping, sent, closed, faults, history>>

-----------------------------------------------------------------------------
(* runSend, the step "open, fill and submit".                              *)

Load_CodeForgotten(s) ==
    /\ \/ status[s] \in FINISHED /\ Goto(s, "run", "end") /\ UNCHANGED <<end, keep, page, closed>>
       \/ status[s] = "submitting" /\ EndAs(s, "run", "unconfirmed", NoSession)
       \/ status[s] \in {"queued", "running", "code_needed"} /\ Goto(s, "run", "claim")
          /\ UNCHANGED <<end, keep, page, closed>>
    /\ step' = [step EXCEPT ![s] = "run"]
    /\ UNCHANGED <<rows, books, request, tries, codes, stopping, sent, faults, history>>

(* Loads the row: a send that ended stays as it ended, and one that died   *)
(* while submitting is unconfirmed, never submitted again.                 *)
Load(s) ==
    /\ \/ status[s] \in FINISHED /\ Goto(s, "run", "end") /\ UNCHANGED <<end, keep, page, closed>>
       \/ status[s] = "code_needed" /\ Goto(s, "run", "await") /\ UNCHANGED <<end, keep, page, closed>>
       \/ status[s] = "submitting" /\ EndAs(s, "run", "unconfirmed", NoSession)
       \/ status[s] \in {"queued", "running"} /\ Goto(s, "run", "claim") /\ UNCHANGED <<end, keep, page, closed>>
    /\ step' = [step EXCEPT ![s] = "run"]
    /\ UNCHANGED <<rows, books, request, tries, codes, stopping, sent, faults, history>>

Retry_NotCaught(s) ==
    IF tries[s] < RunRetries
    THEN at' = [at EXCEPT ![s] = "run"] /\ tries' = [tries EXCEPT ![s] = @ + 1]
    ELSE at' = [at EXCEPT ![s] = "end"] /\ UNCHANGED tries

(* The attempt failed: the Workflow tries again, or records the failure.   *)
Retry(s) ==
    IF tries[s] < RunRetries
    THEN at' = [at EXCEPT ![s] = "run"] /\ tries' = [tries EXCEPT ![s] = @ + 1]
    ELSE at' = [at EXCEPT ![s] = "fail"] /\ UNCHANGED tries

(* setStatus "running" whatever the row says by now; the unique index turns *)
(* it down when another real send of the job is going.                      *)
Claim(s) ==
    /\ at[s] = "claim"
    /\ IF status[s] \in Going \/ IndexAllows(s)
       THEN /\ at' = [at EXCEPT ![s] = "open"]
            /\ status' = [status EXCEPT ![s] = "running"]
            /\ UNCHANGED tries
       ELSE Retry(s) /\ UNCHANGED status
    /\ UNCHANGED <<session, books, request, step, page, end, keep, codes, stopping, sent, closed, faults, history>>

(* The resume is loaded; then the kept form when it still answers, or a    *)
(* new browser.                                                            *)
Open(s) ==
    /\ \/ /\ EndAs(s, "open", "needs_you", NoSession)
       \/ /\ Goto(s, "open", "fill")
          /\ \/ session[s] # NoSession /\ session[s] \notin closed /\ page' = [page EXCEPT ![s] = session[s]]
             \/ page' = [page EXCEPT ![s] = <<s, tries[s]>>]
          /\ UNCHANGED <<end, keep, closed>>
    /\ UNCHANGED <<rows, books, request, step, tries, codes, stopping, sent, faults, history>>

(* The form is filled.  It ends gone, blocked, on questions (the form kept *)
(* open when the person can answer them, but not for a check) or, a dry    *)
(* run, ready; a real send with nothing open goes on to Submit.            *)
Fill(s) ==
    /\ \/ \E st \in {"gone", "blocked", "needs_you"} : EndAs(s, "fill", st, NoSession)
       \/ s \notin Checks /\ EndAs(s, "fill", "needs_you", page[s])
       \/ s \notin Real /\ EndAs(s, "fill", "ready", IF s \in Checks THEN NoSession ELSE page[s])
       \/ s \in Real /\ Goto(s, "fill", "mark") /\ UNCHANGED <<end, keep, page, closed>>
    /\ UNCHANGED <<rows, books, request, step, tries, codes, stopping, sent, faults, history>>

Mark_NotRecorded(s) ==
    /\ Goto(s, "mark", "press")
    /\ UNCHANGED <<rows, books, request, step, tries, page, end, keep, codes, stopping, sent, closed, faults, history>>

(* "submitting" is recorded before Submit is pressed. *)
Mark(s) ==
    /\ Goto(s, "mark", "press")
    /\ status' = [status EXCEPT ![s] = "submitting"]
    /\ UNCHANGED <<session, books, request, step, tries, page, end, keep, codes, stopping, sent, closed, faults, history>>

Delivered(s, n) == sent' = [sent EXCEPT ![s] = @ + n]

(* recordSubmit: what the page said after Submit, and how the send ends.   *)
(* A page that shows nothing recognisable may or may not have sent it.     *)
RecordSubmit(s, from) ==
    \/ EndAs(s, from, "submitted", NoSession) /\ Delivered(s, 1)
    \/ \E n \in {0, 1} : EndAs(s, from, "unconfirmed", NoSession) /\ Delivered(s, n)
    \/ \E st \in {"blocked", "needs_you", "failed"} :
         EndAs(s, from, st, NoSession) /\ UNCHANGED sent

(* Submit is pressed.  A form that asks for the emailed code is held back. *)
Press(s) ==
    /\ \/ RecordSubmit(s, "press")
       \/ Goto(s, "press", "note") /\ UNCHANGED <<end, keep, page, closed, sent>>
    /\ UNCHANGED <<rows, books, request, step, tries, codes, stopping, faults, history>>

(* setStatus "code_needed" with the browser to come back to ... *)
Note(s) ==
    /\ Goto(s, "note", "noted")
    /\ status' = [status EXCEPT ![s] = "code_needed"]
    /\ session' = [session EXCEPT ![s] = page[s]]
    /\ asked' = Append(asked, s)
    /\ UNCHANGED <<books, request, step, tries, page, end, keep, code, stopping, sent, closed, faults, history>>

(* ... and, once the answers are kept and the push is written, the browser *)
(* is left open and the Workflow waits.                                    *)
Noted(s) ==
    /\ Goto(s, "noted", "await")
    /\ page' = [page EXCEPT ![s] = NoSession]
    /\ UNCHANGED <<rows, books, request, step, tries, end, keep, codes, stopping, sent, closed, faults, history>>

-----------------------------------------------------------------------------
(* The kept form, and releaseKeptBrowser once its nine minutes are over.   *)

(* The sleep and adoptKeptBrowser's own nine minutes start within moments  *)
(* of each other and adoptKeptBrowser's "now" is the request's, so either  *)
(* may come first: the model does not order them.                          *)
Wake(s) ==
    /\ Goto(s, "sleep", "letgo")
    /\ UNCHANGED <<rows, books, request, step, tries, page, end, keep, codes, stopping, sent, closed, faults, history>>

LetGo(s) ==
    /\ keep' = [keep EXCEPT ![s] = session[s]]
    /\ IF session[s] = NoSession \/ status[s] \notin {"needs_you", "ready"}
       THEN Goto(s, "letgo", "end")
       ELSE Goto(s, "letgo", "drop")
    /\ UNCHANGED <<rows, books, request, step, tries, page, end, codes, stopping, sent, closed, faults, history>>

Drop_Anyway(s) ==
    /\ Goto(s, "drop", "end")
    /\ session' = [session EXCEPT ![s] = NoSession]
    /\ closed' = Closing(keep[s])
    /\ UNCHANGED <<status, books, request, step, tries, page, end, keep, codes, stopping, sent, faults, history>>

Drop(s) ==
    /\ Goto(s, "drop", "end")
    /\ IF StillHas(s, keep[s])
       THEN session' = [session EXCEPT ![s] = NoSession] /\ closed' = Closing(keep[s])
       ELSE UNCHANGED <<session, closed>>
    /\ UNCHANGED <<status, books, request, step, tries, page, end, keep, codes, stopping, sent, faults, history>>

-----------------------------------------------------------------------------
(* The emailed code.                                                       *)

(* deliverSendCode from the inbound email: the newest send waiting for a   *)
(* code gets it, whichever application it was emailed for.  Typed in by    *)
(* the person, it goes to the send they typed it for.                      *)
Waiting == {s \in Sends : status[s] = "code_needed"}

(* An email that comes before its send is recorded as waiting finds none,  *)
(* or another; so does one that comes late.                                *)
Emailed(s) == at[s] = "note" \/ s \in {asked[i] : i \in DOMAIN asked}

Newest == LET last == CHOOSE i \in DOMAIN asked :
                         /\ asked[i] \in Waiting
                         /\ \A k \in DOMAIN asked : asked[k] \in Waiting => k <= i
          IN  asked[last]

DeliverCode(s, to) ==
    /\ to \in Waiting
    /\ code[to] = NoSend   \* bound: one code event per Workflow
    /\ code' = [code EXCEPT ![to] = s]
    /\ UNCHANGED <<rows, books, request, flow, asked, stopping, sent, closed, faults, history>>

EmailCode(s) == Emailed(s) /\ Waiting # {} /\ DeliverCode(s, Newest)
TypeCode(s)  == DeliverCode(s, s)

(* waitForEvent returns the code, or its nine minutes end without one. *)
CodeComes(s) ==
    /\ code[s] # NoSend
    /\ Goto(s, "await", "enter")
    /\ step' = [step EXCEPT ![s] = "enter"]
    /\ UNCHANGED <<rows, books, request, tries, page, end, keep, codes, stopping, sent, closed, faults, history>>

CodeTimesOut_Never(s) == FALSE /\ UNCHANGED vars

CodeTimesOut(s) ==
    /\ code[s] = NoSend
    /\ Goto(s, "await", "expire")
    /\ step' = [step EXCEPT ![s] = "expire"]
    /\ UNCHANGED <<rows, books, request, tries, page, end, keep, codes, stopping, sent, closed, faults, history>>

(* enterSendCode: only a send that waits for a code, in its own browser;   *)
(* a browser that no longer answers fails the step, which has no retries.  *)
Enter(s) ==
    /\ \/ /\ status[s] = "code_needed" /\ session[s] \notin closed
          /\ Goto(s, "enter", "retype")
          /\ page' = [page EXCEPT ![s] = session[s]]
       \/ /\ status[s] = "code_needed"
          /\ Goto(s, "enter", "fail")
          /\ UNCHANGED page
       \/ /\ status[s] # "code_needed"
          /\ Goto(s, "enter", "end")
          /\ UNCHANGED page
    /\ UNCHANGED <<rows, books, request, step, tries, end, keep, codes, stopping, sent, closed, faults, history>>

Retype(s) ==
    /\ Goto(s, "retype", "type")
    /\ status' = [status EXCEPT ![s] = "submitting"]
    /\ UNCHANGED <<session, books, request, step, tries, page, end, keep, codes, stopping, sent, closed, faults, history>>

(* The form's own code submits it; another form's code is turned back.     *)
TypeIn(s) ==
    /\ \/ code[s] = s /\ RecordSubmit(s, "type")
       \/ \E st \in {"blocked", "needs_you", "failed", "unconfirmed"} :
            EndAs(s, "type", st, NoSession) /\ UNCHANGED sent
    /\ UNCHANGED <<rows, books, request, step, tries, codes, stopping, faults, history>>

(* expireSendCode: the browser is closed and nothing went out. *)
Expire(s) ==
    /\ IF status[s] = "code_needed"
       THEN /\ Goto(s, "expire", "finish")
            /\ end' = [end EXCEPT ![s] = "needs_you"]
            /\ keep' = [keep EXCEPT ![s] = NoSession]
            /\ closed' = Closing(session[s])
       ELSE Goto(s, "expire", "end") /\ UNCHANGED <<end, keep, closed>>
    /\ UNCHANGED <<rows, books, request, step, tries, page, codes, stopping, sent, faults, history>>

-----------------------------------------------------------------------------
(* failSend, the Workflow's last word, and the faults that lead to it.     *)

Fail(s) ==
    /\ \/ status[s] \in FINISHED /\ Goto(s, "fail", "end") /\ UNCHANGED <<end, keep, page, closed>>
       \/ status[s] = "submitting" /\ EndAs(s, "fail", "unconfirmed", NoSession)
       \/ status[s] \notin FINISHED \cup {"submitting"} /\ EndAs(s, "fail", "failed", NoSession)
    /\ step' = [step EXCEPT ![s] = "fail"]
    /\ UNCHANGED <<rows, books, request, tries, codes, stopping, sent, faults, history>>

(* The attempt dies between two awaits: thrown out of runSend, which closes *)
(* the page on its way, or evicted with the page left to Browser Run.  A    *)
(* Submit under way may have gone out unseen.                               *)
AttemptDies(s) ==
    /\ "attempt" \in Faults /\ faults < MaxFaults
    /\ faults' = faults + 1
    /\ \/ at[s] \in {"claim", "open", "fill", "mark", "press", "note", "noted"} /\ Retry(s)
       \/ at[s] \in {"retype", "type"} /\ at' = [at EXCEPT ![s] = "fail"] /\ UNCHANGED tries
    /\ page' = [page EXCEPT ![s] = NoSession]
    /\ closed' \in {closed, Closing(page[s])}
    /\ \/ UNCHANGED sent
       \/ at[s] = "press" /\ Delivered(s, 1)
       \/ at[s] = "type" /\ code[s] = s /\ Delivered(s, 1)
    /\ UNCHANGED <<rows, books, request, step, end, keep, codes, stopping, history>>

(* finish itself is cut short, before or after its first statement: its    *)
(* step runs again from the top, or entering the code gives up.            *)
FinishDies(s) ==
    /\ "finish" \in Faults /\ faults < MaxFaults
    /\ at[s] \in {"finish", "settle"}
    /\ faults' = faults + 1
    /\ CASE step[s] = "run"    -> Retry(s)
         [] step[s] = "enter"  -> at' = [at EXCEPT ![s] = "fail"] /\ UNCHANGED tries
         [] step[s] = "expire" -> at' = [at EXCEPT ![s] = "expire"] /\ UNCHANGED tries
         [] step[s] = "fail"   -> at' = [at EXCEPT ![s] = "fail"] /\ UNCHANGED tries
    /\ cut' = IF at[s] = "settle" THEN cut \cup {s} ELSE cut
    /\ UNCHANGED <<rows, books, request, step, page, end, keep, codes, stopping, sent, closed, stopped>>

-----------------------------------------------------------------------------
(* stopQueuedAutomaticSends, run by Pause: reads the automatic sends still *)
(* queued, then stops each one that still is, then gives its send back.    *)

Stoppable == {s \in Automatic : status[s] = "queued" /\ req[s] = "done"}

Pause ==
    /\ Stoppable # {}
    /\ \A s \in Sends : stopping[s] = "no"
    /\ stopping' = [s \in Sends |-> IF s \in Stoppable THEN "read" ELSE "no"]
    /\ UNCHANGED <<rows, books, request, flow, codes, sent, closed, faults, history>>

Stop(s) ==
    /\ stopping[s] = "read"
    /\ IF status[s] = "queued"
       THEN /\ status' = [status EXCEPT ![s] = "failed"]
            /\ stopping' = [stopping EXCEPT ![s] = "refund"]
            /\ stopped' = stopped \cup {s}
       ELSE /\ stopping' = [stopping EXCEPT ![s] = "no"]
            /\ UNCHANGED <<status, stopped>>
    /\ UNCHANGED <<session, books, request, flow, codes, sent, closed, faults, cut>>

GiveBack(s) ==
    /\ stopping[s] = "refund"
    /\ stopping' = [stopping EXCEPT ![s] = "no"]
    /\ ledger' = [ledger EXCEPT ![s] = IF @ = "held" THEN "released" ELSE @]
    /\ UNCHANGED <<rows, orphans, tracked, request, flow, codes, sent, closed, faults, history>>

-----------------------------------------------------------------------------
Request(s) ==
    \/ Reserve(s) \/ FindKept(s) \/ TakeOver(s) \/ Insert(s) \/ Create(s)
    \/ CreateFails(s) \/ Unstarted(s) \/ Refund(s) \/ Record(s)

Workflow(s) ==
    \/ Load(s) \/ Claim(s) \/ Open(s) \/ Fill(s) \/ Mark(s) \/ Press(s)
    \/ Note(s) \/ Noted(s) \/ Finish(s) \/ Settle(s)
    \/ Wake(s) \/ LetGo(s) \/ Drop(s)
    \/ CodeComes(s) \/ CodeTimesOut(s) \/ Enter(s) \/ Retype(s) \/ TypeIn(s)
    \/ Expire(s) \/ Fail(s)

Next ==
    \/ \E s \in Sends :
         \/ Check(s) \/ Request(s) \/ Workflow(s)
         \/ EmailCode(s) \/ TypeCode(s)
         \/ RequestDies(s) \/ AttemptDies(s) \/ FinishDies(s)
         \/ Stop(s) \/ GiveBack(s)
    \/ Pause

(* The platform runs every request and Workflow it has taken on, and its   *)
(* timers fire.  Nothing makes the person or an email act.                 *)
Fairness == \A s \in Sends :
    /\ WF_vars(Request(s))
    /\ WF_vars(Workflow(s))
    /\ WF_vars(Stop(s) \/ GiveBack(s))

Spec == Init /\ [][Next]_vars
FairSpec == Spec /\ Fairness

-----------------------------------------------------------------------------
(* Safety.                                                                 *)

(* "Never the same job twice" (queueSend), through retries, crashes, the   *)
(* code and resends: an employer gets at most one application for a job.   *)
SentOnce ==
    \A s, t \in Sends :
        /\ sent[s] <= 1
        /\ sent[s] > 0 /\ sent[t] > 0 /\ JobOf[s] = JobOf[t] => s = t

(* An application the employer has is never recorded as stopped or failed: *)
(* the person is not told "nothing was sent" when something was.           *)
SentIsNotDenied ==
    \A s \in Sends :
        sent[s] > 0 => status[s] \in {"submitting", "submitted", "unconfirmed"}

(* SENT: where something went out, or may have, the allowance stays used,  *)
(* unless Pause had ended the row and the Workflow took it up again.       *)
SentHoldsAllowance ==
    \A s \in Sends \ stopped : sent[s] > 0 => ledger[s] = "held"

(* "Only one send can have it": no two sends have, or are about to have,   *)
(* one browser session (adoptKeptBrowser against releaseKeptBrowser and    *)
(* against another request's adoptKeptBrowser).                            *)
Has(s) == {session[s], page[s], IF req[s] = "browser" THEN took[s] ELSE NoSession}
            \ {NoSession}

BrowserHasOneSend ==
    \A s, t \in Sends : s # t => Has(s) \cap Has(t) = {}

(* No Workflow closes the browser another send carries on in.              *)
NoOpenPageClosed ==
    \A s \in Sends : page[s] \notin closed

(* Once a send's Workflow is over its books agree: the row says how it     *)
(* ended, the allowance is used exactly when something may have gone out,  *)
(* a confirmed application is in Tracker.  A finish cut short behind its   *)
(* first statement leaves the rest undone, and Pause may have given back   *)
(* the allowance of a send that went on.                                   *)
BooksSettled ==
    \A s \in Sends : at[s] = "end" =>
        /\ status[s] \in FINISHED
        /\ s \in Real \ stopped /\ status[s] \in SENT => ledger[s] = "held"
        /\ s \in Real \ cut /\ status[s] \notin SENT /\ stopping[s] # "refund" => ledger[s] # "held"
        /\ s \notin cut /\ status[s] = "submitted" => JobOf[s] \in tracked

(* A form kept open is let go of: a Workflow that is over leaves no browser *)
(* in its row for Browser Run's own timeout to find, unless finish was cut  *)
(* short or Pause ended the row under it.                                   *)
KeptFormLetGo ==
    \A s \in Sends \ (cut \cup stopped) : at[s] = "end" => session[s] = NoSession

(* "The browser step may run again only before that point": a send never   *)
(* goes back behind Submit, and one that ended stays as it ended, except   *)
(* one Pause ended that its Workflow, which had read it, sets running.     *)
Follows(from, to) ==
    \/ from = to
    \/ from = "none" /\ to = "queued"
    \/ from = "queued" /\ to \in {"running", "failed"}
    \/ from = "running" /\ to \in {"submitting", "needs_you", "ready", "gone", "blocked", "failed"}
    \/ from = "submitting" /\ to \in SENT \cup {"code_needed", "blocked", "needs_you", "failed"}
    \/ from = "code_needed" /\ to \in {"submitting", "needs_you", "failed"}

(* setStatus "running" over Pause's "failed". *)
TakenUp(s) == s \in stopped /\ status[s] = "failed" /\ status'[s] = "running"

StatusMovesOn ==
    [][\A s \in Sends : Follows(status[s], status'[s]) \/ TakenUp(s)]_status

-----------------------------------------------------------------------------
(* The promise: OneApplication, read off the table and the employers.      *)

GoingFor(i) == {s \in Real : JobOf[s] = i /\ status[s] \in Going}

OneOf(S) == CHOOSE s \in S : TRUE

TurnOf(i) == IF GoingFor(i) = {} THEN NoSend ELSE OneOf(GoingFor(i))

OverOf(i) == \E s \in GoingFor(i) : status[s] \in SENT

ReceivedOf(i) == UNION {{<<s, n>> : n \in 1 .. sent[s]} : s \in {r \in Sends : JobOf[r] = i}}

Turns     == [i \in Jobs |-> TurnOf(i)]
Overs     == [i \in Jobs |-> OverOf(i)]
Receiveds == [i \in Jobs |-> ReceivedOf(i)]

Once == INSTANCE OneApplication WITH turn <- Turns, over <- Overs, received <- Receiveds

(* Every step of a send, a crash, a Pause or a resend is a step OneApplication *)
(* allows, or changes nothing it speaks of.                                    *)
KeepsThePromise == Once!Spec

-----------------------------------------------------------------------------
(* The inductive invariant behind SentOnce.  The index alone does not give *)
(* it: what matters is that a send the employer has is still going in the  *)
(* table, and that Submit is pressed only where the row says submitting.   *)

(* The unique index: of a job's real sends at most one is going. *)
OneGoing ==
    \A s, t \in Real :
        s # t /\ JobOf[s] = JobOf[t] /\ status[s] \in Going => status[t] \notin Going

(* Only real sends reach Submit, and what went out is not denied. *)
OnlyRealGoOut ==
    \A s \in Sends :
        /\ status[s] \in {"submitting", "code_needed"} => s \in Real
        /\ sent[s] > 0 => s \in Real /\ status[s] \in {"submitting", "submitted", "unconfirmed"}
        /\ sent[s] <= 1

(* The row where the request that queues it is. *)
RequestInv ==
    \A s \in Sends :
        /\ req[s] \in {"idle", "checked", "reserved", "found", "browser"} =>
             at[s] = "off" /\ status[s] = "none"
        /\ req[s] \in {"inserted", "unstarted"} => at[s] = "off" /\ status[s] = "queued"
        /\ stopping[s] # "no" => req[s] = "done"

(* The row where its Workflow is: Submit and the code are typed only into  *)
(* a form not sent before, and finish says "nothing went out" only if so.  *)
WorkflowInv ==
    \A s \in Sends :
        /\ at[s] = "claim" => status[s] \in {"queued", "running", "failed"}
        /\ at[s] \in {"open", "fill", "mark"} => status[s] = "running"
        /\ at[s] = "mark" => s \in Real
        /\ at[s] \in {"press", "note", "type"} => status[s] = "submitting" /\ sent[s] = 0
        /\ at[s] \in {"noted", "await", "retype"} => status[s] = "code_needed"
        /\ at[s] = "finish" =>
             /\ status[s] \notin SENT
             /\ end[s] \in SENT => status[s] = "submitting"
             /\ end[s] \notin SENT => sent[s] = 0

IInv == TypeOK /\ OneGoing /\ OnlyRealGoOut /\ RequestInv /\ WorkflowInv

-----------------------------------------------------------------------------
(* Liveness.                                                               *)

(* Every send that was queued ends: no failed attempt, missing code or     *)
(* kept browser leaves it, and its job, going for ever.                    *)
EverySendEnds ==
    \A s \in Sends : status[s] = "queued" ~> status[s] \in FINISHED

(* Every Workflow ends, the kept form's wait included. *)
EveryWorkflowEnds ==
    \A s \in Sends : at[s] # "off" ~> at[s] = "end"
=============================================================================
