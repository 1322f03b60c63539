---------------------- MODULE ApplicationStages_proofs ----------------------
(***************************************************************************)
(* That an email leaves at most one step on an application, that a stage's *)
(* date fits it, that the person's date stays and that the stage, the      *)
(* applied date and the timeline agree, for every number of jobs, emails   *)
(* and calls; and, last, that every value is of its type.                  *)
(*                                                                         *)
(* EmailSortedOnce is not inductive: a call may still be about to record a *)
(* step.  Sorted adds that one call at most files an email, that the email *)
(* is then sorted, and that the call has no step of it where it is to      *)
(* record one.  DateFitsStage needs what the calls that will write a date  *)
(* hold: CallOK.  TimelineAgrees speaks of the rows nobody is writing;     *)
(* TInv (from the middle of the module) adds what the others are short of  *)
(* while they are written, and that no two calls have one `now`.  TypeOK   *)
(* needs what the calls hold as well: TypeInv, at the end.                 *)
(***************************************************************************)
EXTENDS ApplicationStages, FiniteSetTheorems, WellFoundedInduction, TLAPS

CallFields == {"pc", "now", "kind", "job", "app", "to", "date", "mail", "row", "read", "left", "was", "more"}
RowFields == {"life", "job", "stage", "changed", "applied", "date"}
StepFields == {"n", "stage", "at", "mail"}

(* The places where a call may still record a step of its email; the first *)
(* three are before an application is there.                               *)
Making == {"create", "nothing", "first"}
Filing == Making \cup {"file", "emaildate"}

(* What a call holds, wherever it is. *)
CallOK(m) ==
    /\ DOMAIN m = CallFields
    /\ m.mail \in Emails \cup {NoMail}
    /\ m.date \in {"keep", "person", "none"}
    /\ m.pc = "find" => m.mail = NoMail /\ m.date = "keep"
    /\ m.pc = "read" => m.left = {}
    /\ m.pc \in {"read", "assign", "file"} => m.mail \in Emails
    /\ m.pc = "date" => m.date # "keep"
    /\ m.pc \in {"move", "date"} /\ m.date = "person" => TakesStageDate(m.to)
    /\ m.mail # NoMail /\ m.pc \in Filing \cup {"read", "assign"} => m.to = Reports[m.mail]
    /\ m.pc = "emaildate" => m.mail \in Dated

(* The state has the shape of its declarations. *)
Shape ==
    /\ DOMAIN rows = Apps /\ DOMAIN timeline = Apps /\ DOMAIN mails = Emails /\ DOMAIN calls = Callers
    /\ \A a \in Apps : DOMAIN rows[a] = RowFields
    /\ \A a \in Apps : \A d \in timeline[a] : DOMAIN d = StepFields
    /\ \A e \in Emails : DOMAIN mails[e] = {"status", "candidates"}
    /\ \A c \in Callers : CallOK(calls[c])

Files(c, e) == calls[c].mail = e /\ calls[c].pc \in Filing

(* The parts of Sorted, for one email. *)
OneStep(e) == \A a \in Apps : \A d1, d2 \in StepsOf(e, a) : d1 = d2
StepsFiled(e) == Linked(e) # {} => mails[e].status \in Filed
OneFiler(e) == \A c, d \in Callers : Files(c, e) /\ Files(d, e) => c = d
FilerSorts(e) ==
    \A c \in Callers : Files(c, e) =>
        /\ mails[e].status \notin {"none", "needs_choice"}
        /\ calls[c].pc \in Making => Linked(e) = {} /\ calls[c].left = {}
        /\ \A a \in calls[c].left \cap Apps : StepsOf(e, a) = {}
EmailOK(e) == OneStep(e) /\ StepsFiled(e) /\ OneFiler(e) /\ FilerSorts(e)

Sorted == \A e \in Emails \ twice : EmailOK(e)

RowFits(a) == Here(a) /\ a \notin drift /\ rows[a].date # "none" => TakesStageDate(rows[a].stage)
Dates == \A a \in Apps : RowFits(a)

IInv == Shape /\ Sorted /\ Dates

(***************************************************************************)
(* Calls and the state's shape.                                            *)
(***************************************************************************)

LEMMA IdleOK ==
    /\ CallOK(Idle) /\ Idle.pc = "idle" /\ Idle.mail = NoMail /\ Idle.left = {}
    /\ DOMAIN Unused = RowFields /\ DOMAIN Gone = RowFields /\ Gone.life = "gone"
BY DEF CallOK, Idle, Unused, Gone, CallFields, RowFields, Filing, Making

LEMMA InitIInv == ASSUME StagesAssumption, Init PROVE IInv
<1>1. Shape
  <2>1. \A c \in Callers : CallOK(calls[c])
    BY IdleOK DEF Init
  <2>. QED  BY <2>1, IdleOK DEF Shape, Init, Unused, RowFields, StepFields
<1>2. Sorted
  <2>. SUFFICES ASSUME NEW e \in Emails PROVE EmailOK(e)
    BY DEF Sorted
  <2>1. ASSUME NEW a \in Apps PROVE StepsOf(e, a) = {}
    <3>1. timeline[a] = {} \/ timeline[a] = {[n |-> 1, stage |-> "saved", at |-> a, mail |-> NoMail]}
      BY Zenon DEF Init
    <3>. QED  BY <3>1, StagesAssumption DEF StepsOf
  <2>2. \A c \in Callers : ~Files(c, e)
    BY DEF Init, Idle, Files, Filing, Making
  <2>. QED  BY <2>1, <2>2 DEF EmailOK, OneStep, StepsFiled, OneFiler, FilerSorts, Linked
<1>3. Dates
  BY DEF Dates, RowFits, Init, Unused
<1>. QED  BY <1>1, <1>2, <1>3 DEF IInv

(* A call's new place leaves the others' alone. *)
LEMMA GoesShape ==
    ASSUME Shape, NEW c \in Callers, NEW r, Goes(c, r), CallOK(r)
    PROVE  /\ calls'[c] = r /\ \A d \in Callers \ {c} : calls'[d] = calls[d]
           /\ DOMAIN calls' = Callers
           /\ \A d \in Callers : CallOK(calls'[d])
BY DEF Shape, Goes

LEMMA StepShape ==
    ASSUME NEW a, NEW s, NEW at, NEW mail
    PROVE  DOMAIN NewStep(a, s, at, mail) = StepFields /\ NewStep(a, s, at, mail).mail = mail
BY DEF NewStep, StepFields

LEMMA RowShape ==
    ASSUME NEW row, DOMAIN row = RowFields, NEW s, NEW now
    PROVE  /\ DOMAIN MovedRow(row, s, now) = RowFields
           /\ MovedRow(row, s, now).date = "none" /\ MovedRow(row, s, now).stage = s
           /\ MovedRow(row, s, now).life = row.life
BY DEF MovedRow, RowFields

(***************************************************************************)
(* How the calls that do not record a step of an email keep Sorted.        *)
(***************************************************************************)

(* The place r of a call is no nearer to a step of an email than m was. *)
Narrower(r, m) ==
    r.mail \in Emails /\ r.pc \in Filing =>
        /\ m.mail = r.mail /\ m.pc \in Filing /\ r.left \subseteq m.left
        /\ r.pc \in Making => m.pc \in Making

(* For one email, whatever becomes of its status: no application gets a    *)
(* first step of it.                                                       *)
LEMMA Narrows ==
    ASSUME NEW e \in Emails, EmailOK(e), NEW c \in Callers,
           \A d \in Callers \ {c} : calls'[d] = calls[d],
           Narrower(calls'[c], calls[c]),
           OneStep(e)', StepsFiled(e)',
           \A a \in Apps : StepsOf(e, a) = {} => StepsOf(e, a)' = {},
           mails'[e].status = mails[e].status \/ mails'[e].status \notin {"none", "needs_choice"}
    PROVE  EmailOK(e)'
<1>1. \A d \in Callers : Files(d, e)' => /\ Files(d, e) /\ calls'[d].left \subseteq calls[d].left
                                         /\ calls'[d].pc \in Making => calls[d].pc \in Making
  BY DEF Files, Narrower
<1>2. OneFiler(e)'
  BY <1>1 DEF OneFiler, EmailOK
<1>3. Linked(e) = {} => Linked(e)' = {}
  BY DEF Linked
<1>4. FilerSorts(e)'
  BY <1>1, <1>3 DEF FilerSorts, EmailOK
<1>. QED  BY <1>2, <1>4 DEF EmailOK

(* The steps that are added are of no email. *)
LEMMA Keeps ==
    ASSUME StagesAssumption, Shape, Sorted, NEW c \in Callers,
           \A d \in Callers \ {c} : calls'[d] = calls[d],
           Narrower(calls'[c], calls[c]),
           \A a \in Apps : \A d \in timeline'[a] : d \in timeline[a] \/ d.mail = NoMail,
           mails' = mails, twice \subseteq twice'
    PROVE  Sorted'
<1>. SUFFICES ASSUME NEW e \in Emails, e \notin twice' PROVE EmailOK(e)'
  BY DEF Sorted
<1>1. EmailOK(e)
  BY DEF Sorted
<1>2. \A a \in Apps : StepsOf(e, a)' \subseteq StepsOf(e, a)
  BY StagesAssumption DEF StepsOf
<1>3. OneStep(e)' /\ StepsFiled(e)'
  BY <1>1, <1>2 DEF EmailOK, OneStep, StepsFiled, Linked
<1>. QED  BY <1>1, <1>2, <1>3, Narrows

(* A call that goes on and writes nothing, or only rows. *)
LEMMA CallOnly ==
    ASSUME StagesAssumption, IInv, NEW c \in Callers, NEW r, Goes(c, r), CallOK(r), Narrower(r, calls[c]),
           UNCHANGED <<timeline, mails, twice>>
    PROVE  /\ Sorted'
           /\ DOMAIN rows' = Apps /\ (\A a \in Apps : DOMAIN rows'[a] = RowFields) => Shape'
           /\ UNCHANGED <<rows, drift>> => IInv'
<1>1. Sorted'
  BY GoesShape, Keeps DEF IInv
<1>2. DOMAIN rows' = Apps /\ (\A a \in Apps : DOMAIN rows'[a] = RowFields) => Shape'
  BY GoesShape DEF IInv, Shape
<1>3. UNCHANGED <<rows, drift>> => Dates'
  BY DEF IInv, Dates, RowFits, Here
<1>. QED  BY <1>1, <1>2, <1>3 DEF IInv, Shape

LEMMA NotFiling == ASSUME NEW r, NEW m, r.mail = NoMail \/ r.pc \notin Filing, NoMail \notin Emails PROVE Narrower(r, m)
BY DEF Narrower

(***************************************************************************)
(* The calls that write nothing but their own place.                       *)
(***************************************************************************)

LEMMA BeginsKeeps ==
    ASSUME StagesAssumption, IInv, NEW c \in Callers, NEW r, Begins(c, r), CallOK(r), r.mail = NoMail \/ r.pc \notin Filing
    PROVE  IInv'
<1>1. Narrower(r, calls[c])
  BY NotFiling, StagesAssumption
<1>. QED  BY <1>1, CallOnly DEF Begins

LEMMA TrackBeginsStep ==
    ASSUME StagesAssumption, IInv, NEW c \in Callers, NEW kind, NEW j, NEW s, TrackBegins(c, kind, j, s)
    PROVE  IInv'
<1>. DEFINE r == [Idle EXCEPT !.pc = "find", !.now = clock + 1, !.kind = kind, !.job = j, !.to = s]
<1>1. CallOK(r) /\ (r.mail = NoMail \/ r.pc \notin Filing)
  BY StagesAssumption DEF CallOK, Idle, CallFields, Filing, Making
<1>2. Begins(c, r)
  BY DEF TrackBegins
<1>. QED  BY <1>1, <1>2, BeginsKeeps

LEMMA AddByHandStep ==
    ASSUME StagesAssumption, IInv, NEW c \in Callers, NEW s, AddByHand(c, s)
    PROVE  IInv'
<1>. DEFINE r == [Idle EXCEPT !.pc = "create", !.now = clock + 1, !.to = s]
<1>1. CallOK(r) /\ (r.mail = NoMail \/ r.pc \notin Filing)
  BY StagesAssumption DEF CallOK, Idle, CallFields, Filing, Making
<1>2. Begins(c, r)
  BY DEF AddByHand
<1>. QED  BY <1>1, <1>2, BeginsKeeps

LEMMA UpdateBeginsStep ==
    ASSUME StagesAssumption, IInv, NEW c \in Callers, NEW a, NEW s, NEW date \in {"keep", "person", "none"}, UpdateBegins(c, a, s, date)
    PROVE  IInv'
<1>. DEFINE r == [Idle EXCEPT !.pc = "move", !.now = clock + 1, !.app = a, !.row = rows[a], !.to = s, !.date = date]
<1>1. CallOK(r) /\ (r.mail = NoMail \/ r.pc \notin Filing)
  BY StagesAssumption DEF CallOK, Idle, CallFields, Filing, Making, UpdateBegins
<1>2. Begins(c, r)
  BY DEF UpdateBegins
<1>. QED  BY <1>1, <1>2, BeginsKeeps

LEMMA EmailArrivesStep ==
    ASSUME StagesAssumption, IInv, NEW c \in Callers, NEW e \in Emails, EmailArrives(c, e)
    PROVE  IInv'
<1>. DEFINE r == [Idle EXCEPT !.pc = "read", !.now = clock + 1, !.mail = e, !.to = Reports[e]]
<1>1. CallOK(r) /\ (r.mail = NoMail \/ r.pc \notin Filing)
  BY StagesAssumption DEF CallOK, Idle, CallFields, Filing, Making
<1>2. Begins(c, r)
  BY DEF EmailArrives
<1>. QED  BY <1>1, <1>2, BeginsKeeps

LEMMA DismissBeginsStep ==
    ASSUME StagesAssumption, IInv, NEW c \in Callers, NEW e \in Emails, DismissBegins(c, e)
    PROVE  IInv'
<1>. DEFINE r == [Idle EXCEPT !.pc = "dismiss", !.mail = e]
<1>1. CallOK(r) /\ (r.mail = NoMail \/ r.pc \notin Filing)
  BY StagesAssumption DEF CallOK, Idle, CallFields, Filing, Making
<1>2. Begins(c, r)
  BY DEF DismissBegins
<1>. QED  BY <1>1, <1>2, BeginsKeeps

LEMMA AssignBeginsStep ==
    ASSUME StagesAssumption, IInv, NEW c \in Callers, NEW e \in Emails, NEW S, AssignBegins(c, e, S)
    PROVE  IInv'
<1>. DEFINE r == [Idle EXCEPT !.pc = "assign", !.mail = e, !.to = Reports[e], !.left = S]
<1>1. CallOK(r) /\ (r.mail = NoMail \/ r.pc \notin Filing)
  BY StagesAssumption DEF CallOK, Idle, CallFields, Filing, Making
<1>2. Begins(c, r)
  BY DEF AssignBegins
<1>. QED  BY <1>1, <1>2, BeginsKeeps

LEMMA UndoBeginsStep ==
    ASSUME StagesAssumption, IInv, NEW c \in Callers, NEW e \in Emails, NEW S, UndoBegins(c, e, S)
    PROVE  IInv'
<1>. DEFINE r == [Idle EXCEPT !.pc = "undo", !.mail = e, !.left = S, !.more = S # Linked(e)]
<1>1. CallOK(r) /\ (r.mail = NoMail \/ r.pc \notin Filing)
  BY StagesAssumption DEF CallOK, Idle, CallFields, Filing, Making
<1>2. Begins(c, r)
  BY DEF UndoBegins
<1>. QED  BY <1>1, <1>2, BeginsKeeps

LEMMA FindJobStep == ASSUME StagesAssumption, IInv, NEW c \in Callers, FindJob(c) PROVE IInv'
<1>. DEFINE m == calls[c]  At(p, a) == [m EXCEPT !.app = a, !.row = rows[a], !.pc = p]
<1>1. CallOK(m) /\ m.pc = "find" /\ m.mail = NoMail
  BY DEF FindJob, IInv, Shape, CallOK
<1>2. CallOK([m EXCEPT !.pc = "create"]) /\ [m EXCEPT !.pc = "create"].mail = NoMail
  BY <1>1 DEF CallOK, CallFields
<1>3. ASSUME NEW a, NEW p \in {"move", "delete", "unmark"} PROVE CallOK(At(p, a)) /\ At(p, a).mail = NoMail
  BY <1>1 DEF CallOK, CallFields, Filing, Making
<1>4. PICK r : CallOK(r) /\ r.mail = NoMail /\ Goes(c, r)
  BY <1>2, <1>3, IdleOK DEF FindJob, Ends
<1>5. Narrower(r, m)
  BY <1>4, NotFiling, StagesAssumption
<1>. QED  BY <1>4, <1>5, CallOnly DEF FindJob

LEMMA UnmarkReadsStep == ASSUME StagesAssumption, IInv, NEW c \in Callers, UnmarkReads(c) PROVE IInv'
<1>. DEFINE m == calls[c]
<1>1. CallOK(m) /\ m.pc = "unmark"
  BY DEF UnmarkReads, IInv, Shape
<1>2. CallOK([m EXCEPT !.pc = "delete"]) /\ [m EXCEPT !.pc = "delete"].pc \notin Filing
  BY <1>1 DEF CallOK, CallFields, Filing, Making
<1>3. ASSUME NEW e PROVE CallOK([m EXCEPT !.pc = "unmarkwrite", !.read = {e}]) /\ [m EXCEPT !.pc = "unmarkwrite", !.read = {e}].pc \notin Filing
  BY <1>1 DEF CallOK, CallFields, Filing, Making
<1>4. PICK r : CallOK(r) /\ r.pc \notin Filing /\ Goes(c, r)
  BY <1>2, <1>3 DEF UnmarkReads
<1>5. Narrower(r, m)
  BY <1>4, NotFiling, StagesAssumption
<1>. QED  BY <1>4, <1>5, CallOnly DEF UnmarkReads

LEMMA ReadTimelineStep == ASSUME StagesAssumption, IInv, NEW c \in Callers, ReadTimeline(c) PROVE IInv'
<1>. DEFINE r == [calls[c] EXCEPT !.pc = "dates", !.read = timeline[calls[c].app]]
<1>1. CallOK(r) /\ r.pc \notin Filing
  BY DEF IInv, Shape, CallOK, CallFields, Filing, Making
<1>2. Narrower(r, calls[c])
  BY <1>1, NotFiling, StagesAssumption
<1>. QED  BY <1>1, <1>2, CallOnly DEF ReadTimeline

LEMMA UndoReadsStep == ASSUME StagesAssumption, IInv, NEW c \in Callers, UndoReads(c) PROVE IInv'
<1>. DEFINE r == [calls[c] EXCEPT !.pc = "undowrite", !.read = timeline[calls[c].app]]
<1>1. CallOK(r) /\ r.pc \notin Filing
  BY DEF IInv, Shape, CallOK, CallFields, Filing, Making
<1>2. Narrower(r, calls[c])
  BY <1>1, NotFiling, StagesAssumption
<1>. QED  BY <1>1, <1>2, CallOnly DEF UndoReads

LEMMA DiesStep == ASSUME StagesAssumption, IInv, NEW c \in Callers, Dies(c) PROVE IInv'
<1>1. Narrower(Idle, calls[c])
  BY NotFiling, StagesAssumption, IdleOK
<1>2. Sorted' /\ Shape'
  BY <1>1, IdleOK, CallOnly DEF Dies, Ends, IInv, Shape
<1>3. Dates'
  BY DEF IInv, Dates, RowFits, Here, Dies
<1>. QED  BY <1>2, <1>3 DEF IInv

(***************************************************************************)
(* The calls that write rows, or steps of no email.                        *)
(***************************************************************************)

(* The batch of a move: the row has no date and one more step. *)
LEMMA WriteMoveShape ==
    ASSUME Shape, Dates, NEW a \in Apps, NEW s, NEW now, NEW mail, WriteMove(a, s, now, mail)
    PROVE  /\ DOMAIN rows' = Apps /\ DOMAIN timeline' = Apps
           /\ \A b \in Apps : DOMAIN rows'[b] = RowFields
           /\ \A b \in Apps : \A d \in timeline'[b] : DOMAIN d = StepFields
           /\ \A b : timeline'[b] = timeline[b] \/ (b = a /\ timeline'[b] = timeline[b] \cup {NewStep(a, s, now, mail)})
           /\ Dates'
<1>1. DOMAIN MovedRow(rows[a], s, now) = RowFields /\ MovedRow(rows[a], s, now).date = "none"
  BY RowShape DEF Shape
<1>2. rows' = [rows EXCEPT ![a] = MovedRow(rows[a], s, now)] /\ timeline' = [timeline EXCEPT ![a] = timeline[a] \cup {NewStep(a, s, now, mail)}]
  BY DEF WriteMove
<1>3. DOMAIN NewStep(a, s, now, mail) = StepFields
  BY StepShape
<1>4. Dates'
  <2>1. drift \subseteq drift'
    BY DEF WriteMove
  <2>2. \A b \in Apps : b = a \/ rows'[b] = rows[b]
    BY <1>2
  <2>3. rows'[a].date = "none"
    BY <1>1, <1>2 DEF Shape
  <2>. QED  BY <2>1, <2>2, <2>3 DEF Dates, RowFits, Here
<1>. QED  BY <1>1, <1>2, <1>3, <1>4 DEF Shape

LEMMA MoveToStageStep == ASSUME StagesAssumption, IInv, NEW c \in Callers, MoveToStage(c) PROVE IInv'
<1>. DEFINE m == calls[c]
            on == IF m.date = "keep" THEN Idle ELSE [m EXCEPT !.pc = "date"]
<1>1. CallOK(m) /\ m.pc = "move"
  BY DEF MoveToStage, IInv, Shape
<1>2. CallOK(on) /\ Narrower(on, m) /\ Narrower(Idle, m)
  <2>1. m.date # "keep" => CallOK([m EXCEPT !.pc = "date"]) /\ [m EXCEPT !.pc = "date"].pc \notin Filing
    BY <1>1 DEF CallOK, CallFields, Filing, Making
  <2>. QED  BY <2>1, IdleOK, NotFiling, StagesAssumption
<1>3. CASE Goes(c, on) /\ UNCHANGED <<rows, timeline, drift>>
  BY <1>2, <1>3, CallOnly DEF MoveToStage
<1>4. CASE Ends(c) /\ UNCHANGED <<rows, timeline, drift>>
  BY <1>2, <1>4, CallOnly, IdleOK DEF MoveToStage, Ends
<1>5. CASE CanRecord(m.app, NoMail) /\ WriteMove(m.app, m.to, m.now, NoMail) /\ Goes(c, on)
  <2>1. m.app \in Apps
    BY <1>5 DEF CanRecord, Here
  <2>2. UNCHANGED <<mails, twice>>
    BY DEF MoveToStage
  <2>3. Sorted'
    BY <1>2, <1>5, <2>1, <2>2, WriteMoveShape, StepShape, Keeps, GoesShape DEF IInv
  <2>4. Shape' /\ Dates'
    BY <1>2, <1>5, <2>1, <2>2, WriteMoveShape, GoesShape DEF IInv, Shape
  <2>. QED  BY <2>3, <2>4 DEF IInv
<1>. QED  BY <1>3, <1>4, <1>5 DEF MoveToStage

LEMMA SetStageDateStep == ASSUME StagesAssumption, IInv, NEW c \in Callers, SetStageDate(c) PROVE IInv'
<1>. DEFINE m == calls[c]
<1>1. CallOK(m) /\ m.pc = "date"
  BY DEF SetStageDate, IInv, Shape
<1>2. DOMAIN rows' = Apps /\ \A a \in Apps : DOMAIN rows'[a] = RowFields
  BY DEF SetStageDate, IInv, Shape
<1>3. Narrower(Idle, m)
  BY IdleOK, NotFiling, StagesAssumption
<1>4. Sorted' /\ Shape'
  BY <1>2, <1>3, IdleOK, CallOnly DEF SetStageDate, Ends
<1>5. Dates'
  <2>. SUFFICES ASSUME NEW a \in Apps PROVE RowFits(a)'
    BY DEF Dates
  <2>1. RowFits(a)
    BY DEF IInv, Dates
  <2>2. CASE a # m.app \/ ~Here(m.app)
    BY <2>1, <2>2 DEF SetStageDate, RowFits, Here, IInv, Shape
  <2>3. CASE a = m.app /\ Here(m.app)
    <3>1. rows'[a].date = m.date /\ rows'[a].stage = rows[a].stage
      BY <2>3 DEF SetStageDate, IInv, Shape, RowFields
    <3>2. a \notin drift' => rows[a].stage = m.to
      BY <2>3 DEF SetStageDate
    <3>. QED  BY <1>1, <3>1, <3>2 DEF RowFits, CallOK
  <2>. QED  BY <2>2, <2>3
<1>. QED  BY <1>4, <1>5 DEF IInv

(* Rows that lose their date, or keep it with their stage. *)
LEMMA DatesKeep ==
    ASSUME Dates, drift \subseteq drift',
           \A a \in Apps : \/ rows'[a] = rows[a] \/ rows'[a].date = "none" \/ rows'[a].life # "here"
                           \/ rows[a].life = "here" /\ rows'[a].stage = rows[a].stage /\ rows'[a].date = rows[a].date
    PROVE  Dates'
BY DEF Dates, RowFits, Here

LEMMA CreateApplicationStep == ASSUME StagesAssumption, IInv, NEW c \in Callers, CreateApplication(c) PROVE IInv'
<1>. DEFINE m == calls[c]
<1>1. CallOK(m) /\ m.pc = "create"
  BY DEF CreateApplication, IInv, Shape
<1>2. CASE UNCHANGED rows /\ (Ends(c) \/ Goes(c, [m EXCEPT !.pc = "nothing"]))
  <2>. DEFINE r == [m EXCEPT !.pc = "nothing"]
  <2>1. CallOK(r) /\ Narrower(r, m)
    BY <1>1 DEF CallOK, CallFields, Filing, Making, Narrower
  <2>2. Narrower(Idle, m)
    BY IdleOK, NotFiling, StagesAssumption
  <2>3. Goes(c, r) \/ Goes(c, Idle)
    BY <1>2 DEF Ends
  <2>. QED  BY <1>2, <2>1, <2>2, <2>3, IdleOK, CallOnly DEF CreateApplication
<1>3. ASSUME NEW a \in Apps, rows' = [rows EXCEPT ![a] = MovedRow([Unused EXCEPT !.life = "here", !.job = m.job], m.to, m.now)],
             Goes(c, [m EXCEPT !.pc = "first", !.app = a])
      PROVE  IInv'
  <2>. DEFINE r == [m EXCEPT !.pc = "first", !.app = a]
              row == [Unused EXCEPT !.life = "here", !.job = m.job]
  <2>1. CallOK(r) /\ Narrower(r, m)
    BY <1>1 DEF CallOK, CallFields, Filing, Making, Narrower
  <2>2. DOMAIN row = RowFields
    BY IdleOK DEF Unused
  <2>3. DOMAIN MovedRow(row, m.to, m.now) = RowFields /\ MovedRow(row, m.to, m.now).date = "none"
    BY <2>2 DEF MovedRow, RowFields
  <2>4. DOMAIN rows' = Apps /\ \A b \in Apps : DOMAIN rows'[b] = RowFields /\ (b = a \/ rows'[b] = rows[b])
    BY <1>3, <2>3 DEF IInv, Shape
  <2>5. rows'[a].date = "none"
    BY <1>3, <2>3 DEF IInv, Shape
  <2>6. UNCHANGED <<timeline, mails, drift, twice>>
    BY DEF CreateApplication
  <2>7. Dates'
    BY <2>4, <2>5, <2>6, DatesKeep DEF IInv
  <2>. QED  BY <1>3, <2>1, <2>4, <2>6, <2>7, CallOnly DEF IInv
<1>. QED  BY <1>2, <1>3 DEF CreateApplication

LEMMA DeleteShape ==
    ASSUME Shape, Dates, NEW a, DeleteApplication(a), drift \subseteq drift'
    PROVE  /\ DOMAIN rows' = Apps /\ DOMAIN timeline' = Apps
           /\ \A b \in Apps : DOMAIN rows'[b] = RowFields
           /\ \A b \in Apps : \A d \in timeline'[b] : d \in timeline[b]
           /\ Dates'
<1>1. /\ DOMAIN rows' = Apps /\ DOMAIN timeline' = Apps
      /\ \A b \in Apps : \A d \in timeline'[b] : d \in timeline[b]
  BY DEF Shape, DeleteApplication
<1>2. \A b \in Apps : DOMAIN rows'[b] = RowFields /\ (rows'[b] = rows[b] \/ rows'[b].life = "gone")
  BY IdleOK DEF Shape, DeleteApplication
<1>. QED  BY <1>1, <1>2, DatesKeep

LEMMA DeleteRouteStep == ASSUME StagesAssumption, IInv, NEW c \in Callers, NEW a, DeleteRoute(c, a) PROVE IInv'
<1>1. Narrower(calls[c], calls[c])
  BY DEF Narrower
<1>2. /\ DOMAIN rows' = Apps /\ DOMAIN timeline' = Apps
      /\ \A b \in Apps : DOMAIN rows'[b] = RowFields
      /\ \A b \in Apps : \A d \in timeline'[b] : d \in timeline[b]
      /\ Dates'
  BY DeleteShape DEF DeleteRoute, IInv
<1>3. Sorted'
  BY <1>1, <1>2, Keeps DEF DeleteRoute, IInv
<1>. QED  BY <1>2, <1>3 DEF DeleteRoute, IInv, Shape

LEMMA UnsaveStep == ASSUME StagesAssumption, IInv, NEW c \in Callers, Unsave(c) PROVE IInv'
<1>1. Narrower(Idle, calls[c])
  BY IdleOK, NotFiling, StagesAssumption
<1>2. /\ DOMAIN rows' = Apps /\ DOMAIN timeline' = Apps
      /\ \A b \in Apps : DOMAIN rows'[b] = RowFields
      /\ \A b \in Apps : \A d \in timeline'[b] : d \in timeline[b]
      /\ Dates'
  BY DeleteShape DEF Unsave, IInv
<1>3. calls'[c] = Idle /\ (\A d \in Callers \ {c} : calls'[d] = calls[d]) /\ DOMAIN calls' = Callers /\ \A d \in Callers : CallOK(calls'[d])
  BY IdleOK, GoesShape DEF Unsave, Ends, IInv
<1>4. Sorted'
  BY <1>1, <1>2, <1>3, Keeps DEF Unsave, IInv
<1>. QED  BY <1>2, <1>3, <1>4 DEF Unsave, IInv, Shape

LEMMA UnmarkWritesStep == ASSUME StagesAssumption, IInv, NEW c \in Callers, UnmarkWrites(c) PROVE IInv'
<1>. DEFINE m == calls[c]
<1>1. Narrower(Idle, m)
  BY IdleOK, NotFiling, StagesAssumption
<1>2. DOMAIN timeline' = Apps /\ \A b \in Apps : \A d \in timeline'[b] : d \in timeline[b]
  BY DEF UnmarkWrites, IInv, Shape
<1>3. DOMAIN rows' = Apps /\ \A b \in Apps : DOMAIN rows'[b] = RowFields /\ (rows'[b] = rows[b] \/ rows'[b].date = "none")
  BY DEF UnmarkWrites, IInv, Shape, RowFields
<1>4. calls'[c] = Idle /\ (\A d \in Callers \ {c} : calls'[d] = calls[d]) /\ DOMAIN calls' = Callers /\ \A d \in Callers : CallOK(calls'[d])
  BY IdleOK, GoesShape DEF UnmarkWrites, Ends, IInv
<1>5. UNCHANGED <<mails, twice>> /\ drift \subseteq drift'
  BY DEF UnmarkWrites
<1>6. Sorted' /\ Dates'
  BY <1>1, <1>2, <1>3, <1>4, <1>5, Keeps, DatesKeep DEF IInv
<1>. QED  BY <1>2, <1>3, <1>4, <1>5, <1>6 DEF IInv, Shape

LEMMA WriteDatesStep == ASSUME StagesAssumption, IInv, NEW c \in Callers, WriteDates(c) PROVE IInv'
<1>1. Narrower(Idle, calls[c])
  BY IdleOK, NotFiling, StagesAssumption
<1>2. \A v, w : \A a \in Apps : LET row == [rows[a] EXCEPT !.applied = v, !.changed = w]
                               IN  DOMAIN row = RowFields /\ row.stage = rows[a].stage /\ row.date = rows[a].date
  BY DEF IInv, Shape, RowFields
<1>3. /\ DOMAIN rows' = Apps
      /\ \A b \in Apps : /\ DOMAIN rows'[b] = RowFields
                         /\ rows'[b] = rows[b] \/ (rows[b].life = "here" /\ rows'[b].stage = rows[b].stage /\ rows'[b].date = rows[b].date)
  BY <1>2 DEF WriteDates, IInv, Shape, Here
<1>4. Sorted' /\ Shape'
  BY <1>1, <1>3, IdleOK, CallOnly DEF WriteDates, Ends
<1>5. Dates'
  BY <1>3, DatesKeep DEF WriteDates, IInv
<1>. QED  BY <1>4, <1>5 DEF IInv

LEMMA RedateStepStep ==
    ASSUME StagesAssumption, IInv, NEW c \in Callers, NEW a \in Apps, NEW d \in timeline[a], NEW at, RedateStep(c, a, d, at)
    PROVE  IInv'
<1>. DEFINE r == [Idle EXCEPT !.pc = "redated", !.now = clock + 1, !.app = a, !.row = rows[a]]
            anew == [d EXCEPT !.at = at]
<1>1. CallOK(r) /\ r.pc \notin Filing
  BY DEF CallOK, Idle, CallFields, Filing, Making
<1>2. Narrower(r, calls[c])
  BY <1>1, NotFiling, StagesAssumption
<1>3. Goes(c, r)
  BY DEF RedateStep
<1>4. DOMAIN anew = StepFields /\ anew.mail = d.mail
  BY DEF IInv, Shape, StepFields
<1>5. DOMAIN timeline' = Apps /\ timeline'[a] = (timeline[a] \ {d}) \cup {anew} /\ \A b \in Apps \ {a} : timeline'[b] = timeline[b]
  BY DEF RedateStep, IInv, Shape
<1>6. Shape' /\ Dates'
  BY <1>1, <1>3, <1>4, <1>5, GoesShape DEF IInv, Shape, Dates, RowFits, Here, RedateStep
<1>7. Sorted'
  <2>. SUFFICES ASSUME NEW e \in Emails, e \notin twice' PROVE EmailOK(e)'
    BY DEF Sorted
  <2>1. EmailOK(e) /\ mails' = mails
    BY DEF Sorted, IInv, RedateStep
  <2>2. \A b \in Apps \ {a} : StepsOf(e, b)' = StepsOf(e, b)
    BY <1>5 DEF StepsOf
  <2>3. IF d.mail = e THEN StepsOf(e, a) = {d} /\ StepsOf(e, a)' = {anew} ELSE StepsOf(e, a)' = StepsOf(e, a)
    <3>1. \A x \in StepsOf(e, a) : x \in timeline[a] /\ x.mail = e
      BY DEF StepsOf
    <3>2. CASE d.mail = e
      <4>1. StepsOf(e, a) = {d}
        BY <2>1, <3>2 DEF EmailOK, OneStep, StepsOf
      <4>2. StepsOf(e, a)' = (StepsOf(e, a) \ {d}) \cup {anew}
        BY <1>4, <1>5, <3>2 DEF StepsOf
      <4>. QED  BY <3>2, <4>1, <4>2
    <3>3. CASE d.mail # e
      BY <1>4, <1>5, <3>3 DEF StepsOf
    <3>. QED  BY <3>2, <3>3
  <2>4. OneStep(e)'
    BY <2>1, <2>2, <2>3 DEF EmailOK, OneStep
  <2>5. \A b \in Apps : StepsOf(e, b) = {} => StepsOf(e, b)' = {}
    BY <2>2, <2>3
  <2>6. StepsFiled(e)'
    BY <2>1, <2>5 DEF EmailOK, StepsFiled, Linked
  <2>7. calls'[c] = r /\ \A x \in Callers \ {c} : calls'[x] = calls[x]
    BY <1>1, <1>3, GoesShape DEF IInv
  <2>8. Narrower(calls'[c], calls[c])
    BY <1>2, <2>7
  <2>. QED  BY <2>1, <2>4, <2>5, <2>6, <2>7, <2>8, Narrows
<1>. QED  BY <1>6, <1>7 DEF IInv

(***************************************************************************)
(* Emails.  What changes the status of one email is of no concern to the   *)
(* others.                                                                 *)
(***************************************************************************)

LEMMA OthersKeep ==
    ASSUME StagesAssumption, Shape, Sorted, NEW c \in Callers,
           \A x \in Callers \ {c} : calls'[x] = calls[x],
           NEW e \in Emails, e # calls[c].mail, e \notin twice', twice \subseteq twice',
           calls'[c].mail # e \/ calls'[c].pc \notin Filing,
           \A a \in Apps : \A d \in timeline'[a] : d \in timeline[a] \/ d.mail # e,
           mails'[e] = mails[e]
    PROVE  EmailOK(e)'
<1>1. EmailOK(e)
  BY DEF Sorted
<1>2. \A a \in Apps : StepsOf(e, a)' \subseteq StepsOf(e, a)
  BY DEF StepsOf
<1>3. OneStep(e)' /\ StepsFiled(e)' /\ \A a \in Apps : StepsOf(e, a) = {} => StepsOf(e, a)' = {}
  BY <1>1, <1>2 DEF EmailOK, OneStep, StepsFiled, Linked
<1>4. \A x \in Callers : Files(x, e)' => Files(x, e) /\ calls'[x] = calls[x]
  BY DEF Files
<1>5. OneFiler(e)' /\ FilerSorts(e)'
  BY <1>1, <1>3, <1>4 DEF EmailOK, OneFiler, FilerSorts, Linked
<1>. QED  BY <1>3, <1>5 DEF EmailOK

(* An email that is not sorted has no step and no call that files it. *)
LEMMA Unsorted ==
    ASSUME NEW e \in Emails, EmailOK(e), mails[e].status \in {"none", "needs_choice"}
    PROVE  (\A a \in Apps : StepsOf(e, a) = {}) /\ \A x \in Callers : ~Files(x, e)
BY DEF EmailOK, StepsFiled, FilerSorts, Linked, Filed

LEMMA RecordSorts ==
    ASSUME StagesAssumption, IInv, NEW c \in Callers, calls[c].pc = "read", NEW status, NEW S, NEW r, Record(c, status, S, r),
           status \notin {"none", "needs_choice"} \/ r = Idle, CallOK(r),
           r = Idle \/ (r.mail = calls[c].mail /\ r.pc \in {"create", "file"} /\ (r.pc = "create" => r.left = {})),
           UNCHANGED <<rows, timeline, drift, twice>>
    PROVE  IInv'
<1>. DEFINE m == calls[c]
<1>1. CASE mails[m.mail].status # "none"
  <2>1. Narrower(Idle, m)
    BY IdleOK, NotFiling, StagesAssumption
  <2>. QED  BY <1>1, <2>1, IdleOK, CallOnly DEF Record, Ends
<1>2. CASE mails[m.mail].status = "none"
  <2>1. mails' = [mails EXCEPT ![m.mail] = [status |-> status, candidates |-> S]] /\ Goes(c, r)
    BY <1>2 DEF Record
  <2>2. calls'[c] = r /\ \A x \in Callers \ {c} : calls'[x] = calls[x]
    BY <2>1, GoesShape DEF IInv
  <2>3. Shape' /\ Dates'
    <3>1. DOMAIN mails' = Emails /\ \A e \in Emails : DOMAIN mails'[e] = {"status", "candidates"}
      BY <2>1 DEF IInv, Shape
    <3>. QED  BY <2>1, <3>1, GoesShape DEF IInv, Shape, Dates, RowFits, Here
  <2>4. ASSUME NEW e \in Emails, e \notin twice', e # m.mail PROVE EmailOK(e)'
    <3>1. mails'[e] = mails[e] /\ (calls'[c].mail # e \/ calls'[c].pc \notin Filing)
      BY <2>1, <2>2, <2>4, IdleOK, StagesAssumption DEF IInv, Shape
    <3>. QED  BY <2>2, <2>4, <3>1, OthersKeep DEF IInv
  <2>5. ASSUME NEW e \in Emails, e \notin twice', e = m.mail PROVE EmailOK(e)'
    <3>1. EmailOK(e) /\ mails'[e].status = status
      BY <2>1, <2>5 DEF IInv, Sorted, Shape
    <3>0. mails[e].status \in {"none", "needs_choice"}
      BY <1>2, <2>5
    <3>a. (\A a \in Apps : StepsOf(e, a) = {}) /\ \A x \in Callers : ~Files(x, e)
      BY <3>0, <3>1, Unsorted
    <3>2. \A a \in Apps : StepsOf(e, a)' = {}
      BY <3>a DEF StepsOf
    <3>3. \A x \in Callers \ {c} : ~Files(x, e)'
      BY <2>2, <3>a DEF Files
    <3>4. Files(c, e)' => status \notin {"none", "needs_choice"} /\ (calls'[c].pc \in Making => calls'[c].left = {})
      BY <2>2, <2>5, IdleOK, StagesAssumption DEF Files, Filing, Making
    <3>5. OneStep(e)' /\ StepsFiled(e)' /\ OneFiler(e)'
      BY <3>2, <3>3 DEF OneStep, StepsFiled, OneFiler, Linked
    <3>6. FilerSorts(e)'
      BY <3>1, <3>2, <3>3, <3>4 DEF FilerSorts, Linked
    <3>. QED  BY <3>5, <3>6 DEF EmailOK
  <2>6. \A e \in Emails \ twice' : EmailOK(e)'
    BY <2>4, <2>5
  <2>. QED  BY <2>3, <2>6 DEF IInv, Sorted
<1>. QED  BY <1>1, <1>2

LEMMA FileEmailStep == ASSUME StagesAssumption, IInv, NEW c \in Callers, FileEmail(c) PROVE IInv'
<1>. DEFINE m == calls[c]
            Under(S, w) == [m EXCEPT !.pc = "file", !.left = S, !.was = w]
            Made(j) == [m EXCEPT !.pc = "create", !.job = j]
<1>1. CallOK(m) /\ m.pc = "read" /\ m.left = {}
  BY DEF FileEmail, IInv, Shape, CallOK
<1>2. ASSUME NEW S, NEW w, NEW status \in {"applied", "unchanged"}, Record(c, status, {}, Under(S, w))
      PROVE  IInv'
  <2>. DEFINE r == Under(S, w)
  <2>1. CallOK(r) /\ r.mail = m.mail /\ r.pc = "file"
    BY <1>1 DEF CallOK, CallFields, Filing, Making
  <2>2. Record(c, status, {}, r)
    BY <1>2
  <2>. HIDE DEF r
  <2>. QED  BY <1>1, <2>1, <2>2, RecordSorts DEF FileEmail
<1>3. ASSUME NEW j, Record(c, "created", {}, Made(j)) PROVE IInv'
  <2>. DEFINE r == Made(j)
  <2>1. CallOK(r) /\ r.mail = m.mail /\ r.pc = "create" /\ r.left = {}
    BY <1>1 DEF CallOK, CallFields, Filing, Making
  <2>2. Record(c, "created", {}, r)
    BY <1>3
  <2>. HIDE DEF r
  <2>. QED  BY <1>1, <2>1, <2>2, RecordSorts DEF FileEmail
<1>4. ASSUME NEW S, NEW status, Record(c, status, S, Idle) PROVE IInv'
  BY <1>1, <1>4, IdleOK, RecordSorts DEF FileEmail
<1>5. (\E S, w : \E status \in {"applied", "unchanged"} : Record(c, status, {}, Under(S, w)))
      \/ (\E j : Record(c, "created", {}, Made(j)))
      \/ (\E S, status : Record(c, status, S, Idle))
  BY Zenon DEF FileEmail
<1>. HIDE DEF Under, Made
<1>. QED  BY <1>2, <1>3, <1>4, <1>5

(* A step of the email a call files, on an application that has none. *)
LEMMA StepLands ==
    ASSUME StagesAssumption, Shape, Sorted, NEW c \in Callers, NEW a \in Apps, NEW d,
           d.mail = calls[c].mail, calls[c].pc \in Filing,
           calls[c].mail \notin twice => calls[c].pc \in Making \/ a \in calls[c].left,
           LandsFor(calls[c].mail), mails' = mails,
           timeline'[a] = timeline[a] \cup {d}, \A b \in Apps \ {a} : timeline'[b] = timeline[b],
           \A x \in Callers \ {c} : calls'[x] = calls[x],
           Narrower(calls'[c], calls[c]),
           calls[c].mail \notin twice /\ calls'[c].mail \in Emails /\ calls'[c].pc \in Filing =>
               a \notin calls'[c].left /\ calls'[c].pc \notin Making
    PROVE  Sorted'
<1>. SUFFICES ASSUME NEW e \in Emails, e \notin twice' PROVE EmailOK(e)'
  BY DEF Sorted
<1>0. twice \subseteq twice' /\ EmailOK(e)
  BY DEF LandsFor, Sorted
<1>1. CASE e # calls[c].mail
  <2>1. \A b \in Apps : \A x \in timeline'[b] : x \in timeline[b] \/ x.mail # e
    BY <1>1
  <2>2. calls'[c].mail # e \/ calls'[c].pc \notin Filing
    BY <1>1 DEF Narrower
  <2>. QED  BY <1>0, <1>1, <2>1, <2>2, OthersKeep
<1>2. CASE e = calls[c].mail
  <2>1. Files(c, e) /\ mails[e].status \in Filed
    BY <1>2, StagesAssumption DEF Files, LandsFor
  <2>2. StepsOf(e, a) = {}
    BY <1>0, <2>1 DEF EmailOK, FilerSorts, Files, Linked
  <2>3. (\A x \in StepsOf(e, a)' : x = d) /\ \A b \in Apps \ {a} : StepsOf(e, b)' = StepsOf(e, b)
    BY <2>2 DEF StepsOf
  <2>4. OneStep(e)' /\ StepsFiled(e)'
    BY <1>0, <2>1, <2>3 DEF EmailOK, OneStep, StepsFiled
  <2>5. \A x \in Callers : Files(x, e)' => /\ x = c /\ calls'[c].pc \notin Making /\ a \notin calls'[c].left
                                           /\ calls'[c].left \subseteq calls[c].left
    BY <1>0, <2>1 DEF Files, Narrower, EmailOK, OneFiler
  <2>6. OneFiler(e)' /\ FilerSorts(e)'
    BY <1>0, <2>1, <2>3, <2>5 DEF EmailOK, OneFiler, FilerSorts
  <2>. QED  BY <2>4, <2>6 DEF EmailOK
<1>. QED  BY <1>1, <1>2

LEMMA FirstStepStep == ASSUME StagesAssumption, IInv, NEW c \in Callers, FirstStep(c) PROVE IInv'
<1>. DEFINE m == calls[c]
<1>1. CallOK(m) /\ m.pc = "first"
  BY DEF FirstStep, IInv, Shape
<1>2. CASE ~CanRecord(m.app, m.mail)
  <2>1. Narrower(Idle, m)
    BY IdleOK, NotFiling, StagesAssumption
  <2>. QED  BY <1>2, <2>1, IdleOK, CallOnly DEF FirstStep, Ends
<1>3. CASE CanRecord(m.app, m.mail)
  <2>. DEFINE on == [m EXCEPT !.pc = "emaildate"]
              r == IF m.mail \in Dated THEN on ELSE Idle
              d == NewStep(m.app, m.to, m.now, m.mail)
  <2>1. m.mail \in Dated => /\ CallOK(on) /\ Narrower(on, m) /\ on.pc \notin Making /\ on.left = m.left /\ on.mail = m.mail
    BY <1>1 DEF CallOK, CallFields, Filing, Making, Narrower
  <2>2. CallOK(r) /\ Narrower(r, m) /\ r.pc \notin Making
    BY <2>1, IdleOK, NotFiling, StagesAssumption DEF Making
  <2>3. m.app \in Apps /\ d.mail = m.mail /\ DOMAIN d = StepFields
    BY <1>3, StepShape DEF CanRecord, Here
  <2>4. Goes(c, r) /\ timeline' = [timeline EXCEPT ![m.app] = timeline[m.app] \cup {d}] /\ LandsFor(m.mail) /\ UNCHANGED <<rows, mails>>
    BY <1>3 DEF FirstStep
  <2>5. timeline'[m.app] = timeline[m.app] \cup {d} /\ DOMAIN timeline' = Apps /\ \A b \in Apps \ {m.app} : timeline'[b] = timeline[b]
    BY <2>3, <2>4 DEF IInv, Shape
  <2>6. calls'[c] = r /\ (\A x \in Callers \ {c} : calls'[x] = calls[x]) /\ DOMAIN calls' = Callers /\ \A x \in Callers : CallOK(calls'[x])
    BY <2>2, <2>4, GoesShape DEF IInv
  <2>7. Shape'
    BY <2>3, <2>4, <2>5, <2>6 DEF IInv, Shape
  <2>8. Sorted'
    <3>1. m.mail \notin twice /\ r.mail \in Emails /\ r.pc \in Filing => m.app \notin r.left
      <4>1. CASE r = Idle
        BY <4>1, IdleOK, StagesAssumption
      <4>2. CASE m.mail \in Dated /\ m.mail \notin twice
        <5>1. m.left = {}
          BY <1>1, <4>2, StagesAssumption DEF IInv, Sorted, EmailOK, FilerSorts, Files, Filing, Making
        <5>. QED  BY <2>1, <5>1, <4>2
      <4>. QED  BY <4>1, <4>2
    <3>. HIDE DEF r, d
    <3>. QED  BY <1>1, <2>2, <2>3, <2>4, <2>5, <2>6, <3>1, StepLands DEF IInv, Filing, Making
  <2>9. Dates'
    BY <1>3 DEF FirstStep, IInv, Dates, RowFits, Here
  <2>. QED  BY <2>7, <2>8, <2>9 DEF IInv
<1>. QED  BY <1>2, <1>3

(* FilesOn is one of two ends. *)
LEMMA FilesOnOK ==
    ASSUME StagesAssumption, NEW c \in Callers, NEW m, CallOK(m), m.mail \in Emails, m.pc \in {"file", "emaildate"}, FilesOn(c, m)
    PROVE  \E r : Goes(c, r) /\ CallOK(r) /\ (r = Idle \/ (r.mail = m.mail /\ r.pc = "file" /\ r.left = m.left))
<1>1. CASE m.left = {}
  BY <1>1, IdleOK DEF FilesOn
<1>2. CASE m.left # {}
  <2>. DEFINE r == [m EXCEPT !.pc = "file"]
  <2>1. CallOK(r) /\ r.mail = m.mail /\ r.pc = "file" /\ r.left = m.left
    BY DEF CallOK, CallFields, Filing, Making
  <2>. QED  BY <1>2, <2>1 DEF FilesOn
<1>. QED  BY <1>1, <1>2

LEMMA EmailStepStep == ASSUME StagesAssumption, IInv, NEW c \in Callers, EmailStep(c) PROVE IInv'
<1>. DEFINE m == calls[c]
<1>1. CallOK(m) /\ m.pc = "file" /\ m.mail \in Emails
  BY DEF EmailStep, IInv, Shape, CallOK
<1>. PICK a \in m.left :
        LET moves == EmailMovesStage(m.was[a], m.to)
            on == [m EXCEPT !.left = @ \ {a}, !.app = a]
            dates == IF m.mail \in Dated THEN Goes(c, [on EXCEPT !.pc = "emaildate"]) ELSE FilesOn(c, on)
        IN  \/ ~moves /\ dates /\ UNCHANGED <<rows, timeline, drift, twice>>
            \/ moves /\ CanRecord(a, m.mail) /\ WriteMove(a, m.to, m.now, m.mail) /\ LandsFor(m.mail) /\ dates
            \/ moves /\ ~CanRecord(a, m.mail) /\ Ends(c) /\ UNCHANGED <<rows, timeline, drift, twice>>
  BY DEF EmailStep
<1>. DEFINE on == [m EXCEPT !.left = @ \ {a}, !.app = a]
            dates == IF m.mail \in Dated THEN Goes(c, [on EXCEPT !.pc = "emaildate"]) ELSE FilesOn(c, on)
<1>2. UNCHANGED mails
  BY DEF EmailStep
<1>3. CASE Ends(c) /\ UNCHANGED <<rows, timeline, drift, twice>>
  BY <1>2, <1>3, IdleOK, NotFiling, StagesAssumption, CallOnly DEF Ends
<1>4. ASSUME dates
      PROVE  \E r : Goes(c, r) /\ CallOK(r) /\ (r = Idle \/ (r.mail = m.mail /\ r.pc \in {"file", "emaildate"} /\ r.left = m.left \ {a}))
  <2>1. CallOK(on) /\ on.mail = m.mail /\ on.pc = "file" /\ on.left = m.left \ {a}
    BY <1>1 DEF CallOK, CallFields, Filing, Making
  <2>2. CASE m.mail \in Dated
    <3>1. LET r == [on EXCEPT !.pc = "emaildate"] IN CallOK(r) /\ r.mail = m.mail /\ r.pc = "emaildate" /\ r.left = m.left \ {a}
      BY <2>1, <2>2 DEF CallOK, CallFields, Filing, Making
    <3>2. Goes(c, [on EXCEPT !.pc = "emaildate"])
      BY <1>4, <2>2
    <3>. QED  BY <3>1, <3>2
  <2>3. CASE m.mail \notin Dated
    <3>1. FilesOn(c, on)
      BY <1>4, <2>3
    <3>. HIDE DEF on
    <3>2. PICK r : Goes(c, r) /\ CallOK(r) /\ (r = Idle \/ (r.mail = on.mail /\ r.pc = "file" /\ r.left = on.left))
      BY <1>1, <2>1, <3>1, FilesOnOK
    <3>. QED  BY <2>1, <3>2
  <2>. QED  BY <2>2, <2>3
<1>5. ASSUME NEW r, CallOK(r), r = Idle \/ (r.mail = m.mail /\ r.pc \in {"file", "emaildate"} /\ r.left = m.left \ {a})
      PROVE  Narrower(r, m) /\ (r.mail \in Emails /\ r.pc \in Filing => a \notin r.left /\ r.pc \notin Making)
  BY <1>1, <1>5, IdleOK, StagesAssumption DEF Narrower, Filing, Making
<1>6. CASE dates /\ UNCHANGED <<rows, timeline, drift, twice>>
  <2>1. PICK r : Goes(c, r) /\ CallOK(r) /\ Narrower(r, m)
    BY <1>4, <1>5, <1>6
  <2>. QED  BY <1>2, <1>6, <2>1, CallOnly
<1>7. CASE CanRecord(a, m.mail) /\ WriteMove(a, m.to, m.now, m.mail) /\ LandsFor(m.mail) /\ dates
  <2>1. PICK r : Goes(c, r) /\ CallOK(r) /\ Narrower(r, m) /\ (r.mail \in Emails /\ r.pc \in Filing => a \notin r.left /\ r.pc \notin Making)
    BY <1>4, <1>5, <1>7
  <2>2. a \in Apps
    BY <1>7 DEF CanRecord, Here
  <2>3. calls'[c] = r /\ (\A x \in Callers \ {c} : calls'[x] = calls[x]) /\ DOMAIN calls' = Callers /\ \A x \in Callers : CallOK(calls'[x])
    BY <2>1, GoesShape DEF IInv
  <2>4. Shape' /\ Dates'
    BY <1>2, <1>7, <2>2, <2>3, WriteMoveShape DEF IInv, Shape
  <2>. DEFINE d == NewStep(a, m.to, m.now, m.mail)
  <2>5. timeline'[a] = timeline[a] \cup {d} /\ \A b \in Apps \ {a} : timeline'[b] = timeline[b]
    BY <1>7, <2>2 DEF WriteMove, IInv, Shape
  <2>6. d.mail = m.mail
    BY StepShape
  <2>. HIDE DEF d
  <2>7. Sorted'
    BY <1>1, <1>2, <1>7, <2>1, <2>2, <2>3, <2>5, <2>6, StepLands DEF IInv, Filing, Making
  <2>. QED  BY <2>4, <2>7 DEF IInv
<1>. QED  BY <1>3, <1>6, <1>7

LEMMA SetStageDateFromEmailStep == ASSUME StagesAssumption, IInv, NEW c \in Callers, SetStageDateFromEmail(c) PROVE IInv'
<1>. DEFINE m == calls[c]
<1>1. CallOK(m) /\ m.pc = "emaildate" /\ m.mail \in Dated
  BY DEF SetStageDateFromEmail, IInv, Shape, CallOK
<1>2. PICK r : Goes(c, r) /\ CallOK(r) /\ (r = Idle \/ (r.mail = m.mail /\ r.pc = "file" /\ r.left = m.left))
  BY <1>1, FilesOnOK, StagesAssumption DEF SetStageDateFromEmail
<1>3. Narrower(r, m)
  BY <1>1, <1>2, IdleOK, StagesAssumption DEF Narrower, Filing, Making
<1>4. DOMAIN rows' = Apps /\ \A a \in Apps : DOMAIN rows'[a] = RowFields
  BY DEF SetStageDateFromEmail, IInv, Shape
<1>5. Sorted' /\ Shape'
  BY <1>2, <1>3, <1>4, CallOnly DEF SetStageDateFromEmail
<1>6. Dates'
  <2>. SUFFICES ASSUME NEW a \in Apps PROVE RowFits(a)'
    BY DEF Dates
  <2>1. RowFits(a)
    BY DEF IInv, Dates
  <2>2. CASE rows'[a] = rows[a]
    BY <2>1, <2>2 DEF SetStageDateFromEmail, RowFits, Here
  <2>3. CASE a = m.app /\ rows[a].stage = m.to
    <3>1. rows'[a].stage = rows[a].stage
      BY <2>3 DEF SetStageDateFromEmail, IInv, Shape, RowFields
    <3>2. TakesStageDate(m.to)
      BY <1>1, StagesAssumption DEF CallOK, Filing, TakesStageDate
    <3>. QED  BY <2>3, <3>1, <3>2 DEF RowFits
  <2>. QED  BY <2>2, <2>3 DEF SetStageDateFromEmail, IInv, Shape
<1>. QED  BY <1>5, <1>6 DEF IInv

LEMMA UndoDeletesStep == ASSUME StagesAssumption, IInv, NEW c \in Callers, UndoDeletes(c) PROVE IInv'
<1>. DEFINE m == calls[c]
<1>1. CallOK(m) /\ m.pc = "undo"
  BY DEF UndoDeletes, IInv, Shape
<1>. PICK a \in m.left : /\ timeline' = [timeline EXCEPT ![a] = @ \ StepsOf(m.mail, a)]
                         /\ Goes(c, [m EXCEPT !.pc = "undoread", !.app = a, !.left = @ \ {a}])
  BY DEF UndoDeletes
<1>. DEFINE r == [m EXCEPT !.pc = "undoread", !.app = a, !.left = @ \ {a}]
<1>2. CallOK(r) /\ r.pc \notin Filing
  BY <1>1 DEF CallOK, CallFields, Filing, Making
<1>3. Goes(c, r) /\ Narrower(r, m)
  BY <1>2, NotFiling, StagesAssumption
<1>4. DOMAIN timeline' = Apps /\ \A b \in Apps : \A d \in timeline'[b] : d \in timeline[b]
  BY DEF IInv, Shape
<1>5. calls'[c] = r /\ (\A x \in Callers \ {c} : calls'[x] = calls[x]) /\ DOMAIN calls' = Callers /\ \A x \in Callers : CallOK(calls'[x])
  BY <1>2, <1>3, GoesShape DEF IInv
<1>. HIDE DEF r
<1>6. Sorted'
  BY <1>3, <1>4, <1>5, Keeps DEF IInv, UndoDeletes
<1>7. Shape' /\ Dates'
  BY <1>4, <1>5 DEF IInv, Shape, Dates, RowFits, Here, UndoDeletes
<1>. QED  BY <1>6, <1>7 DEF IInv

LEMMA UndoWritesStep == ASSUME StagesAssumption, IInv, NEW c \in Callers, UndoWrites(c) PROVE IInv'
<1>. DEFINE m == calls[c]
            r == [m EXCEPT !.pc = "undo", !.app = NoApp, !.read = {}]
<1>1. CallOK(m)
  BY DEF IInv, Shape
<1>2. CallOK(r) /\ r.pc \notin Filing
  BY <1>1 DEF CallOK, CallFields, Filing, Making
<1>3. Goes(c, r) /\ Narrower(r, m)
  BY <1>2, NotFiling, StagesAssumption DEF UndoWrites
<1>4. UNCHANGED <<mails, twice>> /\ drift \subseteq drift'
  BY DEF UndoWrites
<1>5. /\ DOMAIN rows' = Apps /\ DOMAIN timeline' = Apps
      /\ \A b \in Apps : DOMAIN rows'[b] = RowFields
      /\ \A b \in Apps : \A d \in timeline'[b] : d \in timeline[b]
      /\ Dates'
  <2>1. CASE DeleteApplication(m.app)
    BY <1>4, <2>1, DeleteShape DEF IInv
  <2>2. CASE rows' = (IF Here(m.app) THEN [rows EXCEPT ![m.app] = RestoredRow(@, m.read)] ELSE rows) /\ timeline' = timeline
    <3>1. \A a \in Apps : LET row == RestoredRow(rows[a], m.read)
                          IN  DOMAIN row = RowFields /\ (row.date = "none" \/ (row.date = rows[a].date /\ row.stage = rows[a].stage))
      BY DEF IInv, Shape, RestoredRow, RowFields
    <3>2. DOMAIN rows' = Apps /\ \A a \in Apps : rows'[a] = rows[a] \/ (rows'[a] = RestoredRow(rows[a], m.read) /\ rows[a].life = "here")
      BY <2>2 DEF Here, IInv, Shape
    <3>3. Dates'
      BY <1>4, <3>1, <3>2, DatesKeep DEF IInv
    <3>. QED  BY <2>2, <3>1, <3>2, <3>3 DEF IInv, Shape
  <2>. QED  BY <2>1, <2>2 DEF UndoWrites
<1>6. calls'[c] = r /\ (\A x \in Callers \ {c} : calls'[x] = calls[x]) /\ DOMAIN calls' = Callers /\ \A x \in Callers : CallOK(calls'[x])
  BY <1>2, <1>3, GoesShape DEF IInv
<1>. HIDE DEF r
<1>7. Sorted'
  BY <1>3, <1>4, <1>5, <1>6, Keeps DEF IInv
<1>. QED  BY <1>4, <1>5, <1>6, <1>7 DEF IInv, Shape

(* A call that sets the status of its email: what is left to see is that   *)
(* email.                                                                  *)
LEMMA StatusSet ==
    ASSUME StagesAssumption, IInv, NEW c \in Callers, NEW r, Goes(c, r), CallOK(r), r.mail \in {calls[c].mail, NoMail},
           DOMAIN mails' = Emails, \A e \in Emails : DOMAIN mails'[e] = {"status", "candidates"},
           \A e \in Emails : e # calls[c].mail => mails'[e] = mails[e],
           twice \subseteq twice', UNCHANGED <<rows, timeline, drift>>,
           ASSUME NEW e \in Emails, e = calls[c].mail, e \notin twice', EmailOK(e), NoMail \notin Emails,
                  calls'[c] = r, \A x \in Callers \ {c} : calls'[x] = calls[x],
                  \A a \in Apps : StepsOf(e, a)' = StepsOf(e, a)
           PROVE  EmailOK(e)'
    PROVE  IInv'
<1>1. calls'[c] = r /\ (\A x \in Callers \ {c} : calls'[x] = calls[x]) /\ DOMAIN calls' = Callers /\ \A x \in Callers : CallOK(calls'[x])
  BY GoesShape DEF IInv
<1>2. Shape' /\ Dates'
  BY <1>1 DEF IInv, Shape, Dates, RowFits, Here
<1>3. ASSUME NEW e \in Emails, e \notin twice', e # calls[c].mail PROVE EmailOK(e)'
  BY <1>1, <1>3, OthersKeep, StagesAssumption DEF IInv
<1>4. ASSUME NEW e \in Emails, e \notin twice', e = calls[c].mail PROVE EmailOK(e)'
  <2>1. \A a \in Apps : StepsOf(e, a)' = StepsOf(e, a)
    BY DEF StepsOf
  <2>2. EmailOK(e)
    BY <1>4 DEF IInv, Sorted
  <2>. QED  BY <1>1, <1>4, <2>1, <2>2, StagesAssumption
<1>5. Sorted'
  BY <1>3, <1>4 DEF Sorted
<1>. QED  BY <1>2, <1>5 DEF IInv

LEMMA NothingChangedStep == ASSUME StagesAssumption, IInv, NEW c \in Callers, NothingChanged(c) PROVE IInv'
<1>1. DOMAIN mails' = Emails /\ \A e \in Emails : DOMAIN mails'[e] = {"status", "candidates"} /\ (e # calls[c].mail => mails'[e] = mails[e])
  BY DEF NothingChanged, IInv, Shape
<1>2. ASSUME NEW e \in Emails, e = calls[c].mail, EmailOK(e), NoMail \notin Emails,
             calls'[c] = Idle, \A x \in Callers \ {c} : calls'[x] = calls[x],
             \A a \in Apps : StepsOf(e, a)' = StepsOf(e, a)
      PROVE  EmailOK(e)'
  <2>1. Files(c, e) /\ calls[c].pc \in Making
    BY <1>2 DEF NothingChanged, Files, Filing, Making
  <2>2. Linked(e) = {} /\ \A x \in Callers \ {c} : ~Files(x, e)
    BY <1>2, <2>1 DEF EmailOK, FilerSorts, OneFiler
  <2>3. \A x \in Callers : ~Files(x, e)'
    BY <1>2, <2>2, IdleOK DEF Files
  <2>. QED  BY <1>2, <2>2, <2>3 DEF EmailOK, OneStep, StepsFiled, OneFiler, FilerSorts, Linked
<1>. QED  BY <1>1, <1>2, IdleOK, StatusSet DEF NothingChanged, Ends

LEMMA AssignEmailStep == ASSUME StagesAssumption, IInv, NEW c \in Callers, AssignEmail(c) PROVE IInv'
<1>. DEFINE m == calls[c]
            r == [m EXCEPT !.pc = "file", !.now = clock + 1, !.was = StagesOf(m.left)]
<1>1. CallOK(m) /\ m.pc = "assign" /\ m.mail \in Emails
  BY DEF AssignEmail, IInv, Shape, CallOK
<1>2. CASE Ends(c) /\ UNCHANGED <<mails, twice>>
  BY <1>2, IdleOK, NotFiling, StagesAssumption, CallOnly DEF AssignEmail, Ends
<1>3. CASE /\ mails' = [mails EXCEPT ![m.mail] = IF @.status = "none" THEN @ ELSE [status |-> "assigned", candidates |-> {}]]
           /\ twice' = (IF mails[m.mail].status = "needs_choice" THEN twice ELSE twice \cup {m.mail})
           /\ Goes(c, r)
  <2>1. CallOK(r) /\ r.mail = m.mail /\ r.pc = "file"
    BY <1>1 DEF CallOK, CallFields, Filing, Making
  <2>2. DOMAIN mails' = Emails /\ \A e \in Emails : DOMAIN mails'[e] = {"status", "candidates"} /\ (e # m.mail => mails'[e] = mails[e])
    BY <1>3 DEF IInv, Shape
  <2>. HIDE DEF r
  <2>3. ASSUME NEW e \in Emails, e = m.mail, e \notin twice', EmailOK(e),
               calls'[c] = r, \A x \in Callers \ {c} : calls'[x] = calls[x],
               \A a \in Apps : StepsOf(e, a)' = StepsOf(e, a)
        PROVE  EmailOK(e)'
    <3>1. mails[e].status = "needs_choice" /\ mails'[e].status = "assigned"
      BY <1>3, <2>3 DEF IInv, Shape
    <3>2. (\A a \in Apps : StepsOf(e, a) = {}) /\ \A x \in Callers : ~Files(x, e)
      BY <2>3, <3>1, Unsorted
    <3>3. \A x \in Callers : Files(x, e)' => x = c
      BY <2>3, <3>2 DEF Files
    <3>. QED  BY <2>1, <2>3, <3>1, <3>2, <3>3 DEF EmailOK, OneStep, StepsFiled, OneFiler, FilerSorts, Linked, Making
  <2>. QED  BY <1>3, <2>1, <2>2, <2>3, StatusSet DEF AssignEmail
<1>. QED  BY <1>2, <1>3 DEF AssignEmail

LEMMA DismissEmailStep == ASSUME StagesAssumption, IInv, NEW c \in Callers, DismissEmail(c) PROVE IInv'
<1>1. DOMAIN mails' = Emails /\ \A e \in Emails : DOMAIN mails'[e] = {"status", "candidates"} /\ (e # calls[c].mail => mails'[e] = mails[e])
  BY DEF DismissEmail, IInv, Shape
<1>2. ASSUME NEW e \in Emails, e = calls[c].mail, e \notin twice', EmailOK(e), NoMail \notin Emails,
             calls'[c] = Idle, \A x \in Callers \ {c} : calls'[x] = calls[x],
             \A a \in Apps : StepsOf(e, a)' = StepsOf(e, a)
      PROVE  EmailOK(e)'
  <2>1. mails[e].status = "needs_choice"
    BY <1>2 DEF DismissEmail
  <2>2. (\A a \in Apps : StepsOf(e, a) = {}) /\ \A x \in Callers : ~Files(x, e)
    BY <1>2, <2>1, Unsorted
  <2>3. \A x \in Callers : ~Files(x, e)'
    BY <1>2, <2>2, IdleOK DEF Files
  <2>. QED  BY <1>2, <2>2, <2>3 DEF EmailOK, OneStep, StepsFiled, OneFiler, FilerSorts, Linked
<1>. QED  BY <1>1, <1>2, IdleOK, StatusSet DEF DismissEmail, Ends

LEMMA UndoEndsStep == ASSUME StagesAssumption, IInv, NEW c \in Callers, UndoEnds(c) PROVE IInv'
<1>1. DOMAIN mails' = Emails /\ \A e \in Emails : DOMAIN mails'[e] = {"status", "candidates"} /\ (e # calls[c].mail => mails'[e] = mails[e])
  BY DEF UndoEnds, IInv, Shape
<1>2. ASSUME NEW e \in Emails, e = calls[c].mail, e \notin twice', EmailOK(e), NoMail \notin Emails,
             calls'[c] = Idle, \A x \in Callers \ {c} : calls'[x] = calls[x],
             \A a \in Apps : StepsOf(e, a)' = StepsOf(e, a)
      PROVE  EmailOK(e)'
  <2>1. Linked(e)' = Linked(e)
    BY <1>2 DEF Linked
  <2>2. \/ mails'[e].status = mails[e].status
        \/ mails'[e].status = "undone" /\ Linked(e) = {}
    BY <1>2 DEF UndoEnds, IInv, Shape
  <2>3. OneStep(e)' /\ StepsFiled(e)'
    BY <1>2, <2>1, <2>2 DEF EmailOK, OneStep, StepsFiled
  <2>4. \A x \in Callers : Files(x, e)' => Files(x, e) /\ calls'[x] = calls[x]
    BY <1>2, IdleOK DEF Files
  <2>. QED  BY <1>2, <2>1, <2>2, <2>3, <2>4 DEF EmailOK, OneFiler, FilerSorts
<1>. QED  BY <1>1, <1>2, IdleOK, StatusSet DEF UndoEnds, Ends

LEMMA ExpireNeedsChoiceStep == ASSUME StagesAssumption, IInv, NEW e \in Emails, ExpireNeedsChoice(e) PROVE IInv'
<1>1. DOMAIN mails' = Emails /\ \A x \in Emails : DOMAIN mails'[x] = {"status", "candidates"} /\ (x # e => mails'[x] = mails[x])
  BY DEF ExpireNeedsChoice, IInv, Shape
<1>2. DOMAIN timeline' = Apps /\ \A a \in Apps : \A d \in timeline'[a] :
        DOMAIN d = StepFields /\ (d \in timeline[a] \/ d.mail = NoMail)
  <2>1. CASE timeline' = [a \in Apps |-> {IF d.mail = e THEN [d EXCEPT !.mail = NoMail] ELSE d : d \in timeline[a]}]
    BY <2>1 DEF IInv, Shape, StepFields
  <2>2. CASE timeline' = timeline
    BY <2>2 DEF IInv, Shape
  <2>. QED  BY <2>1, <2>2 DEF ExpireNeedsChoice
<1>3. Shape' /\ Dates'
  BY <1>1, <1>2 DEF ExpireNeedsChoice, IInv, Shape, Dates, RowFits, Here
<1>4. Sorted'
  <2>. SUFFICES ASSUME NEW x \in Emails, x \notin twice' PROVE EmailOK(x)'
    BY DEF Sorted
  <2>1. EmailOK(x) /\ UNCHANGED calls
    BY DEF IInv, Sorted, ExpireNeedsChoice
  <2>2. \A a \in Apps : StepsOf(x, a)' \subseteq StepsOf(x, a)
    BY <1>2, StagesAssumption DEF StepsOf
  <2>3. OneStep(x)' /\ OneFiler(x)'
    BY <2>1, <2>2 DEF EmailOK, OneStep, OneFiler, Files
  <2>4. CASE x # e
    BY <1>1, <2>1, <2>2, <2>3, <2>4 DEF EmailOK, StepsFiled, FilerSorts, Files, Linked
  <2>5. CASE x = e
    <3>1. (\A a \in Apps : StepsOf(x, a) = {}) /\ \A c \in Callers : ~Files(c, x)
      BY <2>1, <2>5, Unsorted DEF ExpireNeedsChoice
    <3>. QED  BY <2>1, <2>2, <2>3, <3>1 DEF EmailOK, StepsFiled, FilerSorts, Files, Linked
  <2>. QED  BY <2>4, <2>5
<1>. QED  BY <1>3, <1>4 DEF IInv

(***************************************************************************)
(* The theorems.                                                           *)
(***************************************************************************)

LEMMA NextIInv == ASSUME StagesAssumption, IInv, [Next]_vars PROVE IInv'
<1>1. CASE UNCHANGED vars
  <2>1. UNCHANGED <<rows, timeline, mails, calls, drift, twice>>
    BY <1>1 DEF vars
  <2>2. Shape' /\ Dates'
    BY <2>1 DEF IInv, Shape, Dates, RowFits, Here
  <2>3. Sorted'
    BY <2>1 DEF IInv, Sorted, EmailOK, OneStep, StepsFiled, OneFiler, FilerSorts, Files, Linked, StepsOf
  <2>. QED  BY <2>2, <2>3 DEF IInv
<1>2. ASSUME NEW c \in Callers, PersonCall(c) PROVE IInv'
  BY <1>2, TrackBeginsStep, AddByHandStep, UpdateBeginsStep, FindJobStep, MoveToStageStep, SetStageDateStep, CreateApplicationStep,
     FirstStepStep, DeleteRouteStep, UnsaveStep, UnmarkReadsStep, UnmarkWritesStep, RedateStepStep, ReadTimelineStep, WriteDatesStep
  DEF PersonCall
<1>3. ASSUME NEW c \in Callers, EmailCall(c) PROVE IInv'
  BY <1>3, EmailArrivesStep, DismissBeginsStep, AssignBeginsStep, UndoBeginsStep, FileEmailStep, EmailStepStep, SetStageDateFromEmailStep,
     NothingChangedStep, AssignEmailStep, DismissEmailStep, UndoDeletesStep, UndoReadsStep, UndoWritesStep, UndoEndsStep
  DEF EmailCall
<1>. QED  BY <1>1, <1>2, <1>3, DiesStep, ExpireNeedsChoiceStep DEF Next

LEMMA SpecIInv == Spec => []IInv
BY StagesAssumption, InitIInv, NextIInv, PTL DEF Spec

(* An email leaves at most one step on an application, and none that an    *)
(* undo does not reach (process.ts).                                       *)
THEOREM EmailsSortedOnce == Spec => []EmailSortedOnce
<1>1. ASSUME IInv PROVE EmailSortedOnce
  <2>. SUFFICES ASSUME NEW e \in Emails \ twice
                PROVE  (\A a \in Apps : Cardinality(StepsOf(e, a)) <= 1) /\ (Linked(e) # {} => mails[e].status \in Filed)
    BY DEF EmailSortedOnce
  <2>1. EmailOK(e)
    BY <1>1 DEF IInv, Sorted
  <2>2. ASSUME NEW a \in Apps PROVE Cardinality(StepsOf(e, a)) <= 1
    <3>1. CASE StepsOf(e, a) = {}
      BY <3>1, FS_EmptySet
    <3>2. ASSUME NEW d \in StepsOf(e, a) PROVE Cardinality(StepsOf(e, a)) <= 1
      <4>1. StepsOf(e, a) = {d}
        BY <2>1 DEF EmailOK, OneStep
      <4>2. Cardinality({d}) = 1
        BY FS_Singleton
      <4>. QED  BY <4>1, <4>2
    <3>. QED  BY <3>1, <3>2
  <2>. QED  BY <2>1, <2>2 DEF EmailOK, StepsFiled
<1>. QED  BY <1>1, SpecIInv, PTL

(* A date is of a stage that takes one (applications.ts).                  *)
THEOREM DatesFitStages == Spec => []DateFitsStage
<1>1. IInv => DateFitsStage
  BY DEF IInv, Dates, RowFits, DateFitsStage
<1>. QED  BY <1>1, SpecIInv, PTL

(* No email replaces the date the person set while the application stays   *)
(* at its stage (setStageDateFromEmail).                                   *)
THEOREM PersonsDatesStay == Spec => PersonsDateStays
<1>. DEFINE Stays == \A a \in Apps : rows[a].date = "person" /\ Here(a)' /\ rows[a].stage = rows'[a].stage => rows'[a].date # "email"
<1>1. ASSUME IInv, [Next]_vars PROVE [Stays]_vars
  <2>. SUFFICES ASSUME NEW a \in Apps, rows[a].date = "person", rows'[a].life = "here", rows[a].stage = rows'[a].stage,
                       rows'[a].date = "email"
                PROVE  FALSE
    BY DEF Here
  <2>0. rows'[a] # rows[a] /\ DOMAIN rows = Apps /\ \A b \in Apps : DOMAIN rows[b] = RowFields
    BY <1>1 DEF IInv, Shape
  <2>1. ASSUME NEW b \in Apps, NEW row, row.date # "email", rows' = [rows EXCEPT ![b] = row] PROVE FALSE
    BY <2>0, <2>1
  <2>2. ASSUME NEW b \in Apps, NEW s, NEW now, NEW mail, WriteMove(b, s, now, mail) PROVE FALSE
    <3>1. MovedRow(rows[b], s, now).date = "none"
      BY <2>0, RowShape
    <3>2. rows' = [rows EXCEPT ![b] = MovedRow(rows[b], s, now)]
      BY <2>2 DEF WriteMove
    <3>. QED  BY <2>1, <3>1, <3>2
  <2>3. ASSUME NEW b, DeleteApplication(b) PROVE FALSE
    BY <2>0, <2>3, IdleOK DEF DeleteApplication
  <2>4. ASSUME NEW c \in Callers PROVE ~MoveToStage(c)
    BY <2>0, <2>2 DEF MoveToStage, CanRecord, Here
  <2>5. ASSUME NEW c \in Callers PROVE ~EmailStep(c)
    BY <2>0, <2>2 DEF EmailStep, CanRecord, Here
  <2>6. ASSUME NEW c \in Callers, SetStageDate(c) PROVE FALSE
    <3>1. calls[c].date \in {"keep", "person", "none"}
      BY <1>1 DEF IInv, Shape, CallOK
    <3>2. Here(calls[c].app) /\ a = calls[c].app
      BY <2>0, <2>6 DEF SetStageDate, Here
    <3>3. rows'[a].date = calls[c].date
      BY <2>0, <2>6, <3>2 DEF SetStageDate, RowFields
    <3>. QED  BY <3>1, <3>3
  <2>7. ASSUME NEW c \in Callers, CreateApplication(c) PROVE FALSE
    <3>. DEFINE row == [Unused EXCEPT !.life = "here", !.job = calls[c].job]
                moved == MovedRow(row, calls[c].to, calls[c].now)
    <3>1. PICK b \in Apps : rows' = [rows EXCEPT ![b] = moved]
      BY <2>0, <2>7 DEF CreateApplication
    <3>2. DOMAIN row = RowFields
      BY IdleOK DEF Unused
    <3>3. moved.date = "none"
      BY <3>2 DEF MovedRow, RowFields
    <3>. HIDE DEF moved
    <3>. QED  BY <2>1, <3>1, <3>3
  <2>8. ASSUME NEW c \in Callers, UnmarkWrites(c) PROVE FALSE
    BY <2>0, <2>8 DEF UnmarkWrites, Here, RowFields
  <2>9. ASSUME NEW c \in Callers, WriteDates(c) PROVE FALSE
    BY <2>0, <2>9 DEF WriteDates, Here, RowFields
  <2>10. ASSUME NEW c \in Callers, SetStageDateFromEmail(c) PROVE FALSE
    BY <2>0, <2>10 DEF SetStageDateFromEmail, Here, RowFields
  <2>11. ASSUME NEW c \in Callers, UndoWrites(c) PROVE FALSE
    <3>1. CASE DeleteApplication(calls[c].app)
      BY <2>3, <3>1
    <3>2. CASE rows' = IF Here(calls[c].app) THEN [rows EXCEPT ![calls[c].app] = RestoredRow(@, calls[c].read)] ELSE rows
      <4>1. rows'[a] = RestoredRow(rows[a], calls[c].read)
        BY <2>0, <3>2 DEF Here
      <4>2. RestoredRow(rows[a], calls[c].read).date \in {"none", rows[a].date}
        BY <2>0 DEF RestoredRow, RowFields
      <4>. QED  BY <4>1, <4>2
    <3>. QED  BY <2>11, <3>1, <3>2 DEF UndoWrites
  <2>12. ASSUME NEW c \in Callers, PersonCall(c) PROVE FALSE
    <3>1. \A b : ~DeleteRoute(c, b)
      BY <2>3 DEF DeleteRoute
    <3>2. ~Unsave(c)
      BY <2>3 DEF Unsave
    <3>. QED  BY <2>0, <2>4, <2>6, <2>7, <2>8, <2>9, <2>12, <3>1, <3>2
              DEF PersonCall, TrackBegins, AddByHand, UpdateBegins, Begins, RedateStep, FindJob, FirstStep, UnmarkReads, ReadTimeline
  <2>13. ASSUME NEW c \in Callers, EmailCall(c) PROVE FALSE
    BY <2>0, <2>5, <2>10, <2>11, <2>13
    DEF EmailCall, EmailArrives, DismissBegins, AssignBegins, UndoBegins, Begins, FileEmail, NothingChanged, AssignEmail, DismissEmail,
        UndoDeletes, UndoReads, UndoEnds
  <2>. QED  BY <1>1, <2>0, <2>12, <2>13 DEF Next, vars, Dies, ExpireNeedsChoice
<1>. QED  BY <1>1, SpecIInv, PTL DEF Spec, PersonsDateStays

(***************************************************************************)
(* The stage, the applied date and the timeline: TInv.                     *)
(***************************************************************************)

(* The calls halfway through what must come together: a new row and its    *)
(* first step, a new date and the row's two dates, removed steps and the   *)
(* row put back.                                                           *)
Starting(c, a) == calls[c].app = a /\ calls[c].pc = "first"
Dating(a) == \E c \in Callers : calls[c].app = a /\ calls[c].pc \in {"redated", "dates"}
Undoing(a) == \E c \in Callers : calls[c].app = a /\ calls[c].pc \in {"undoread", "undowrite"}

(* The calls whose `now` will be a step's date. *)
Stamped == {"find", "read", "create", "first", "move", "file", "emaildate"}
Undecided == {"none", "needs_choice"}

(* What a call holds of the clock, the emails and the rows. *)
Moment(c) ==
    /\ calls[c].now \in Nat /\ calls[c].now <= clock
    /\ calls[c].pc \in Stamped => calls[c].now >= 1
    /\ calls[c].pc = "unmarkwrite" => \E e : calls[c].read = {e} /\ e.stage = "saved"
    /\ calls[c].pc \in {"redated", "dates"} => calls[c].app \in redated
    /\ calls[c].pc \in {"create", "first"} /\ calls[c].mail # NoMail => mails[calls[c].mail].status \notin Undecided
    /\ calls[c].pc = "first" =>
         /\ calls[c].app \in Apps /\ rows[calls[c].app].life # "unused"
         /\ calls[c].app \notin redated => \A e \in timeline[calls[c].app] : e.at # calls[c].now

(* No two calls have one `now`, or make one row. *)
Distinct ==
    \A c, d \in Callers : c # d =>
        /\ calls[c].now = 0 \/ calls[c].now # calls[d].now
        /\ calls[c].pc = "first" /\ calls[d].pc = "first" => calls[c].app # calls[d].app

Numbered(T) ==
    /\ \A e \in T : e.n \in Nat /\ e.at \in Nat \ {0} /\ e.at <= clock + Leeway
    /\ \A d, e \in T : d.n = e.n => d = e
    /\ \E b \in Nat : \A e \in T : e.n <= b

Timelines == \A a \in Apps : Numbered(timeline[a]) /\ (~Here(a) => timeline[a] = {})

Latest(T, at) == (\E e \in T : e.at = at) /\ \A d \in T : d.at <= at
LastIn(T, e) == e \in T /\ \A d \in T : d = e \/ Before(d, e)
AtStage(T, s) == {e \in T : e.stage = s}

(* A row made and without its first step. *)
NewRow(a) ==
    \E c \in Callers :
        /\ Starting(c, a) /\ timeline[a] = {}
        /\ rows[a].stage = calls[c].to /\ rows[a].changed = calls[c].now
        /\ rows[a].applied = IF HasApplied(calls[c].to) THEN calls[c].now ELSE 0

AppliedDated(a) ==
    rows[a].applied # 0 => \/ \E e \in AppliedSteps(timeline[a]) : e.at = rows[a].applied
                           \/ \E c \in Callers : Starting(c, a) /\ HasApplied(calls[c].to) /\ calls[c].now = rows[a].applied

DatesAgree(a) ==
    /\ Latest(AtStage(timeline[a], rows[a].stage), rows[a].changed)
    /\ (rows[a].applied = 0) <=> ~HasApplied(rows[a].stage)
    /\ AppliedDated(a)
    /\ a \notin redated => \E e : LastIn(timeline[a], e) /\ e.stage = rows[a].stage

Fits(a) ==
    /\ AtStage(timeline[a], rows[a].stage) # {}
    /\ ~Dating(a) => DatesAgree(a)

Agrees(a) == Here(a) /\ a \notin drift /\ ~Undoing(a) => NewRow(a) \/ Fits(a)

Timed == clock \in Nat /\ (\A c \in Callers : Moment(c)) /\ Distinct
TInv == Timed /\ Timelines /\ \A a \in Apps : Agrees(a)

LEMMA LeewayNat == Leeway \in Nat
BY StagesAssumption

LEMMA Least ==
    ASSUME NEW lo \in Int, NEW hi \in Int, NEW S \in SUBSET (lo .. hi), S # {}
    PROVE  \E m \in S : \A x \in S : m <= x
<1>. DEFINE T == {x - lo : x \in S}
            R == {ss \in Nat \X Nat : ss[1] < ss[2]}
<1>1. IsWellFoundedOn(R, Nat)
  BY NatLessThanWellFounded DEF OpToRel
<1>2. T # {} /\ \A y \in T : y \in Nat
  <2>1. T # {}
    <3>1. PICK x \in S : TRUE
      OBVIOUS
    <3>. QED BY <3>1
  <2>2. ASSUME NEW y \in T PROVE y \in Nat
    <3>1. PICK x \in S : y = x - lo
      OBVIOUS
    <3>2. x \in lo .. hi
      OBVIOUS
    <3>. QED BY <3>1, <3>2
  <2>. QED BY <2>1, <2>2
<1>3. PICK k \in T : \A y \in T : ~ (<<y, k>> \in R)
  <2>. HIDE DEF R, T
  <2>1. T \in SUBSET Nat
    BY <1>2
  <2>. QED BY <1>1, <1>2, <2>1, WFMin
<1>4. PICK m \in S : k = m - lo
  OBVIOUS
<1>5. ASSUME NEW x \in S PROVE m <= x
  <2>1. ~ (<<x - lo, m - lo>> \in R)
    BY <1>3, <1>4
  <2>2. x - lo \in Nat /\ m - lo \in Nat
    OBVIOUS
  <2>3. ~ (x - lo < m - lo)
    BY <2>1, <2>2
  <2>. QED BY <2>3
<1>. QED BY <1>5

LEMMA Most ==
    ASSUME NEW lo \in Int, NEW hi \in Int, NEW S \in SUBSET (lo .. hi), S # {}
    PROVE  \E m \in S : \A x \in S : x <= m
<1>. DEFINE T == {lo + hi - x : x \in S}
<1>1. T # {} /\ \A y \in T : y \in lo .. hi
  <2>1. T # {}
    <3>1. PICK x \in S : TRUE
      OBVIOUS
    <3>. QED BY <3>1
  <2>2. ASSUME NEW y \in T PROVE y \in lo .. hi
    <3>1. PICK x \in S : y = lo + hi - x
      OBVIOUS
    <3>2. x \in lo .. hi
      OBVIOUS
    <3>. QED BY <3>1, <3>2
  <2>. QED BY <2>1, <2>2
<1>2. PICK k \in T : \A y \in T : k <= y
  <2>. HIDE DEF T
  <2>1. T \in SUBSET (lo .. hi)
    BY <1>1
  <2>. QED BY <1>1, <2>1, Least
<1>3. PICK m \in S : k = lo + hi - m
  OBVIOUS
<1>4. ASSUME NEW x \in S PROVE x <= m
  <2>1. k <= lo + hi - x
    BY <1>2
  <2>. QED BY <1>3, <2>1
<1>. QED BY <1>4


(* A timeline has a last and a first step. *)
LEMMA LastExists ==
    ASSUME clock \in Nat, NEW T, Numbered(T), T # {}
    PROVE  LastIn(T, LastOf(T))
<1>1. PICK b \in Nat : \A e \in T : e.n \in 0 .. b /\ e.at \in 0 .. clock + Leeway
  BY LeewayNat DEF Numbered
<1>. DEFINE A == {e.at : e \in T}
<1>2. PICK v \in A : \A x \in A : x <= v
  <2>1. A # {} /\ A \in SUBSET (0 .. clock + Leeway)
    BY <1>1
  <2>2. 0 \in Int /\ clock + Leeway \in Int
    BY LeewayNat
  <2>. HIDE DEF A
  <2>. QED BY <2>1, <2>2, Most
<1>. DEFINE M == {e.n : e \in {d \in T : d.at = v}}
<1>3. PICK k \in M : \A x \in M : x <= k
  <2>1. M # {} /\ M \in SUBSET (0 .. b)
    BY <1>1, <1>2
  <2>2. 0 \in Int /\ b \in Int
    OBVIOUS
  <2>. HIDE DEF M
  <2>. QED BY <2>1, <2>2, Most
<1>4. PICK e \in T : e.at = v /\ e.n = k
  BY <1>3
<1>5. ASSUME NEW d \in T PROVE d = e \/ Before(d, e)
  <2>1. d.at \in Nat /\ e.at \in Nat /\ d.n \in Nat /\ e.n \in Nat /\ (d.n = e.n => d = e)
    BY <1>1 DEF Numbered
  <2>2. d.at <= e.at
    BY <1>2, <1>4
  <2>3. d.at = e.at => d.n <= e.n
    BY <1>3, <1>4
  <2>. QED BY <2>1, <2>2, <2>3 DEF Before
<1>6. \E x \in T : \A d \in T : d = x \/ Before(d, x)
  BY <1>5
<1>. QED BY <1>6 DEF LastIn, LastOf

LEMMA FirstExists ==
    ASSUME clock \in Nat, NEW T, Numbered(T), T # {}
    PROVE  FirstOf(T) \in T
<1>1. PICK b \in Nat : \A e \in T : e.n \in 0 .. b /\ e.at \in 0 .. clock + Leeway
  BY LeewayNat DEF Numbered
<1>. DEFINE A == {e.at : e \in T}
<1>2. PICK v \in A : \A x \in A : v <= x
  <2>1. A # {} /\ A \in SUBSET (0 .. clock + Leeway)
    BY <1>1
  <2>2. 0 \in Int /\ clock + Leeway \in Int
    BY LeewayNat
  <2>. HIDE DEF A
  <2>. QED BY <2>1, <2>2, Least
<1>. DEFINE M == {e.n : e \in {d \in T : d.at = v}}
<1>3. PICK k \in M : \A x \in M : k <= x
  <2>1. M # {} /\ M \in SUBSET (0 .. b)
    BY <1>1, <1>2
  <2>2. 0 \in Int /\ b \in Int
    OBVIOUS
  <2>. HIDE DEF M
  <2>. QED BY <2>1, <2>2, Least
<1>4. PICK e \in T : e.at = v /\ e.n = k
  BY <1>3
<1>5. ASSUME NEW d \in T PROVE d = e \/ Before(e, d)
  <2>1. d.at \in Nat /\ e.at \in Nat /\ d.n \in Nat /\ e.n \in Nat /\ (d.n = e.n => d = e)
    BY <1>1 DEF Numbered
  <2>2. e.at <= d.at
    BY <1>2, <1>4
  <2>3. d.at = e.at => e.n <= d.n
    BY <1>3, <1>4
  <2>. QED BY <2>1, <2>2, <2>3 DEF Before
<1>6. \E x \in T : \A d \in T : d = x \/ Before(x, d)
  BY <1>5
<1>. QED BY <1>6 DEF FirstOf

(* A part of a timeline is one. *)
LEMMA PartNumbered ==
    ASSUME NEW T, Numbered(T), NEW S, S \subseteq T, clock' = clock \/ clock' = clock + 1, clock \in Nat
    PROVE  Numbered(S) /\ Numbered(S)'
<1>1. PICK b \in Nat : \A e \in T : e.n <= b
  BY DEF Numbered
<1>2. \A e \in S : e.n <= b /\ e.n \in Nat /\ e.at \in Nat \ {0} /\ e.at <= clock + Leeway
  BY <1>1 DEF Numbered
<1>. clock + Leeway <= clock' + Leeway /\ clock + Leeway \in Nat /\ clock' + Leeway \in Nat
  BY LeewayNat
<1>3. \A d, e \in S : d.n = e.n => d = e
  BY DEF Numbered
<1>. QED BY <1>1, <1>2, <1>3 DEF Numbered

(* A new step's rowid is above the timeline's. *)
LEMMA NewStepNumber ==
    ASSUME NEW a \in Apps, Numbered(timeline[a]), NEW s, NEW at, NEW mail
    PROVE  /\ NewStep(a, s, at, mail).n \in Nat
           /\ \A e \in timeline[a] : e.n < NewStep(a, s, at, mail).n
           /\ NewStep(a, s, at, mail).stage = s /\ NewStep(a, s, at, mail).at = at
           /\ NewStep(a, s, at, mail).mail = mail
<1>. DEFINE T == timeline[a]
            N == {e.n : e \in T}
<1>0. /\ NewStep(a, s, at, mail).stage = s /\ NewStep(a, s, at, mail).at = at
      /\ NewStep(a, s, at, mail).mail = mail
  BY DEF NewStep
<1>1. CASE T = {}
  BY <1>1 DEF NewStep
<1>2. CASE T # {}
  <2>1. PICK b \in Nat : \A e \in T : e.n \in 0 .. b
    BY DEF Numbered
  <2>2. PICK k \in N : \A x \in N : x <= k
    <3>1. N # {} /\ N \in SUBSET (0 .. b)
      BY <1>2, <2>1
    <3>2. 0 \in Int /\ b \in Int
      OBVIOUS
    <3>. HIDE DEF N
    <3>. QED BY <3>1, <3>2, Most
  <2>3. \E i \in N : \A e \in T : e.n <= i
    BY <2>2
  <2>. DEFINE i == CHOOSE i \in N : \A e \in T : e.n <= i
  <2>4. i \in N /\ \A e \in T : e.n <= i
    BY <2>3
  <2>6. NewStep(a, s, at, mail).n = 1 + i
    BY <1>2 DEF NewStep
  <2>. HIDE DEF i
  <2>5. i \in Nat
    BY <2>1, <2>4
  <2>7. \A e \in T : e.n \in Nat /\ e.n <= i
    BY <2>1, <2>4
  <2>8. NewStep(a, s, at, mail).n \in Nat /\ \A e \in T : e.n < NewStep(a, s, at, mail).n
    BY <2>5, <2>6, <2>7
  <2>. QED BY <1>0, <2>8
<1>. QED BY <1>1, <1>2

(***************************************************************************)
(* What a step of one call leaves to the others.                           *)
(***************************************************************************)

OthersStay(c) ==
    /\ clock' \in {clock, clock + 1} /\ redated \subseteq redated' /\ drift \subseteq drift'
    /\ \A d \in Callers \ {c} : calls'[d] = calls[d]
    /\ \A a \in Apps : rows[a].life # "unused" => rows'[a].life # "unused"
    /\ \A e \in Emails : mails[e].status \notin Undecided => mails'[e].status \notin Undecided
    /\ \A a \in Apps \ redated' : \A e \in timeline'[a] : e.at = calls[c].now \/ \E f \in timeline[a] : f.at = e.at

(* The call itself: its `now` is the one it has, none, or the next moment. *)
SelfStays(c) ==
    /\ calls'[c].now \in {0, calls[c].now} \/ (clock' = clock + 1 /\ calls'[c].now = clock + 1)
    /\ calls'[c].pc = "first" => rows[calls'[c].app].life = "unused"

LEMMA TimedStays ==
    ASSUME Shape, Timed, NEW c \in Callers, OthersStay(c), SelfStays(c), Moment(c)'
    PROVE  Timed'
<1>1. clock' \in Nat /\ clock <= clock'
  BY DEF Timed, OthersStay
<1>2. ASSUME NEW d \in Callers, d # c PROVE Moment(d)'
  <2>1. calls'[d] = calls[d] /\ Moment(d) /\ CallOK(calls[d])
    BY <1>2 DEF OthersStay, Timed, Shape
  <2>2. calls[d].now \in Nat /\ calls[d].now <= clock'
    BY <1>1, <2>1 DEF Moment, Timed
  <2>3. calls[d].pc \in {"create", "first"} /\ calls[d].mail # NoMail => mails'[calls[d].mail].status \notin Undecided
    BY <2>1 DEF Moment, OthersStay, CallOK
  <2>4. ASSUME calls[d].pc = "first", calls[d].app \notin redated', NEW e \in timeline'[calls[d].app] PROVE e.at # calls[d].now
    <3>1. calls[d].app \in Apps /\ calls[d].now >= 1
      BY <2>1, <2>4 DEF Moment, Stamped
    <3>2. \A f \in timeline[calls[d].app] : f.at # calls[d].now
      BY <2>1, <2>4 DEF Moment, OthersStay
    <3>3. calls[d].now # calls[c].now
      BY <1>2, <2>2, <3>1 DEF Timed, Distinct
    <3>. QED BY <2>4, <3>1, <3>2, <3>3 DEF OthersStay
  <2>5. calls[d].pc = "first" => calls[d].app \in Apps /\ rows'[calls[d].app].life # "unused"
    BY <2>1 DEF Moment, OthersStay
  <2>6. calls[d].pc \in {"redated", "dates"} => calls[d].app \in redated'
    BY <2>1 DEF Moment, OthersStay
  <2>. QED BY <2>1, <2>2, <2>3, <2>4, <2>5, <2>6 DEF Moment
<1>3. ASSUME NEW x \in Callers, NEW d \in Callers, x # d
      PROVE  /\ calls'[x].now = 0 \/ calls'[x].now # calls'[d].now
             /\ calls'[x].pc = "first" /\ calls'[d].pc = "first" => calls'[x].app # calls'[d].app
  <2>1. \A y \in Callers : calls[y].now \in Nat /\ calls[y].now <= clock /\ (calls[y].pc = "first" => rows[calls[y].app].life # "unused")
    BY DEF Timed, Moment
  <2>2. \A y \in Callers, z \in Callers : y # z =>
          /\ calls[y].now = 0 \/ calls[y].now # calls[z].now
          /\ calls[y].pc = "first" /\ calls[z].pc = "first" => calls[y].app # calls[z].app
    BY DEF Timed, Distinct
  <2>3. clock \in Nat
    BY DEF Timed
  <2>4. CASE x # c /\ d # c
    BY <1>3, <2>2, <2>4 DEF OthersStay
  <2>5. CASE x = c
    BY <1>3, <2>1, <2>2, <2>3, <2>5 DEF OthersStay, SelfStays
  <2>6. CASE d = c
    BY <1>3, <2>1, <2>2, <2>3, <2>6 DEF OthersStay, SelfStays
  <2>. QED BY <2>4, <2>5, <2>6
<1>. QED BY <1>1, <1>2, <1>3 DEF Timed, Distinct

(* A call that is halfway through with an application still is. *)
GoesOn(m, r) ==
    m.pc \in {"first", "redated", "dates", "undoread", "undowrite"} =>
        /\ r.app = m.app /\ r.to = m.to /\ r.now = m.now
        /\ r.pc = m.pc \/ (m.pc = "redated" /\ r.pc = "dates") \/ (m.pc = "undoread" /\ r.pc = "undowrite")

AllGoOn(a) == \A d \in Callers : calls[d].app = a => GoesOn(calls[d], calls'[d])

SameRow(a) ==
    /\ rows'[a].life = rows[a].life /\ rows'[a].stage = rows[a].stage
    /\ rows'[a].changed = rows[a].changed /\ rows'[a].applied = rows[a].applied

LEMMA Halfway ==
    ASSUME NEW a, AllGoOn(a)
    PROVE  /\ Dating(a) => Dating(a)'
           /\ Undoing(a) => Undoing(a)'
           /\ \A d \in Callers : Starting(d, a) => Starting(d, a)' /\ calls'[d].to = calls[d].to /\ calls'[d].now = calls[d].now
<1>1. Dating(a) => Dating(a)'
  BY DEF AllGoOn, GoesOn, Dating
<1>2. Undoing(a) => Undoing(a)'
  BY DEF AllGoOn, GoesOn, Undoing
<1>. QED BY <1>1, <1>2 DEF AllGoOn, GoesOn, Starting

LEMMA Unmoved ==
    ASSUME NEW a \in Apps, Agrees(a), SameRow(a), timeline'[a] = timeline[a],
           drift \subseteq drift', redated \subseteq redated', AllGoOn(a)
    PROVE  Agrees(a)'
<1>. SUFFICES ASSUME Here(a)', a \notin drift', ~Undoing(a)' PROVE NewRow(a)' \/ Fits(a)'
  BY DEF Agrees
<1>1. NewRow(a) \/ Fits(a)
  BY Halfway DEF Agrees, Here, SameRow
<1>2. NewRow(a) => NewRow(a)'
  BY Halfway DEF NewRow, SameRow
<1>3. AppliedDated(a) => AppliedDated(a)'
  BY Halfway DEF AppliedDated, AppliedSteps, SameRow
<1>4. DatesAgree(a) => DatesAgree(a)'
  BY <1>3 DEF DatesAgree, SameRow, Latest, LastIn, AtStage
<1>5. Fits(a) => Fits(a)'
  BY <1>4, Halfway DEF Fits, SameRow, AtStage
<1>. QED BY <1>1, <1>2, <1>5

LEMMA Out == ASSUME NEW a, a \in drift' \/ ~Here(a)' \/ Undoing(a)' PROVE Agrees(a)'
BY DEF Agrees

(* A call that writes no step, and of the rows their dates' origin only.   *)
LEMMA OnlyCall ==
    ASSUME Shape, TInv, NEW c \in Callers, OthersStay(c), SelfStays(c), Moment(c)',
           \A a \in Apps : SameRow(a), UNCHANGED timeline,
           GoesOn(calls[c], calls'[c]) \/ calls[c].app \in drift' \/ ~Here(calls[c].app)
    PROVE  TInv'
<1>1. Timed'
  BY TimedStays DEF TInv
<1>2. clock \in Nat /\ clock' \in {clock, clock + 1}
  BY DEF TInv, Timed, OthersStay
<1>3. Timelines'
  BY <1>2, PartNumbered DEF TInv, Timelines, SameRow, Here
<1>4. ASSUME NEW a \in Apps PROVE Agrees(a)'
  <2>1. CASE a \in drift' \/ ~Here(a)
    BY <2>1, Out DEF SameRow, Here
  <2>2. CASE a \notin drift' /\ Here(a)
    <3>1. AllGoOn(a)
      BY <2>2 DEF AllGoOn, OthersStay, GoesOn
    <3>. QED BY <3>1, Unmoved DEF TInv, OthersStay
  <2>. QED BY <2>1, <2>2
<1>. QED BY <1>1, <1>3, <1>4 DEF TInv

(* A call that writes one application's row or steps. *)
LEMMA OnlyOne ==
    ASSUME Shape, TInv, NEW c \in Callers, OthersStay(c), SelfStays(c), Moment(c)', NEW a,
           \A b \in Apps \ {a} : SameRow(b) /\ timeline'[b] = timeline[b],
           calls[c].app = a \/ GoesOn(calls[c], calls'[c]),
           a \in Apps => Numbered(timeline[a])' /\ (~Here(a)' => timeline'[a] = {}) /\ Agrees(a)'
    PROVE  TInv'
<1>1. Timed'
  BY TimedStays DEF TInv
<1>2. clock \in Nat /\ clock' \in {clock, clock + 1}
  BY DEF TInv, Timed, OthersStay
<1>3. ASSUME NEW b \in Apps, b # a PROVE Numbered(timeline[b])' /\ (~Here(b)' => timeline'[b] = {}) /\ Agrees(b)'
  <2>1. Numbered(timeline[b])' /\ (~Here(b)' => timeline'[b] = {})
    BY <1>2, <1>3, PartNumbered DEF TInv, Timelines, SameRow, Here
  <2>2. AllGoOn(b)
    BY <1>3 DEF AllGoOn, OthersStay, GoesOn
  <2>. QED BY <1>3, <2>1, <2>2, Unmoved DEF TInv, OthersStay
<1>. QED BY <1>1, <1>3 DEF TInv, Timelines

(***************************************************************************)
(* The calls that write no step and no stage.                              *)
(***************************************************************************)

LEMMA GoesTo ==
    ASSUME Shape, NEW c \in Callers, NEW r, Goes(c, r)
    PROVE  calls'[c] = r /\ \A d \in Callers \ {c} : calls'[d] = calls[d]
BY DEF Shape, Goes

LEMMA IdleMoment ==
    ASSUME NEW c \in Callers, calls'[c] = Idle, clock' \in Nat
    PROVE  Moment(c)' /\ SelfStays(c)
BY DEF Moment, SelfStays, Idle, Stamped

LEMMA BeginsTimed ==
    ASSUME Shape, TInv, NEW c \in Callers, NEW r, Begins(c, r), r.now \in {0, clock + 1}, r.pc \in Stamped => r.now = clock + 1,
           r.pc \notin {"unmarkwrite", "redated", "dates", "first"}, r.mail = NoMail \/ r.pc # "create"
    PROVE  TInv'
<1>1. calls'[c] = r /\ \A d \in Callers \ {c} : calls'[d] = calls[d]
  BY GoesTo DEF Begins
<1>2. clock \in Nat /\ clock' = clock + 1 /\ UNCHANGED <<rows, timeline, mails, drift, redated>> /\ calls[c].pc = "idle"
  BY DEF TInv, Timed, Begins
<1>3. Moment(c)'
  BY <1>1, <1>2 DEF Moment
<1>4. OthersStay(c) /\ SelfStays(c) /\ \A a \in Apps : SameRow(a)
  BY <1>1, <1>2 DEF OthersStay, SelfStays, SameRow
<1>5. GoesOn(calls[c], calls'[c])
  BY <1>2 DEF GoesOn
<1>. QED BY <1>2, <1>3, <1>4, <1>5, OnlyCall

LEMMA TrackBeginsTimed ==
    ASSUME Shape, TInv, NEW c \in Callers, NEW kind, NEW j, NEW s, TrackBegins(c, kind, j, s) PROVE TInv'
<1>. DEFINE r == [Idle EXCEPT !.pc = "find", !.now = clock + 1, !.kind = kind, !.job = j, !.to = s]
<1>1. r.pc = "find" /\ r.now = clock + 1 /\ r.mail = NoMail /\ Begins(c, r)
  BY DEF Idle, TrackBegins
<1>. HIDE DEF r
<1>. QED BY <1>1, BeginsTimed

LEMMA AddByHandTimed == ASSUME Shape, TInv, NEW c \in Callers, NEW s, AddByHand(c, s) PROVE TInv'
<1>. DEFINE r == [Idle EXCEPT !.pc = "create", !.now = clock + 1, !.to = s]
<1>1. r.pc = "create" /\ r.now = clock + 1 /\ r.mail = NoMail /\ Begins(c, r)
  BY DEF Idle, AddByHand
<1>. HIDE DEF r
<1>. QED BY <1>1, BeginsTimed

LEMMA UpdateBeginsTimed ==
    ASSUME Shape, TInv, NEW c \in Callers, NEW a, NEW s, NEW date, UpdateBegins(c, a, s, date) PROVE TInv'
<1>. DEFINE r == [Idle EXCEPT !.pc = "move", !.now = clock + 1, !.app = a, !.row = rows[a], !.to = s, !.date = date]
<1>1. r.pc = "move" /\ r.now = clock + 1 /\ r.mail = NoMail /\ Begins(c, r)
  BY DEF Idle, UpdateBegins
<1>. HIDE DEF r
<1>. QED BY <1>1, BeginsTimed

LEMMA EmailBeginsTimed ==
    ASSUME Shape, TInv, NEW c \in Callers, NEW e, NEW S,
           EmailArrives(c, e) \/ DismissBegins(c, e) \/ AssignBegins(c, e, S) \/ UndoBegins(c, e, S)
    PROVE  TInv'
<1>. DEFINE r1 == [Idle EXCEPT !.pc = "read", !.now = clock + 1, !.mail = e, !.to = Reports[e]]
            r2 == [Idle EXCEPT !.pc = "dismiss", !.mail = e]
            r3 == [Idle EXCEPT !.pc = "assign", !.mail = e, !.to = Reports[e], !.left = S]
            r4 == [Idle EXCEPT !.pc = "undo", !.mail = e, !.left = S, !.more = S # Linked(e)]
<1>1. r1.pc = "read" /\ r1.now = clock + 1
  BY DEF Idle
<1>2. r2.pc = "dismiss" /\ r2.now = 0 /\ r3.pc = "assign" /\ r3.now = 0 /\ r4.pc = "undo" /\ r4.now = 0
  BY DEF Idle
<1>3. Begins(c, r1) \/ Begins(c, r2) \/ Begins(c, r3) \/ Begins(c, r4)
  BY DEF EmailArrives, DismissBegins, AssignBegins, UndoBegins
<1>. HIDE DEF r1, r2, r3, r4
<1>4. CASE Begins(c, r1)
  BY <1>1, <1>4, BeginsTimed
<1>5. ASSUME NEW r, r.now = 0, r.pc \in {"dismiss", "assign", "undo"}, Begins(c, r) PROVE TInv'
  BY <1>5, BeginsTimed DEF Stamped
<1>. QED BY <1>2, <1>3, <1>4, <1>5

(* A call that goes on from one place to another with the same `now`, or   *)
(* ends.                                                                   *)
LEMMA OnlyCallTimed ==
    ASSUME Shape, TInv, NEW c \in Callers, NEW r, Goes(c, r), r.now \in {0, calls[c].now}, clock' = clock,
           r.pc \in Stamped => calls[c].pc \in Stamped /\ r.now = calls[c].now,
           r.pc = "unmarkwrite" => \E e : r.read = {e} /\ e.stage = "saved",
           r.pc \in {"redated", "dates"} => calls[c].pc \in {"redated", "dates"} /\ r.app = calls[c].app,
           r.pc = "create" /\ r.mail # NoMail => mails'[r.mail].status \notin Undecided,
           r.pc # "first",
           \A e \in Emails : mails[e].status \notin Undecided => mails'[e].status \notin Undecided,
           UNCHANGED <<timeline, redated>>, drift \subseteq drift', \A a \in Apps : SameRow(a),
           GoesOn(calls[c], r) \/ calls[c].app \in drift' \/ ~Here(calls[c].app)
    PROVE  TInv'
<1>1. calls'[c] = r /\ \A d \in Callers \ {c} : calls'[d] = calls[d]
  BY GoesTo
<1>2. clock \in Nat /\ Moment(c)
  BY DEF TInv, Timed
<1>3. Moment(c)'
  BY <1>1, <1>2 DEF Moment
<1>4. OthersStay(c) /\ SelfStays(c)
  BY <1>1, <1>2 DEF OthersStay, SelfStays, SameRow
<1>. QED BY <1>1, <1>3, <1>4, OnlyCall

LEMMA EndsTimed ==
    ASSUME Shape, TInv, NEW c \in Callers, Ends(c), clock' = clock,
           \A e \in Emails : mails[e].status \notin Undecided => mails'[e].status \notin Undecided,
           UNCHANGED <<timeline, redated>>, drift \subseteq drift', \A a \in Apps : SameRow(a),
           calls[c].pc \notin {"first", "redated", "dates", "undoread", "undowrite"}
             \/ calls[c].app \in drift' \/ ~Here(calls[c].app)
    PROVE  TInv'
<1>1. Idle.pc = "idle" /\ Idle.now = 0 /\ Goes(c, Idle)
  BY DEF Idle, Ends
<1>2. GoesOn(calls[c], Idle) \/ calls[c].app \in drift' \/ ~Here(calls[c].app)
  BY DEF GoesOn
<1>. QED BY <1>1, <1>2, OnlyCallTimed DEF Stamped

LEMMA SameRows == ASSUME UNCHANGED rows PROVE \A a \in Apps : SameRow(a)
BY DEF SameRow

LEMMA FindJobTimed == ASSUME Shape, TInv, NEW c \in Callers, FindJob(c) PROVE TInv'
<1>. DEFINE m == calls[c]
            found(a, p) == [[m EXCEPT !.app = a, !.row = rows[a]] EXCEPT !.pc = p]
            made == [m EXCEPT !.pc = "create"]
<1>1. m.pc = "find" /\ DOMAIN m = CallFields /\ m.mail = NoMail
  BY DEF FindJob, Shape, CallOK
<1>2. made.pc = "create" /\ made.mail = NoMail /\ made.now = m.now
  BY <1>1 DEF CallFields
<1>3. ASSUME NEW a, NEW p PROVE found(a, p).pc = p /\ found(a, p).now = m.now
  BY <1>1 DEF CallFields
<1>4. \/ Goes(c, made) \/ Ends(c)
      \/ \E a \in Apps : \E p \in {"move", "delete", "unmark"} : Goes(c, found(a, p))
  BY DEF FindJob
<1>5. UNCHANGED <<clock, rows, timeline, mails, drift, redated>> /\ \A a \in Apps : SameRow(a)
  BY SameRows DEF FindJob
<1>6. \A r : GoesOn(m, r)
  BY <1>1 DEF GoesOn
<1>. HIDE DEF found, made
<1>7. CASE Goes(c, made)
  BY <1>1, <1>2, <1>5, <1>6, <1>7, OnlyCallTimed DEF Stamped
<1>8. CASE Ends(c)
  BY <1>1, <1>5, <1>8, EndsTimed
<1>9. ASSUME NEW a \in Apps, NEW p \in {"move", "delete", "unmark"}, Goes(c, found(a, p)) PROVE TInv'
  BY <1>1, <1>3, <1>5, <1>6, <1>9, OnlyCallTimed DEF Stamped
<1>. QED BY <1>4, <1>7, <1>8, <1>9

LEMMA UnmarkReadsTimed == ASSUME Shape, TInv, NEW c \in Callers, UnmarkReads(c) PROVE TInv'
<1>. DEFINE m == calls[c]
            unsaves == [m EXCEPT !.pc = "delete"]
            writes(e) == [m EXCEPT !.pc = "unmarkwrite", !.read = {e}]
<1>1. m.pc = "unmark" /\ DOMAIN m = CallFields
  BY DEF UnmarkReads, Shape, CallOK
<1>2. unsaves.pc = "delete" /\ unsaves.now = m.now
  BY <1>1 DEF CallFields
<1>3. ASSUME NEW e PROVE writes(e).pc = "unmarkwrite" /\ writes(e).now = m.now /\ writes(e).read = {e}
  BY <1>1 DEF CallFields
<1>4. Goes(c, unsaves) \/ \E e : e.stage = "saved" /\ Goes(c, writes(e))
  BY DEF UnmarkReads
<1>5. UNCHANGED <<clock, rows, timeline, mails, drift, redated>> /\ \A a \in Apps : SameRow(a)
  BY SameRows DEF UnmarkReads
<1>6. \A r : GoesOn(m, r)
  BY <1>1 DEF GoesOn
<1>. HIDE DEF unsaves, writes
<1>7. CASE Goes(c, unsaves)
  BY <1>2, <1>5, <1>6, <1>7, OnlyCallTimed DEF Stamped
<1>8. ASSUME NEW e, e.stage = "saved", Goes(c, writes(e)) PROVE TInv'
  BY <1>3, <1>5, <1>6, <1>8, OnlyCallTimed DEF Stamped
<1>. QED BY <1>4, <1>7, <1>8

LEMMA ReadsTimed == ASSUME Shape, TInv, NEW c \in Callers, ReadTimeline(c) \/ UndoReads(c) PROVE TInv'
<1>. DEFINE m == calls[c]
            r(p) == [m EXCEPT !.pc = p, !.read = timeline[m.app]]
<1>1. DOMAIN m = CallFields
  BY DEF Shape, CallOK
<1>2. ASSUME NEW p PROVE r(p).pc = p /\ r(p).now = m.now /\ r(p).app = m.app /\ r(p).to = m.to
  BY <1>1 DEF CallFields
<1>3. (m.pc = "redated" /\ Goes(c, r("dates"))) \/ (m.pc = "undoread" /\ Goes(c, r("undowrite")))
  BY DEF ReadTimeline, UndoReads
<1>4. UNCHANGED <<clock, rows, timeline, mails, drift, redated>> /\ \A a \in Apps : SameRow(a)
  BY SameRows DEF ReadTimeline, UndoReads
<1>. HIDE DEF r
<1>5. CASE m.pc = "redated" /\ Goes(c, r("dates"))
  <2>1. GoesOn(m, r("dates"))
    BY <1>2, <1>5 DEF GoesOn
  <2>. QED BY <1>2, <1>4, <1>5, <2>1, OnlyCallTimed DEF Stamped
<1>6. CASE m.pc = "undoread" /\ Goes(c, r("undowrite"))
  <2>1. GoesOn(m, r("undowrite"))
    BY <1>2, <1>6 DEF GoesOn
  <2>. QED BY <1>2, <1>4, <1>6, <2>1, OnlyCallTimed DEF Stamped
<1>. QED BY <1>3, <1>5, <1>6

LEMMA SetStageDateTimed == ASSUME Shape, TInv, NEW c \in Callers, SetStageDate(c) PROVE TInv'
<1>1. \A a \in Apps : SameRow(a)
  BY DEF SetStageDate, Shape, SameRow, RowFields
<1>. QED BY <1>1, EndsTimed DEF SetStageDate

LEMMA DiesTimed == ASSUME Shape, TInv, NEW c \in Callers, Dies(c) PROVE TInv'
BY SameRows, EndsTimed DEF Dies

LEMMA RecordTimed ==
    ASSUME Shape, TInv, NEW c \in Callers, calls[c].pc = "read", NEW status, NEW S, NEW r, Record(c, status, S, r),
           r = Idle \/ (r.now = calls[c].now /\ r.pc \in {"create", "file"} /\ r.mail = calls[c].mail),
           r = Idle \/ r.pc = "file" \/ status \notin Undecided,
           UNCHANGED <<clock, rows, timeline, drift, redated>>
    PROVE  TInv'
<1>. DEFINE m == calls[c]
<1>1. m.mail \in Emails
  BY DEF Shape, CallOK
<1>2. \A a \in Apps : SameRow(a)
  BY SameRows
<1>3. CASE UNCHANGED mails /\ Ends(c)
  BY <1>2, <1>3, EndsTimed
<1>4. CASE mails[m.mail].status = "none" /\ mails' = [mails EXCEPT ![m.mail] = [status |-> status, candidates |-> S]] /\ Goes(c, r)
  <2>1. \A e \in Emails : mails[e].status \notin Undecided => mails'[e].status \notin Undecided
    BY <1>4 DEF Undecided, Shape
  <2>2. mails'[m.mail].status = status
    BY <1>1, <1>4 DEF Shape
  <2>3. Idle.pc = "idle" /\ Idle.now = 0
    BY DEF Idle
  <2>4. r.now \in {0, m.now} /\ (r.pc \in Stamped => r.now = m.now) /\ r.pc \in {"idle", "create", "file"}
    BY <2>3 DEF Stamped
  <2>5. r.pc = "create" => r.mail = m.mail /\ status \notin Undecided
    BY <2>3
  <2>6. GoesOn(m, r) /\ m.pc \in Stamped
    BY DEF GoesOn, Stamped
  <2>. QED BY <1>2, <1>4, <2>1, <2>2, <2>4, <2>5, <2>6, OnlyCallTimed
<1>. QED BY <1>3, <1>4 DEF Record

LEMMA FileEmailTimed == ASSUME Shape, TInv, NEW c \in Callers, FileEmail(c) PROVE TInv'
<1>. DEFINE m == calls[c]
            Under(S, w) == [m EXCEPT !.pc = "file", !.left = S, !.was = w]
            Made(j) == [m EXCEPT !.pc = "create", !.job = j]
<1>1. m.pc = "read" /\ DOMAIN m = CallFields /\ UNCHANGED <<clock, rows, timeline, drift, redated>>
  BY DEF FileEmail, Shape, CallOK
<1>2. ASSUME NEW S, NEW w PROVE Under(S, w).pc = "file" /\ Under(S, w).now = m.now /\ Under(S, w).mail = m.mail
  BY <1>1 DEF CallFields
<1>3. ASSUME NEW j PROVE Made(j).pc = "create" /\ Made(j).now = m.now /\ Made(j).mail = m.mail
  BY <1>1 DEF CallFields
<1>4. (\E S, w, status : Record(c, status, {}, Under(S, w)))
      \/ (\E j : Record(c, "created", {}, Made(j)))
      \/ (\E S, status : Record(c, status, S, Idle))
  BY Zenon DEF FileEmail
<1>. HIDE DEF Under, Made
<1>5. ASSUME NEW S, NEW w, NEW status, Record(c, status, {}, Under(S, w)) PROVE TInv'
  BY <1>1, <1>2, <1>5, RecordTimed
<1>6. ASSUME NEW j, Record(c, "created", {}, Made(j)) PROVE TInv'
  BY <1>1, <1>3, <1>6, RecordTimed DEF Undecided
<1>7. ASSUME NEW S, NEW status, Record(c, status, S, Idle) PROVE TInv'
  BY <1>1, <1>7, RecordTimed
<1>. QED BY <1>4, <1>5, <1>6, <1>7

LEMMA MailEndsTimed ==
    ASSUME Shape, TInv, NEW c \in Callers, NothingChanged(c) \/ DismissEmail(c) \/ UndoEnds(c) PROVE TInv'
<1>1. \A e \in Emails : mails[e].status \notin Undecided => mails'[e].status \notin Undecided
  <2>. SUFFICES ASSUME NEW e \in Emails, mails[e].status \notin Undecided PROVE mails'[e].status \notin Undecided
    OBVIOUS
  <2>1. DOMAIN mails = Emails /\ DOMAIN mails[e] = {"status", "candidates"}
    BY DEF Shape
  <2>2. CASE NothingChanged(c)
    BY <2>1, <2>2 DEF NothingChanged, Undecided
  <2>3. CASE DismissEmail(c)
    BY <2>1, <2>3 DEF DismissEmail, Undecided
  <2>4. CASE UndoEnds(c)
    BY <2>1, <2>4 DEF UndoEnds, Undecided
  <2>. QED BY <2>2, <2>3, <2>4
<1>2. /\ Ends(c) /\ UNCHANGED <<clock, rows, timeline, drift, redated>>
      /\ calls[c].pc \in {"nothing", "dismiss", "undo"}
  BY DEF NothingChanged, DismissEmail, UndoEnds
<1>. QED BY <1>1, <1>2, SameRows, EndsTimed

LEMMA AssignEmailTimed == ASSUME Shape, TInv, NEW c \in Callers, AssignEmail(c) PROVE TInv'
<1>. DEFINE m == calls[c]
            r == [m EXCEPT !.pc = "file", !.now = clock + 1, !.was = StagesOf(m.left)]
<1>1. DOMAIN m = CallFields /\ m.pc = "assign" /\ UNCHANGED <<rows, timeline, drift, redated>> /\ clock \in Nat
  BY DEF AssignEmail, Shape, CallOK, TInv, Timed
<1>2. CASE Ends(c) /\ UNCHANGED <<clock, mails>>
  BY <1>1, <1>2, SameRows, EndsTimed
<1>3. CASE /\ clock' = clock + 1
           /\ mails' = [mails EXCEPT ![m.mail] = IF @.status = "none" THEN @ ELSE [status |-> "assigned", candidates |-> {}]]
           /\ Goes(c, r)
  <2>1. calls'[c] = r /\ \A d \in Callers \ {c} : calls'[d] = calls[d]
    BY <1>3, GoesTo
  <2>2. r.pc = "file" /\ r.now = clock + 1
    BY <1>1 DEF CallFields
  <2>. HIDE DEF r
  <2>3. Moment(c)' /\ SelfStays(c)
    BY <1>1, <1>3, <2>1, <2>2 DEF Moment, SelfStays
  <2>4. \A e \in Emails : mails[e].status \notin Undecided => mails'[e].status \notin Undecided
    BY <1>3 DEF Undecided, Shape
  <2>5. OthersStay(c) /\ \A a \in Apps : SameRow(a)
    BY <1>1, <1>3, <2>1, <2>4 DEF OthersStay, SameRow
  <2>6. GoesOn(m, calls'[c])
    BY <1>1 DEF GoesOn
  <2>. QED BY <1>1, <2>3, <2>5, <2>6, OnlyCall
<1>. QED BY <1>2, <1>3 DEF AssignEmail

(* Where FilesOn leads. *)
LEMMA FilesOnTo ==
    ASSUME NEW c \in Callers, NEW m, DOMAIN m = CallFields, FilesOn(c, m)
    PROVE  \E r : Goes(c, r) /\ (r = Idle \/ (r.pc = "file" /\ r.now = m.now))
<1>. DEFINE r == [m EXCEPT !.pc = "file"]
<1>1. r.pc = "file" /\ r.now = m.now
  BY DEF CallFields
<1>. QED BY <1>1 DEF FilesOn

LEMMA SetStageDateFromEmailTimed == ASSUME Shape, TInv, NEW c \in Callers, SetStageDateFromEmail(c) PROVE TInv'
<1>. DEFINE m == calls[c]
<1>1. DOMAIN m = CallFields /\ m.pc = "emaildate" /\ UNCHANGED <<clock, timeline, mails, drift, redated>>
  BY DEF SetStageDateFromEmail, Shape, CallOK
<1>2. \A a \in Apps : SameRow(a)
  BY DEF SetStageDateFromEmail, Shape, SameRow, RowFields
<1>3. PICK r : Goes(c, r) /\ (r = Idle \/ (r.pc = "file" /\ r.now = m.now))
  BY <1>1, FilesOnTo DEF SetStageDateFromEmail
<1>4. Idle.pc = "idle" /\ Idle.now = 0
  BY DEF Idle
<1>5. GoesOn(m, r) /\ m.pc \in Stamped
  BY <1>1 DEF GoesOn, Stamped
<1>. QED BY <1>1, <1>2, <1>3, <1>4, <1>5, OnlyCallTimed DEF Stamped

(***************************************************************************)
(* The calls that write steps and rows.                                    *)
(***************************************************************************)

LEMMA GrownNumbered ==
    ASSUME clock \in Nat, clock' \in {clock, clock + 1}, NEW a \in Apps, Numbered(timeline[a]),
           NEW s, NEW at \in Nat \ {0}, at <= clock, NEW mail,
           timeline'[a] = timeline[a] \cup {NewStep(a, s, at, mail)}
    PROVE  Numbered(timeline[a])'
<1>. DEFINE d == NewStep(a, s, at, mail)
<1>1. d.n \in Nat /\ (\A e \in timeline[a] : e.n < d.n) /\ d.at = at
  BY NewStepNumber
<1>2. timeline'[a] = timeline[a] \cup {d}
  OBVIOUS
<1>. HIDE DEF d
<1>3. PICK b \in Nat : \A e \in timeline[a] : e.n <= b
  BY DEF Numbered
<1>4. \A e \in timeline'[a] : e.n \in Nat /\ e.at \in Nat \ {0} /\ e.at <= clock' + Leeway /\ e.n <= b + d.n
  BY <1>1, <1>2, <1>3, LeewayNat DEF Numbered
<1>5. \A x, y \in timeline'[a] : x.n = y.n => x = y
  BY <1>1, <1>2 DEF Numbered
<1>6. b + d.n \in Nat
  BY <1>1
<1>. QED BY <1>4, <1>5, <1>6 DEF Numbered

LEMMA MovedFields ==
    ASSUME NEW row, DOMAIN row = RowFields, NEW s, NEW now
    PROVE  LET moved == MovedRow(row, s, now)
           IN  /\ moved.stage = s /\ moved.changed = now /\ moved.life = row.life
               /\ moved.applied = IF ~HasApplied(s) THEN 0 ELSE IF row.applied = 0 THEN now ELSE row.applied
BY DEF MovedRow, RowFields

(* A move lands as the timeline's last step, unless a later one is there.  *)
LEMMA MoveAgrees ==
    ASSUME Shape, clock \in Nat, NEW a \in Apps, Numbered(timeline[a]), Agrees(a), Here(a), NEW s, NEW now \in Nat \ {0}, NEW mail,
           WriteMove(a, s, now, mail), AllGoOn(a)
    PROVE  Agrees(a)'
<1>. DEFINE T == timeline[a]
            moved == MovedRow(rows[a], s, now)
<1>. PICK d : d = NewStep(a, s, now, mail)
  OBVIOUS
<1>1. d.n \in Nat /\ (\A e \in T : e.n < d.n) /\ d.at = now /\ d.stage = s
  BY NewStepNumber
<1>2. rows'[a] = moved /\ timeline'[a] = T \cup {d}
  BY DEF WriteMove, Shape
<1>3. /\ moved.stage = s /\ moved.changed = now /\ moved.life = "here"
      /\ moved.applied = IF ~HasApplied(s) THEN 0 ELSE IF rows[a].applied = 0 THEN now ELSE rows[a].applied
  BY MovedFields DEF Shape, Here
<1>. HIDE DEF moved
<1>. SUFFICES ASSUME a \notin drift', ~Undoing(a)' PROVE Fits(a)'
  BY DEF Agrees
<1>4. a \notin drift /\ \A e \in T : ~ (e.at > now)
  BY DEF WriteMove
<1>5. ~Undoing(a) /\ (~Dating(a)' => ~Dating(a))
  BY Halfway
<1>6. d \in AtStage(timeline[a], rows[a].stage)'
  BY <1>1, <1>2, <1>3 DEF AtStage
<1>7. \A e \in T : e.at \in Nat /\ e.n \in Nat /\ e.at <= now
  BY <1>4 DEF Numbered
<1>8. Latest(AtStage(timeline[a], rows[a].stage), rows[a].changed)'
  BY <1>1, <1>2, <1>3, <1>6, <1>7 DEF Latest, AtStage
<1>9. LastIn(timeline[a], d)'
  BY <1>1, <1>2, <1>7 DEF LastIn, Before
<1>10. ASSUME ~Dating(a) PROVE AppliedDated(a)'
  <2>. SUFFICES ASSUME HasApplied(s) PROVE AppliedDated(a)'
    BY <1>2, <1>3 DEF AppliedDated
  <2>1. CASE rows[a].applied = 0
    <3>1. d \in AppliedSteps(timeline'[a])
      BY <1>1, <1>2 DEF AppliedSteps
    <3>. QED BY <1>1, <1>2, <1>3, <2>1, <3>1 DEF AppliedDated, AppliedSteps
  <2>2. CASE rows[a].applied # 0
    <3>1. AppliedDated(a)
      BY <1>4, <1>5, <1>10, <2>2 DEF Agrees, Fits, DatesAgree, NewRow, AppliedDated
    <3>2. \A e \in AppliedSteps(T) : e \in AppliedSteps(timeline'[a])
      BY <1>2 DEF AppliedSteps
    <3>3. rows'[a].applied = rows[a].applied
      BY <1>2, <1>3, <2>2
    <3>4. CASE \E e \in AppliedSteps(T) : e.at = rows[a].applied
      BY <3>2, <3>3, <3>4 DEF AppliedDated, AppliedSteps
    <3>5. CASE \E c \in Callers : Starting(c, a) /\ HasApplied(calls[c].to) /\ calls[c].now = rows[a].applied
      BY <3>3, <3>5, Halfway DEF AppliedDated
    <3>. QED BY <2>2, <3>1, <3>4, <3>5 DEF AppliedDated
  <2>. QED BY <2>1, <2>2
<1>11. ~Dating(a)' => DatesAgree(a)'
  BY <1>1, <1>2, <1>3, <1>5, <1>8, <1>9, <1>10 DEF DatesAgree
<1>. QED BY <1>6, <1>11 DEF Fits

LEMMA MovesTimed ==
    ASSUME Shape, TInv, NEW c \in Callers, NEW a \in Apps, NEW s, NEW mail, NEW r, Here(a),
           calls[c].pc \in {"move", "file"}, WriteMove(a, s, calls[c].now, mail), Goes(c, r),
           r.now \in {0, calls[c].now}, r.pc \in Stamped => r.now = calls[c].now,
           r.pc \in {"idle", "date", "file", "emaildate"}, UNCHANGED <<clock, mails, redated>>
    PROVE  TInv'
<1>. DEFINE now == calls[c].now
            d == NewStep(a, s, now, mail)
<1>1. now \in Nat \ {0} /\ now <= clock /\ clock \in Nat
  BY DEF TInv, Timed, Moment, Stamped
<1>2. calls'[c] = r /\ \A x \in Callers \ {c} : calls'[x] = calls[x]
  BY GoesTo
<1>3. d.at = now
  BY DEF NewStep
<1>4. /\ rows'[a] = MovedRow(rows[a], s, now) /\ timeline'[a] = timeline[a] \cup {d}
      /\ (\A b \in Apps \ {a} : rows'[b] = rows[b] /\ timeline'[b] = timeline[b]) /\ drift \subseteq drift'
  BY DEF WriteMove, Shape
<1>. HIDE DEF d
<1>5. rows'[a].life = "here"
  BY <1>4, MovedFields DEF Shape, Here
<1>6. OthersStay(c)
  BY <1>2, <1>3, <1>4, <1>5 DEF OthersStay
<1>7. SelfStays(c) /\ Moment(c)'
  BY <1>1, <1>2 DEF SelfStays, Moment, Stamped
<1>8. GoesOn(calls[c], calls'[c])
  BY DEF GoesOn
<1>9. AllGoOn(a)
  BY <1>2, <1>8 DEF AllGoOn, GoesOn
<1>10. Numbered(timeline[a]) /\ Agrees(a)
  BY DEF TInv, Timelines
<1>11. Numbered(timeline[a])'
  BY <1>1, <1>4, <1>10, GrownNumbered DEF d
<1>12. Agrees(a)'
  BY <1>1, <1>9, <1>10, MoveAgrees
<1>13. Here(a)'
  BY <1>5 DEF Here
<1>. QED BY <1>4, <1>6, <1>7, <1>8, <1>11, <1>12, <1>13, OnlyOne DEF SameRow

LEMMA MoveToStageTimed == ASSUME Shape, TInv, NEW c \in Callers, MoveToStage(c) PROVE TInv'
<1>. DEFINE m == calls[c]
            dated == [m EXCEPT !.pc = "date"]
<1>1. DOMAIN m = CallFields /\ m.pc = "move" /\ UNCHANGED <<clock, mails, redated>>
  BY DEF MoveToStage, Shape, CallOK
<1>2. dated.pc = "date" /\ dated.now = m.now /\ Idle.pc = "idle" /\ Idle.now = 0
  BY <1>1 DEF CallFields, Idle
<1>3. \/ UNCHANGED <<rows, timeline, drift>> /\ (Ends(c) \/ Goes(c, dated))
      \/ CanRecord(m.app, NoMail) /\ WriteMove(m.app, m.to, m.now, NoMail) /\ (Goes(c, Idle) \/ Goes(c, dated))
  BY DEF MoveToStage, Ends
<1>. HIDE DEF dated
<1>4. CASE UNCHANGED <<rows, timeline, drift>> /\ Ends(c)
  BY <1>1, <1>4, SameRows, EndsTimed
<1>5. CASE UNCHANGED <<rows, timeline, drift>> /\ Goes(c, dated)
  BY <1>1, <1>2, <1>5, SameRows, OnlyCallTimed DEF Stamped, GoesOn
<1>6. CASE CanRecord(m.app, NoMail) /\ WriteMove(m.app, m.to, m.now, NoMail) /\ (Goes(c, Idle) \/ Goes(c, dated))
  <2>1. Here(m.app) /\ m.app \in Apps
    BY <1>6 DEF CanRecord, Here
  <2>2. PICK r : Goes(c, r) /\ r.now \in {0, m.now} /\ r.pc \in {"idle", "date"}
    BY <1>2, <1>6
  <2>. QED BY <1>1, <1>6, <2>1, <2>2, MovesTimed DEF Stamped
<1>. QED BY <1>3, <1>4, <1>5, <1>6

LEMMA EmailStepTimed == ASSUME Shape, TInv, NEW c \in Callers, EmailStep(c) PROVE TInv'
<1>. DEFINE m == calls[c]
            on(a) == [m EXCEPT !.left = @ \ {a}, !.app = a]
            dated(a) == [on(a) EXCEPT !.pc = "emaildate"]
<1>1. DOMAIN m = CallFields /\ m.pc = "file" /\ UNCHANGED <<clock, mails, redated>>
  BY DEF EmailStep, Shape, CallOK
<1>2. ASSUME NEW a PROVE /\ DOMAIN on(a) = CallFields /\ on(a).now = m.now
                         /\ dated(a).pc = "emaildate" /\ dated(a).now = m.now
  BY <1>1 DEF CallFields
<1>3. PICK a \in m.left : \/ UNCHANGED <<rows, timeline, drift>> /\ (Goes(c, dated(a)) \/ FilesOn(c, on(a)))
                          \/ /\ CanRecord(a, m.mail) /\ WriteMove(a, m.to, m.now, m.mail)
                             /\ Goes(c, dated(a)) \/ FilesOn(c, on(a))
                          \/ UNCHANGED <<rows, timeline, drift>> /\ Ends(c)
  BY Zenon DEF EmailStep
<1>. HIDE DEF on, dated
<1>4. CASE UNCHANGED <<rows, timeline, drift>> /\ Ends(c)
  BY <1>1, <1>4, SameRows, EndsTimed
<1>5. ASSUME Goes(c, dated(a)) \/ FilesOn(c, on(a))
      PROVE  \E r : Goes(c, r) /\ (r = Idle \/ (r.pc \in {"file", "emaildate"} /\ r.now = m.now))
  <2>1. CASE Goes(c, dated(a))
    BY <1>2, <2>1
  <2>2. CASE FilesOn(c, on(a))
    BY <1>2, <2>2, FilesOnTo
  <2>. QED BY <1>5, <2>1, <2>2
<1>6. Idle.pc = "idle" /\ Idle.now = 0
  BY DEF Idle
<1>7. CASE UNCHANGED <<rows, timeline, drift>> /\ (Goes(c, dated(a)) \/ FilesOn(c, on(a)))
  <2>1. PICK r : Goes(c, r) /\ (r = Idle \/ (r.pc \in {"file", "emaildate"} /\ r.now = m.now))
    BY <1>5, <1>7
  <2>. QED BY <1>1, <1>6, <1>7, <2>1, SameRows, OnlyCallTimed DEF Stamped, GoesOn
<1>8. CASE CanRecord(a, m.mail) /\ WriteMove(a, m.to, m.now, m.mail) /\ (Goes(c, dated(a)) \/ FilesOn(c, on(a)))
  <2>1. PICK r : Goes(c, r) /\ (r = Idle \/ (r.pc \in {"file", "emaildate"} /\ r.now = m.now))
    BY <1>5, <1>8
  <2>2. Here(a) /\ a \in Apps
    BY <1>8 DEF CanRecord, Here
  <2>3. r.now \in {0, m.now} /\ (r.pc \in Stamped => r.now = m.now) /\ r.pc \in {"idle", "file", "emaildate"}
    BY <1>6, <2>1 DEF Stamped
  <2>. QED BY <1>1, <1>8, <2>1, <2>2, <2>3, MovesTimed
<1>. QED BY <1>3, <1>4, <1>7, <1>8

LEMMA CreateApplicationTimed == ASSUME Shape, TInv, NEW c \in Callers, CreateApplication(c) PROVE TInv'
<1>. DEFINE m == calls[c]
            nothing == [m EXCEPT !.pc = "nothing"]
<1>1. DOMAIN m = CallFields /\ m.pc = "create" /\ UNCHANGED <<clock, timeline, mails, drift, redated>>
  BY DEF CreateApplication, Shape, CallOK
<1>2. nothing.pc = "nothing" /\ nothing.now = m.now
  BY <1>1 DEF CallFields
<1>3. CASE UNCHANGED rows /\ Ends(c)
  BY <1>1, <1>3, SameRows, EndsTimed
<1>4. CASE UNCHANGED rows /\ Goes(c, nothing)
  <2>. HIDE DEF nothing
  <2>. QED BY <1>1, <1>2, <1>4, SameRows, OnlyCallTimed DEF Stamped, GoesOn
<1>5. ASSUME NEW a \in Apps, rows[a].life = "unused",
             rows' = [rows EXCEPT ![a] = MovedRow([Unused EXCEPT !.life = "here", !.job = m.job], m.to, m.now)],
             Goes(c, [m EXCEPT !.pc = "first", !.app = a])
      PROVE  TInv'
  <2>. DEFINE r == [m EXCEPT !.pc = "first", !.app = a]
              row == [Unused EXCEPT !.life = "here", !.job = m.job]
  <2>1. r.pc = "first" /\ r.app = a /\ r.now = m.now /\ r.to = m.to /\ r.mail = m.mail
    BY <1>1 DEF CallFields
  <2>2. DOMAIN row = RowFields /\ row.life = "here" /\ row.applied = 0
    BY DEF Unused, RowFields
  <2>. HIDE DEF row, r
  <2>3. /\ rows'[a].stage = m.to /\ rows'[a].changed = m.now /\ rows'[a].life = "here"
        /\ rows'[a].applied = IF HasApplied(m.to) THEN m.now ELSE 0
    <3>1. rows'[a] = MovedRow(row, m.to, m.now)
      BY <1>5 DEF row, Shape
    <3>. QED BY <2>2, <3>1, MovedFields
  <2>4. calls'[c] = r /\ \A d \in Callers \ {c} : calls'[d] = calls[d]
    BY <1>5, GoesTo DEF r
  <2>5. timeline[a] = {} /\ timeline'[a] = {}
    BY <1>1, <1>5 DEF TInv, Timelines, Here
  <2>6. \A b \in Apps \ {a} : rows'[b] = rows[b]
    BY <1>5
  <2>7. OthersStay(c)
    BY <1>1, <2>3, <2>4, <2>6 DEF OthersStay
  <2>8. Moment(c)' /\ SelfStays(c)
    <3>1. Moment(c)
      BY DEF TInv, Timed
    <3>. QED BY <1>1, <1>5, <2>1, <2>3, <2>4, <2>5, <3>1 DEF Moment, SelfStays, Stamped
  <2>9. Agrees(a)'
    <3>1. NewRow(a)'
      BY <2>1, <2>3, <2>4, <2>5 DEF NewRow, Starting
    <3>. QED BY <3>1 DEF Agrees
  <2>10. Numbered(timeline[a])'
    BY <2>5 DEF Numbered
  <2>11. GoesOn(m, calls'[c])
    BY <1>1 DEF GoesOn
  <2>. QED BY <1>1, <2>5, <2>6, <2>7, <2>8, <2>9, <2>10, <2>11, OnlyOne DEF SameRow
<1>. QED BY <1>3, <1>4, <1>5 DEF CreateApplication

(* The first step of a new row lands at its end, or before every step      *)
(* taken since.                                                            *)
LEMMA FirstStepAgrees ==
    ASSUME clock \in Nat, NEW c \in Callers, NEW a \in Apps, Starting(c, a), Numbered(timeline[a]), Agrees(a), Moment(c), Distinct,
           SameRow(a), timeline'[a] = timeline[a] \cup {NewStep(a, calls[c].to, calls[c].now, calls[c].mail)},
           \A e \in timeline[a] : e.at >= calls[c].now,
           drift \subseteq drift', redated' = redated, \A d \in Callers \ {c} : calls'[d] = calls[d]
    PROVE  Agrees(a)'
<1>. DEFINE now == calls[c].now
            s == calls[c].to
            T == timeline[a]
<1>. PICK d : d = NewStep(a, s, now, calls[c].mail)
  OBVIOUS
<1>1. d.n \in Nat /\ (\A e \in T : e.n < d.n) /\ d.at = now /\ d.stage = s
  BY NewStepNumber
<1>2. timeline'[a] = T \cup {d}
  OBVIOUS
<1>3. now \in Nat \ {0} /\ \A e \in T : e.at \in Nat /\ e.n \in Nat /\ e.at >= now
  BY DEF Moment, Stamped, Starting, Numbered
<1>. SUFFICES ASSUME Here(a)', a \notin drift', ~Undoing(a)' PROVE Fits(a)'
  BY DEF Agrees
<1>4. ~Undoing(a) /\ (~Dating(a)' => ~Dating(a))
  BY DEF Undoing, Dating, Starting
<1>5. \A x \in Callers : Starting(x, a) => x = c
  BY DEF Distinct, Starting
<1>6. CASE NewRow(a)
  <2>1. /\ T = {} /\ rows'[a].stage = s /\ rows'[a].changed = now
        /\ rows'[a].applied = IF HasApplied(s) THEN now ELSE 0
    BY <1>5, <1>6 DEF NewRow, SameRow
  <2>2. timeline'[a] = {d}
    BY <1>2, <2>1
  <2>3. Latest(AtStage(timeline[a], rows[a].stage), rows[a].changed)' /\ AtStage(timeline[a], rows[a].stage)' # {}
    BY <1>1, <1>3, <2>1, <2>2 DEF Latest, AtStage
  <2>4. LastIn(timeline[a], d)'
    BY <2>2 DEF LastIn
  <2>5. AppliedDated(a)'
    BY <1>1, <2>1, <2>2 DEF AppliedDated, AppliedSteps
  <2>6. DatesAgree(a)'
    BY <1>1, <1>3, <2>1, <2>3, <2>4, <2>5 DEF DatesAgree
  <2>. QED BY <2>3, <2>6 DEF Fits
<1>7. CASE Fits(a)
  <2>1. AtStage(timeline[a], rows[a].stage)' # {}
    BY <1>2, <1>7 DEF Fits, AtStage, SameRow
  <2>2. ASSUME ~Dating(a)' PROVE DatesAgree(a)'
    <3>1. DatesAgree(a)
      BY <1>4, <1>7, <2>2 DEF Fits
    <3>2. Latest(AtStage(timeline[a], rows[a].stage), rows[a].changed)'
      <4>1. PICK e \in AtStage(T, rows[a].stage) : e.at = rows[a].changed
        BY <3>1 DEF DatesAgree, Latest
      <4>2. e \in T /\ now <= rows[a].changed
        BY <1>3, <4>1 DEF AtStage
      <4>. QED BY <1>1, <1>2, <3>1, <4>1, <4>2 DEF DatesAgree, Latest, AtStage, SameRow
    <3>3. AppliedDated(a)'
      <4>1. \A e \in AppliedSteps(T) : e \in AppliedSteps(timeline'[a])
        BY <1>2 DEF AppliedSteps
      <4>2. HasApplied(s) => d \in AppliedSteps(timeline'[a])
        BY <1>1, <1>2 DEF AppliedSteps
      <4>3. CASE \E x \in Callers : Starting(x, a) /\ HasApplied(calls[x].to) /\ calls[x].now = rows[a].applied
        BY <1>1, <1>5, <4>2, <4>3 DEF AppliedDated, SameRow
      <4>. QED BY <3>1, <4>1, <4>3 DEF DatesAgree, AppliedDated, SameRow
    <3>4. ASSUME a \notin redated PROVE \E e : LastIn(timeline[a], e)' /\ e.stage = rows'[a].stage
      <4>1. PICK e : LastIn(T, e) /\ e.stage = rows[a].stage
        BY <3>1, <3>4 DEF DatesAgree
      <4>2. e \in T /\ e.at # now
        BY <3>4, <4>1 DEF LastIn, Moment, Starting
      <4>3. Before(d, e)
        BY <1>1, <1>3, <4>2 DEF Before
      <4>4. LastIn(timeline[a], e)'
        BY <1>2, <4>1, <4>3 DEF LastIn
      <4>. QED BY <4>1, <4>4 DEF SameRow
    <3>5. (rows'[a].applied = 0) <=> ~HasApplied(rows'[a].stage)
      BY <3>1 DEF DatesAgree, SameRow
    <3>. QED BY <3>2, <3>3, <3>4, <3>5 DEF DatesAgree
  <2>. QED BY <2>1, <2>2 DEF Fits
<1>. QED BY <1>4, <1>6, <1>7 DEF Agrees, Here, SameRow

LEMMA FirstStepTimed == ASSUME Shape, TInv, NEW c \in Callers, FirstStep(c) PROVE TInv'
<1>. DEFINE m == calls[c]
            dated == [m EXCEPT !.pc = "emaildate"]
<1>. PICK a : a = calls[c].app
  OBVIOUS
<1>1. /\ DOMAIN m = CallFields /\ m.pc = "first" /\ m.mail \in Emails \cup {NoMail}
      /\ UNCHANGED <<clock, rows, mails, redated>>
  BY DEF FirstStep, Shape, CallOK
<1>2. Moment(c) /\ a \in Apps /\ clock \in Nat /\ m.now \in Nat \ {0} /\ m.now <= clock /\ Distinct
  BY <1>1 DEF TInv, Timed, Moment, Stamped
<1>3. \A b \in Apps : SameRow(b)
  BY <1>1, SameRows
<1>4. CASE ~CanRecord(a, m.mail)
  <2>1. ~Here(a)
    BY <1>1, <1>2, <1>4 DEF CanRecord, Moment, Undecided
  <2>. QED BY <1>1, <1>3, <1>4, <2>1, EndsTimed DEF FirstStep
<1>5. CASE CanRecord(a, m.mail)
  <2>1. dated.pc = "emaildate" /\ dated.now = m.now /\ Idle.pc = "idle" /\ Idle.now = 0
    BY <1>1 DEF CallFields, Idle
  <2>2. PICK r : Goes(c, r) /\ r.pc \in {"emaildate", "idle"} /\ r.now \in {0, m.now} /\ (r.pc \in Stamped => r.now = m.now)
    <3>1. Goes(c, IF m.mail \in Dated THEN dated ELSE Idle)
      BY <1>5 DEF FirstStep
    <3>. QED BY <2>1, <3>1 DEF Stamped
  <2>3. calls'[c] = r /\ \A d \in Callers \ {c} : calls'[d] = calls[d]
    BY <2>2, GoesTo
  <2>4. /\ timeline'[a] = timeline[a] \cup {NewStep(a, m.to, m.now, m.mail)}
        /\ \A b \in Apps \ {a} : timeline'[b] = timeline[b]
        /\ drift' = IF \E e \in timeline[a] : e.at < m.now THEN drift \cup {a} ELSE drift
    BY <1>2, <1>5 DEF FirstStep, Shape
  <2>5. NewStep(a, m.to, m.now, m.mail).at = m.now
    BY DEF NewStep
  <2>6. OthersStay(c)
    BY <1>1, <2>3, <2>4, <2>5 DEF OthersStay
  <2>7. Moment(c)' /\ SelfStays(c)
    BY <1>1, <1>2, <2>2, <2>3 DEF Moment, SelfStays
  <2>8. Numbered(timeline[a]) /\ Agrees(a)
    BY <1>2 DEF TInv, Timelines
  <2>9. Numbered(timeline[a])'
    <3>. DEFINE s == m.to  at == m.now  mail == m.mail
    <3>1. /\ at \in Nat \ {0} /\ at <= clock /\ clock' \in {clock, clock + 1}
          /\ timeline'[a] = timeline[a] \cup {NewStep(a, s, at, mail)}
      BY <1>1, <1>2, <2>4
    <3>. HIDE DEF s, at, mail
    <3>. QED BY <1>2, <2>8, <3>1, GrownNumbered
  <2>10. Agrees(a)'
    <3>1. CASE \E e \in timeline[a] : e.at < m.now
      BY <2>4, <3>1, Out
    <3>2. CASE \A e \in timeline[a] : ~ (e.at < m.now)
      <4>1. \A e \in timeline[a] : e.at >= m.now
        BY <1>2, <2>8, <3>2 DEF Numbered
      <4>2. Starting(c, a) /\ drift \subseteq drift' /\ redated' = redated
        BY <1>1, <2>4 DEF Starting
      <4>. QED BY <1>2, <1>3, <2>3, <2>4, <2>8, <4>1, <4>2, FirstStepAgrees
    <3>. QED BY <3>1, <3>2
  <2>11. Here(a)'
    BY <1>1, <1>5 DEF CanRecord, Here
  <2>. QED BY <1>2, <1>3, <2>4, <2>6, <2>7, <2>9, <2>10, <2>11, OnlyOne
<1>. QED BY <1>4, <1>5

LEMMA DeleteTimed ==
    ASSUME Shape, TInv, NEW c \in Callers, NEW a, DeleteApplication(a), clock' \in {clock, clock + 1},
           \A d \in Callers \ {c} : calls'[d] = calls[d], Moment(c)', SelfStays(c), drift \subseteq drift',
           UNCHANGED <<mails, redated>>, calls[c].app = a \/ GoesOn(calls[c], calls'[c])
    PROVE  TInv'
<1>1. a \in Apps => timeline'[a] = {} /\ rows'[a].life # "here" /\ (rows[a].life # "unused" => rows'[a].life # "unused")
  BY DEF DeleteApplication, Shape, Here, Gone, Unused
<1>2. \A b \in Apps \ {a} : rows'[b] = rows[b] /\ timeline'[b] = timeline[b]
  BY DEF DeleteApplication, Shape
<1>3. OthersStay(c)
  BY <1>1, <1>2 DEF OthersStay
<1>4. a \in Apps => Numbered(timeline[a])' /\ timeline'[a] = {} /\ Agrees(a)'
  BY <1>1, Out DEF Numbered, Here
<1>. QED BY <1>2, <1>3, <1>4, OnlyOne DEF SameRow

LEMMA DeleteRouteTimed == ASSUME Shape, TInv, NEW c \in Callers, NEW a, DeleteRoute(c, a) PROVE TInv'
<1>1. /\ DeleteApplication(a) /\ clock' = clock + 1 /\ clock \in Nat /\ calls' = calls /\ calls[c].pc = "idle"
      /\ UNCHANGED <<mails, drift, redated>>
  BY DEF DeleteRoute, TInv, Timed
<1>2. Moment(c)
  BY DEF TInv, Timed
<1>3. Moment(c)' /\ SelfStays(c)
  BY <1>1, <1>2 DEF Moment, SelfStays, Stamped
<1>4. GoesOn(calls[c], calls'[c])
  BY <1>1 DEF GoesOn
<1>. QED BY <1>1, <1>3, <1>4, DeleteTimed

LEMMA UnsaveTimed == ASSUME Shape, TInv, NEW c \in Callers, Unsave(c) PROVE TInv'
<1>1. /\ DeleteApplication(calls[c].app) /\ clock' = clock /\ clock \in Nat /\ Goes(c, Idle)
      /\ UNCHANGED <<mails, drift, redated>>
  BY DEF Unsave, Ends, TInv, Timed
<1>2. calls'[c] = Idle /\ \A d \in Callers \ {c} : calls'[d] = calls[d]
  BY <1>1, GoesTo
<1>. QED BY <1>1, <1>2, IdleMoment, DeleteTimed

(* The Saved step a person went back to is the last of those kept.         *)
LEMMA UnmarkWritesTimed == ASSUME Shape, TInv, NEW c \in Callers, UnmarkWrites(c) PROVE TInv'
<1>. DEFINE m == calls[c]
<1>. PICK a : a = m.app
  OBVIOUS
<1>1. PICK e : m.read = {e} /\ e.stage = "saved"
  BY DEF UnmarkWrites, TInv, Timed, Moment
<1>2. e = CHOOSE x \in m.read : TRUE
  BY <1>1
<1>. PICK kept : kept = {x \in timeline[a] : x.n = e.n \/ x.at < e.at}
  OBVIOUS
<1>3. /\ timeline' = [timeline EXCEPT ![a] = kept]
      /\ rows' = IF Here(a) THEN [rows EXCEPT ![a] = [@ EXCEPT !.stage = "saved", !.applied = 0, !.date = "none", !.changed = e.at]]
                 ELSE rows
      /\ drift' = IF e \in timeline[a] THEN drift ELSE drift \cup {a}
      /\ Ends(c) /\ UNCHANGED <<clock, mails, redated>>
  BY <1>2 DEF UnmarkWrites
<1>4. calls'[c] = Idle /\ \A d \in Callers \ {c} : calls'[d] = calls[d]
  BY <1>3, GoesTo DEF Ends
<1>5. \A b \in Apps \ {a} : rows'[b] = rows[b] /\ timeline'[b] = timeline[b]
  BY <1>3 DEF Shape
<1>6. ASSUME a \in Apps
      PROVE  /\ timeline'[a] = kept /\ kept \subseteq timeline[a] /\ rows'[a].life = rows[a].life
             /\ Here(a) => rows'[a].stage = "saved" /\ rows'[a].applied = 0 /\ rows'[a].changed = e.at
  BY <1>3, <1>6 DEF Shape, RowFields
<1>7. clock \in Nat
  BY DEF TInv, Timed
<1>8. OthersStay(c)
  BY <1>3, <1>4, <1>5, <1>6 DEF OthersStay
<1>9. Moment(c)' /\ SelfStays(c)
  BY <1>3, <1>4, <1>7, IdleMoment
<1>10. ASSUME a \in Apps PROVE Numbered(timeline[a])' /\ (~Here(a)' => timeline'[a] = {}) /\ Agrees(a)'
  <2>1. Numbered(timeline[a]) /\ (~Here(a) => timeline[a] = {})
    BY <1>10 DEF TInv, Timelines
  <2>2. Numbered(timeline[a])'
    <3>1. Numbered(kept)'
      BY <1>3, <1>6, <1>7, <1>10, <2>1, PartNumbered
    <3>. QED BY <1>6, <1>10, <3>1 DEF Numbered
  <2>3. ~Here(a)' => timeline'[a] = {}
    BY <1>6, <1>10, <2>1 DEF Here
  <2>4. Agrees(a)'
    <3>. SUFFICES ASSUME Here(a)', a \notin drift' PROVE Fits(a)'
      BY DEF Agrees
    <3>1. e \in kept /\ Here(a)
      BY <1>3, <1>6, <1>10 DEF Here
    <3>2. \A x \in kept : x = e \/ x.at < e.at
      BY <2>1, <3>1 DEF Numbered
    <3>3. \A x \in kept : x.at \in Nat
      BY <1>6, <1>10, <2>1 DEF Numbered
    <3>4. LastIn(timeline[a], e)'
      BY <1>6, <1>10, <3>1, <3>2 DEF LastIn, Before
    <3>5. Latest(AtStage(timeline[a], rows[a].stage), rows[a].changed)' /\ AtStage(timeline[a], rows[a].stage)' # {}
      BY <1>1, <1>6, <1>10, <3>1, <3>2, <3>3 DEF Latest, AtStage
    <3>. QED BY <1>1, <1>6, <1>10, <3>1, <3>4, <3>5 DEF Fits, DatesAgree, AppliedDated, HasApplied
  <2>. QED BY <2>2, <2>3, <2>4
<1>. QED BY <1>5, <1>8, <1>9, <1>10, OnlyOne DEF SameRow

LEMMA RedateStepTimed ==
    ASSUME Shape, TInv, NEW c \in Callers, NEW a \in Apps, NEW e \in timeline[a], NEW at, RedateStep(c, a, e, at)
    PROVE  TInv'
<1>. PICK r : r = [Idle EXCEPT !.pc = "redated", !.now = clock + 1, !.app = a, !.row = rows[a]]
  OBVIOUS
<1>. PICK anew : anew = [e EXCEPT !.at = at]
  OBVIOUS
<1>1. r.pc = "redated" /\ r.now = clock + 1 /\ r.app = a
  BY DEF Idle
<1>2. anew.n = e.n /\ anew.stage = e.stage /\ anew.at = at /\ at \in 1 .. clock + 1 + Leeway
  BY DEF Shape, StepFields, RedateStep
<1>3. /\ calls[c].pc = "idle" /\ clock' = clock + 1 /\ redated' = redated \cup {a} /\ Goes(c, r) /\ UNCHANGED <<rows, mails, drift>>
      /\ timeline'[a] = (timeline[a] \ {e}) \cup {anew} /\ \A b \in Apps \ {a} : timeline'[b] = timeline[b]
  BY DEF RedateStep, Shape
<1>4. calls'[c] = r /\ \A d \in Callers \ {c} : calls'[d] = calls[d]
  BY <1>3, GoesTo
<1>5. clock \in Nat /\ Numbered(timeline[a]) /\ Here(a) /\ Agrees(a)
  BY DEF TInv, Timed, Timelines, RedateStep
<1>6. OthersStay(c)
  BY <1>3, <1>4 DEF OthersStay
<1>7. Moment(c)' /\ SelfStays(c)
  BY <1>1, <1>3, <1>4, <1>5 DEF Moment, SelfStays, Stamped
<1>8. Numbered(timeline[a])'
  <2>1. PICK b \in Nat : \A x \in timeline[a] : x.n <= b
    BY <1>5 DEF Numbered
  <2>2. \A x \in timeline'[a] : x.n \in Nat /\ x.at \in Nat \ {0} /\ x.at <= clock' + Leeway /\ x.n <= b
    <3>1. \A x \in timeline[a] : x.n \in Nat /\ x.at \in Nat \ {0} /\ x.at <= clock + Leeway
      BY <1>5 DEF Numbered
    <3>2. at \in Nat \ {0} /\ at <= clock' + Leeway
      BY <1>2, <1>3, <1>5, LeewayNat
    <3>3. clock + Leeway <= clock' + Leeway
      BY <1>3, <1>5, LeewayNat
    <3>. SUFFICES ASSUME NEW x \in timeline'[a]
                  PROVE x.n \in Nat /\ x.at \in Nat \ {0} /\ x.at <= clock' + Leeway /\ x.n <= b
      OBVIOUS
    <3>4. CASE x = anew
      <4>1. e \in timeline[a]
        BY DEF RedateStep
      <4>2. e.n \in Nat /\ e.n <= b
        BY <2>1, <3>1, <4>1
      <4>. QED BY <1>2, <3>2, <3>4, <4>2
    <3>5. CASE x \in timeline[a]
      <4>1. x.n \in Nat /\ x.at \in Nat \ {0} /\ x.at <= clock + Leeway /\ x.n <= b
        BY <2>1, <3>1, <3>5
      <4>2. clock + Leeway \in Nat /\ clock' + Leeway \in Nat
        BY <1>3, <1>5, LeewayNat
      <4>. QED BY <3>3, <4>1, <4>2
    <3>. QED BY <1>3, <3>4, <3>5
  <2>3. \A x, y \in timeline'[a] : x.n = y.n => x = y
    BY <1>2, <1>3, <1>5 DEF Numbered
  <2>. QED BY <2>2, <2>3 DEF Numbered
<1>9. Agrees(a)'
  <2>. SUFFICES ASSUME a \notin drift', ~Undoing(a)' PROVE Fits(a)'
    BY DEF Agrees
  <2>1. ~Undoing(a)
    BY <1>3, <1>4 DEF Undoing
  <2>2. Fits(a)
    BY <1>3, <1>5, <2>1 DEF Agrees, NewRow
  <2>3. PICK x \in timeline[a] : x.stage = rows[a].stage
    BY <2>2 DEF Fits, AtStage
  <2>4. AtStage(timeline[a], rows[a].stage)' # {}
    BY <1>2, <1>3, <2>3 DEF AtStage
  <2>5. Dating(a)'
    BY <1>1, <1>4 DEF Dating
  <2>. QED BY <2>4, <2>5 DEF Fits
<1>10. GoesOn(calls[c], calls'[c]) /\ Here(a)'
  BY <1>3, <1>5 DEF GoesOn, Here
<1>. QED BY <1>3, <1>6, <1>7, <1>8, <1>9, <1>10, OnlyOne DEF SameRow

(* Dates written by the timeline as it still is agree with it. *)
LEMMA WriteDatesTimed == ASSUME Shape, TInv, NEW c \in Callers, WriteDates(c) PROVE TInv'
<1>. DEFINE m == calls[c]
<1>. PICK a : a = m.app
  OBVIOUS
<1>. PICK dates : dates = DatesBy(m.read, m.row)
  OBVIOUS
<1>1. /\ m.pc = "dates" /\ Ends(c) /\ UNCHANGED <<clock, timeline, mails, redated>> /\ drift \subseteq drift'
      /\ rows' = IF Here(a) THEN [rows EXCEPT ![a] = [@ EXCEPT !.applied = dates.applied, !.changed = dates.changed]] ELSE rows
      /\ Here(a) /\ dates # DatesBy(timeline[a], rows[a]) => a \in drift'
  BY DEF WriteDates
<1>2. calls'[c] = Idle /\ \A d \in Callers \ {c} : calls'[d] = calls[d]
  BY <1>1, GoesTo DEF Ends
<1>3. clock \in Nat /\ a \in redated
  BY <1>1 DEF TInv, Timed, Moment
<1>4. \A b \in Apps \ {a} : rows'[b] = rows[b]
  BY <1>1 DEF Shape
<1>5. ASSUME a \in Apps
      PROVE  /\ rows'[a].life = rows[a].life /\ rows'[a].stage = rows[a].stage
             /\ Here(a) => rows'[a].applied = dates.applied /\ rows'[a].changed = dates.changed
  BY <1>1, <1>5 DEF Shape, RowFields
<1>6. OthersStay(c)
  BY <1>1, <1>2, <1>4, <1>5 DEF OthersStay
<1>7. Moment(c)' /\ SelfStays(c)
  BY <1>1, <1>2, <1>3, IdleMoment
<1>8. ASSUME a \in Apps PROVE Numbered(timeline[a])' /\ (~Here(a)' => timeline'[a] = {}) /\ Agrees(a)'
  <2>. PICK T : T = timeline[a]
    OBVIOUS
  <2>1. Numbered(T) /\ (~Here(a) => T = {}) /\ Agrees(a)
    BY <1>8 DEF TInv, Timelines
  <2>2. Numbered(timeline[a])'
    BY <1>1, <1>3, <2>1, PartNumbered
  <2>3. ~Here(a)' => timeline'[a] = {}
    BY <1>1, <1>5, <1>8, <2>1 DEF Here
  <2>4. Agrees(a)'
    <3>. SUFFICES ASSUME Here(a)', a \notin drift', ~Undoing(a)' PROVE NewRow(a)' \/ Fits(a)'
      BY DEF Agrees
    <3>1. Here(a) /\ a \notin drift /\ ~Undoing(a)
      BY <1>1, <1>2, <1>5, <1>8 DEF Here, Undoing
    <3>2. dates = DatesBy(T, rows[a])
      BY <1>1, <3>1
    <3>. DEFINE ofStage == AtStage(T, rows[a].stage)
                steps == AppliedSteps(T)
    <3>3. /\ dates.applied = IF ~HasApplied(rows[a].stage) THEN 0 ELSE IF steps = {} THEN rows[a].applied ELSE FirstOf(steps).at
          /\ dates.changed = IF ofStage = {} THEN rows[a].changed ELSE LastOf(ofStage).at
      BY <3>2 DEF DatesBy, AtStage
    <3>4. CASE NewRow(a)
      <4>1. PICK x \in Callers : /\ Starting(x, a) /\ T = {} /\ rows[a].stage = calls[x].to /\ rows[a].changed = calls[x].now
                                 /\ rows[a].applied = IF HasApplied(calls[x].to) THEN calls[x].now ELSE 0
        BY <3>4 DEF NewRow
      <4>2. x # c
        BY <1>1, <4>1 DEF Starting
      <4>3. ofStage = {} /\ steps = {}
        BY <4>1 DEF AtStage, AppliedSteps
      <4>4. rows'[a].applied = rows[a].applied /\ rows'[a].changed = rows[a].changed /\ rows'[a].stage = rows[a].stage
        BY <1>5, <1>8, <3>1, <3>3, <4>1, <4>3
      <4>5. NewRow(a)'
        BY <1>1, <1>2, <4>1, <4>2, <4>4 DEF NewRow, Starting
      <4>. QED BY <4>5
    <3>5. CASE Fits(a)
      <4>1. ofStage # {} /\ ofStage \subseteq T
        BY <3>5 DEF Fits, AtStage
      <4>2. LastIn(ofStage, LastOf(ofStage))
        <5>1. Numbered(ofStage)
          BY <1>1, <1>3, <2>1, <4>1, PartNumbered
        <5>. HIDE DEF ofStage
        <5>. QED BY <1>3, <4>1, <5>1, LastExists
      <4>3. \A d \in ofStage : d.at \in Nat
        BY <2>1, <4>1 DEF Numbered
      <4>4. Latest(ofStage, LastOf(ofStage).at)
        <5>. HIDE DEF ofStage
        <5>. QED BY <4>2, <4>3 DEF LastIn, Latest, Before
      <4>5. Latest(AtStage(timeline[a], rows[a].stage), rows[a].changed)' /\ AtStage(timeline[a], rows[a].stage)' # {}
        <5>1. AtStage(timeline[a], rows[a].stage)' = ofStage
          BY <1>1, <1>5, <1>8 DEF AtStage
        <5>2. rows'[a].changed = LastOf(ofStage).at
          BY <1>5, <1>8, <3>1, <3>3, <4>1
        <5>. HIDE DEF ofStage
        <5>. QED BY <4>1, <4>4, <5>1, <5>2 DEF Latest
      <4>6. ASSUME HasApplied(rows[a].stage) PROVE FirstOf(steps) \in steps /\ dates.applied = FirstOf(steps).at
        <5>1. steps # {} /\ steps \subseteq T
          BY <4>1, <4>6 DEF AtStage, AppliedSteps
        <5>2. Numbered(steps)
          BY <1>1, <1>3, <2>1, <5>1, PartNumbered
        <5>. HIDE DEF steps
        <5>. QED BY <1>3, <3>3, <4>6, <5>1, <5>2, FirstExists
      <4>7. \A d \in steps : d.at # 0
        BY <2>1 DEF Numbered, AppliedSteps
      <4>8. (rows'[a].applied = 0) <=> ~HasApplied(rows'[a].stage)
        BY <1>5, <1>8, <3>1, <3>3, <4>6, <4>7
      <4>9. AppliedDated(a)'
        <5>1. AppliedSteps(timeline[a])' = steps
          BY <1>1 DEF AppliedSteps
        <5>. HIDE DEF steps
        <5>. QED BY <1>5, <1>8, <3>1, <4>6, <4>8, <5>1 DEF AppliedDated
      <4>. QED BY <1>1, <1>3, <4>5, <4>8, <4>9 DEF Fits, DatesAgree
    <3>. QED BY <2>1, <3>1, <3>4, <3>5 DEF Agrees
  <2>. QED BY <2>2, <2>3, <2>4
<1>. QED BY <1>1, <1>4, <1>6, <1>7, <1>8, OnlyOne DEF SameRow

LEMMA UndoDeletesTimed == ASSUME Shape, TInv, NEW c \in Callers, UndoDeletes(c) PROVE TInv'
<1>. DEFINE m == calls[c]
<1>. PICK a \in m.left : /\ timeline' = [timeline EXCEPT ![a] = @ \ StepsOf(m.mail, a)]
                         /\ Goes(c, [m EXCEPT !.pc = "undoread", !.app = a, !.left = @ \ {a}])
  BY DEF UndoDeletes
<1>. PICK r : r = [m EXCEPT !.pc = "undoread", !.app = a, !.left = @ \ {a}]
  OBVIOUS
<1>1. DOMAIN m = CallFields /\ m.pc = "undo" /\ UNCHANGED <<clock, rows, mails, drift, redated>>
  BY DEF UndoDeletes, Shape, CallOK
<1>2. r.pc = "undoread" /\ r.app = a /\ r.now = m.now
  BY <1>1 DEF CallFields
<1>3. calls'[c] = r /\ \A d \in Callers \ {c} : calls'[d] = calls[d]
  BY GoesTo
<1>4. (\A b \in Apps \ {a} : timeline'[b] = timeline[b]) /\ (a \in Apps => timeline'[a] \subseteq timeline[a])
  BY DEF Shape
<1>5. clock \in Nat /\ Moment(c)
  BY DEF TInv, Timed
<1>6. OthersStay(c)
  BY <1>1, <1>3, <1>4 DEF OthersStay
<1>7. Moment(c)' /\ SelfStays(c)
  BY <1>1, <1>2, <1>3, <1>5 DEF Moment, SelfStays, Stamped
<1>8. ASSUME a \in Apps PROVE Numbered(timeline[a])' /\ (~Here(a)' => timeline'[a] = {}) /\ Agrees(a)'
  <2>1. Numbered(timeline[a]) /\ (~Here(a) => timeline[a] = {})
    BY <1>8 DEF TInv, Timelines
  <2>2. PICK T : T = timeline'[a]
    OBVIOUS
  <2>3. Numbered(T)'
    BY <1>1, <1>4, <1>5, <1>8, <2>1, <2>2, PartNumbered
  <2>4. Numbered(timeline[a])'
    BY <2>2, <2>3 DEF Numbered
  <2>5. ~Here(a)' => timeline'[a] = {}
    BY <1>1, <1>4, <1>8, <2>1 DEF Here
  <2>6. Undoing(a)'
    BY <1>2, <1>3 DEF Undoing
  <2>. QED BY <2>4, <2>5, <2>6, Out
<1>9. GoesOn(m, calls'[c])
  BY <1>1 DEF GoesOn
<1>. QED BY <1>1, <1>4, <1>6, <1>7, <1>8, <1>9, OnlyOne DEF SameRow

(* A row put back by the steps that are left agrees with them.             *)
LEMMA UndoWritesTimed == ASSUME Shape, TInv, NEW c \in Callers, UndoWrites(c) PROVE TInv'
<1>. DEFINE m == calls[c]
<1>. PICK a : a = m.app
  OBVIOUS
<1>. PICK T : T = m.read
  OBVIOUS
<1>. PICK r : r = [m EXCEPT !.pc = "undo", !.app = NoApp, !.read = {}]
  OBVIOUS
<1>1. /\ DOMAIN m = CallFields /\ m.pc = "undowrite" /\ Goes(c, r) /\ UNCHANGED <<clock, mails, redated>> /\ drift \subseteq drift'
      /\ T # timeline[a] => a \in drift'
      /\ IF T = {} THEN DeleteApplication(a)
         ELSE rows' = (IF Here(a) THEN [rows EXCEPT ![a] = RestoredRow(@, T)] ELSE rows) /\ UNCHANGED timeline
  BY DEF UndoWrites, Shape, CallOK
<1>2. calls'[c] = r /\ \A d \in Callers \ {c} : calls'[d] = calls[d]
  BY <1>1, GoesTo
<1>3. r.pc = "undo" /\ r.now = m.now
  BY <1>1 DEF CallFields
<1>4. clock \in Nat /\ Moment(c)
  BY DEF TInv, Timed
<1>5. Moment(c)' /\ SelfStays(c)
  BY <1>1, <1>2, <1>3, <1>4 DEF Moment, SelfStays, Stamped
<1>6. CASE T = {}
  BY <1>1, <1>2, <1>5, <1>6, DeleteTimed
<1>7. CASE T # {}
  <2>1. UNCHANGED timeline /\ \A b \in Apps \ {a} : rows'[b] = rows[b]
    BY <1>1, <1>7 DEF Shape
  <2>. PICK last : last = LastOf(T)
    OBVIOUS
  <2>2. ASSUME a \in Apps
        PROVE  /\ rows'[a].life = rows[a].life
               /\ Here(a) => /\ rows'[a].stage = last.stage /\ rows'[a].changed = last.at
                             /\ rows'[a].applied = IF HasApplied(last.stage) THEN FirstOf(AppliedSteps(T)).at ELSE 0
    <3>1. DOMAIN rows = Apps /\ DOMAIN rows[a] = RowFields
      BY <2>2 DEF Shape
    <3>. PICK row : row = rows[a]
      OBVIOUS
    <3>. PICK put : put = RestoredRow(row, T)
      OBVIOUS
    <3>2. /\ put.life = row.life /\ put.stage = last.stage /\ put.changed = last.at
          /\ put.applied = IF HasApplied(last.stage) THEN FirstOf(AppliedSteps(T)).at ELSE 0
      BY <3>1 DEF RowFields, RestoredRow
    <3>3. rows'[a] = IF Here(a) THEN put ELSE row
      BY <1>1, <1>7, <2>2, <3>1
    <3>. QED BY <3>2, <3>3
  <2>3. OthersStay(c)
    BY <1>1, <1>2, <2>1, <2>2 DEF OthersStay
  <2>4. ASSUME a \in Apps PROVE Numbered(timeline[a])' /\ (~Here(a)' => timeline'[a] = {}) /\ Agrees(a)'
    <3>1. Numbered(timeline[a]) /\ (~Here(a) => timeline[a] = {})
      BY <2>4 DEF TInv, Timelines
    <3>2. Numbered(timeline[a])'
      <4>. PICK S : S = timeline[a]
        OBVIOUS
      <4>1. Numbered(S)'
        BY <1>1, <1>4, <3>1, PartNumbered
      <4>. QED BY <2>1, <4>1 DEF Numbered
    <3>3. ~Here(a)' => timeline'[a] = {}
      BY <2>1, <2>2, <2>4, <3>1 DEF Here
    <3>4. Agrees(a)'
      <4>. SUFFICES ASSUME Here(a)', a \notin drift' PROVE Fits(a)'
        BY DEF Agrees
      <4>1. Here(a) /\ T = timeline[a] /\ timeline'[a] = T /\ Numbered(T)
        BY <1>1, <2>1, <2>2, <2>4, <3>1 DEF Here
      <4>2. LastIn(T, last)
        BY <1>4, <1>7, <4>1, LastExists
      <4>3. (\A d \in T : d.at \in Nat \ {0} /\ d.at <= last.at) /\ last \in T
        BY <4>1, <4>2 DEF LastIn, Numbered, Before
      <4>4. Latest(AtStage(timeline[a], rows[a].stage), rows[a].changed)' /\ AtStage(timeline[a], rows[a].stage)' # {}
        BY <2>2, <2>4, <4>1, <4>3 DEF Latest, AtStage
      <4>5. ASSUME HasApplied(last.stage) PROVE FirstOf(AppliedSteps(T)) \in AppliedSteps(T)
        <5>1. AppliedSteps(T) # {} /\ AppliedSteps(T) \subseteq T
          BY <4>3, <4>5 DEF AppliedSteps
        <5>2. Numbered(AppliedSteps(T))
          BY <1>1, <1>4, <4>1, <5>1, PartNumbered
        <5>. QED BY <1>4, <5>1, <5>2, FirstExists
      <4>6. (rows'[a].applied = 0) <=> ~HasApplied(rows'[a].stage)
        BY <2>2, <2>4, <4>1, <4>3, <4>5 DEF AppliedSteps
      <4>7. AppliedDated(a)'
        BY <2>2, <2>4, <4>1, <4>5, <4>6 DEF AppliedDated, AppliedSteps
      <4>8. LastIn(timeline[a], last)' /\ last.stage = rows'[a].stage
        BY <2>2, <2>4, <4>1, <4>2 DEF LastIn
      <4>. QED BY <4>4, <4>6, <4>7, <4>8 DEF Fits, DatesAgree
    <3>. QED BY <3>2, <3>3, <3>4
  <2>. QED BY <1>5, <2>1, <2>3, <2>4, OnlyOne DEF SameRow
<1>. QED BY <1>6, <1>7

(***************************************************************************)
(* An email that is let go leaves its steps where they are.                *)
(***************************************************************************)

Alike(x, y) == x.n = y.n /\ x.at = y.at /\ x.stage = y.stage

(* Two timelines alike but for what their steps are linked to. *)
AlikeAll(S, T) ==
    /\ \A x \in S : \E y \in T : Alike(x, y)
    /\ \A y \in T : \E x \in S : Alike(x, y)

LEMMA ExpireAlike ==
    ASSUME Shape, TInv, NEW e \in Emails, ExpireNeedsChoice(e), NEW a \in Apps
    PROVE  AlikeAll(timeline[a], timeline'[a]) /\ \A y, z \in timeline'[a] : y.n = z.n => y = z
<1>1. \A y, z \in timeline[a] : y.n = z.n => y = z
  BY DEF TInv, Timelines, Numbered
<1>2. CASE UNCHANGED timeline
  BY <1>1, <1>2 DEF AlikeAll, Alike
<1>3. CASE timeline' = [b \in Apps |-> {IF d.mail = e THEN [d EXCEPT !.mail = NoMail] ELSE d : d \in timeline[b]}]
  <2>. DEFINE let(d) == IF d.mail = e THEN [d EXCEPT !.mail = NoMail] ELSE d
  <2>1. timeline'[a] = {let(d) : d \in timeline[a]}
    BY <1>3
  <2>2. \A d \in timeline[a] : Alike(d, let(d))
    BY DEF Shape, StepFields, Alike
  <2>. HIDE DEF let
  <2>3. AlikeAll(timeline[a], timeline'[a])
    BY <2>1, <2>2 DEF AlikeAll
  <2>4. \A y, z \in timeline'[a] : y.n = z.n => y = z
    BY <1>1, <2>1, <2>2 DEF Alike
  <2>. QED BY <2>3, <2>4
<1>. QED BY <1>2, <1>3 DEF ExpireNeedsChoice

LEMMA ExpireTimed == ASSUME Shape, TInv, NEW e \in Emails, ExpireNeedsChoice(e) PROVE TInv'
<1>1. UNCHANGED <<clock, rows, calls, drift, redated>>
  BY DEF ExpireNeedsChoice
<1>2. \A f \in Emails : mails[f].status \notin Undecided => mails'[f].status \notin Undecided
  BY DEF ExpireNeedsChoice, Shape, Undecided
<1>3. clock \in Nat
  BY DEF TInv, Timed
<1>4. ASSUME NEW c \in Callers PROVE Moment(c)'
  <2>1. Moment(c) /\ CallOK(calls[c])
    BY DEF TInv, Timed, Shape
  <2>2. ASSUME calls[c].pc = "first", calls[c].app \notin redated, NEW x \in timeline'[calls[c].app] PROVE x.at # calls[c].now
    <3>1. calls[c].app \in Apps /\ \A y \in timeline[calls[c].app] : y.at # calls[c].now
      BY <2>1, <2>2 DEF Moment
    <3>2. PICK y \in timeline[calls[c].app] : Alike(y, x)
      BY <2>2, <3>1, ExpireAlike DEF AlikeAll
    <3>. QED BY <3>1, <3>2 DEF Alike
  <2>3. calls[c].pc \in {"create", "first"} /\ calls[c].mail # NoMail => mails'[calls[c].mail].status \notin Undecided
    BY <1>2, <2>1 DEF Moment, CallOK
  <2>. QED BY <1>1, <2>1, <2>2, <2>3 DEF Moment
<1>5. Timed'
  BY <1>1, <1>4 DEF TInv, Timed, Distinct
<1>6. ASSUME NEW a \in Apps PROVE Numbered(timeline[a])' /\ (~Here(a)' => timeline'[a] = {}) /\ Agrees(a)'
  <2>. PICK S : S = timeline[a]
    OBVIOUS
  <2>. PICK T : T = timeline'[a]
    OBVIOUS
  <2>1. Numbered(S) /\ (~Here(a) => S = {}) /\ Agrees(a)
    BY DEF TInv, Timelines
  <2>2. AlikeAll(S, T) /\ \A y, z \in T : y.n = z.n => y = z
    BY ExpireAlike
  <2>3. Numbered(timeline[a])'
    <3>1. PICK b \in Nat : \A x \in S : x.n <= b
      BY <2>1 DEF Numbered
    <3>2. \A y \in T : y.n \in Nat /\ y.at \in Nat \ {0} /\ y.at <= clock + Leeway /\ y.n <= b
      BY <2>1, <2>2, <3>1 DEF Numbered, AlikeAll, Alike
    <3>. QED BY <1>1, <2>2, <3>2 DEF Numbered
  <2>4. ~Here(a)' => T = {}
    BY <1>1, <2>1, <2>2 DEF Here, AlikeAll
  <2>5. NewRow(a) => NewRow(a)'
    BY <1>1, <2>2 DEF NewRow, Starting, AlikeAll
  <2>6. AtStage(S, rows[a].stage) # {} => AtStage(T, rows[a].stage) # {}
    BY <2>2 DEF AtStage, AlikeAll, Alike
  <2>7. Latest(AtStage(S, rows[a].stage), rows[a].changed) => Latest(AtStage(T, rows[a].stage), rows[a].changed)
    BY <2>2 DEF Latest, AtStage, AlikeAll, Alike
  <2>8. AppliedDated(a) => AppliedDated(a)'
    <3>. SUFFICES ASSUME rows[a].applied # 0, NEW x \in AppliedSteps(S), x.at = rows[a].applied
                  PROVE \E y \in AppliedSteps(T) : y.at = rows[a].applied
      BY <1>1 DEF AppliedDated, Starting
    <3>1. PICK y \in T : Alike(x, y)
      BY <2>2 DEF AppliedSteps, AlikeAll
    <3>. QED BY <3>1 DEF AppliedSteps, Alike
  <2>9. ASSUME NEW x, LastIn(S, x), x.stage = rows[a].stage PROVE \E y : LastIn(T, y) /\ y.stage = rows[a].stage
    <3>1. PICK y \in T : Alike(x, y)
      BY <2>2, <2>9 DEF LastIn, AlikeAll
    <3>2. ASSUME NEW z \in T, z # y PROVE Before(z, y)
      <4>1. PICK d \in S : Alike(d, z)
        BY <2>2 DEF AlikeAll
      <4>2. z.n # y.n
        BY <2>2, <3>2
      <4>3. d # x
        BY <3>1, <4>1, <4>2 DEF Alike
      <4>. QED BY <2>9, <3>1, <4>1, <4>3 DEF LastIn, Before, Alike
    <3>. QED BY <2>9, <3>1, <3>2 DEF LastIn, Alike
  <2>10. DatesAgree(a) => DatesAgree(a)'
    BY <1>1, <2>7, <2>8, <2>9 DEF DatesAgree
  <2>11. Fits(a) => Fits(a)'
    BY <1>1, <2>6, <2>10 DEF Fits, Dating
  <2>12. Agrees(a)'
    BY <1>1, <2>1, <2>5, <2>11 DEF Agrees, Here, Undoing
  <2>. QED BY <2>3, <2>4, <2>12
<1>. QED BY <1>5, <1>6 DEF TInv, Timelines

LEMMA InitTimed == ASSUME StagesAssumption, Init PROVE TInv
<1>1. Len(Tracked) \in Nat /\ DOMAIN Tracked = 1 .. Len(Tracked) /\ clock = Len(Tracked)
  <2>1. Tracked \in Seq(Jobs)
    BY StagesAssumption
  <2>2. Len(Tracked) \in Nat /\ DOMAIN Tracked = 1 .. Len(Tracked)
    BY <2>1
  <2>. QED BY <2>2 DEF Init
<1>2. ASSUME NEW c \in Callers PROVE calls[c].now = 0 /\ calls[c].pc = "idle"
  BY DEF Init, Idle
<1>3. Timed
  BY <1>1, <1>2 DEF Timed, Moment, Distinct, Stamped
<1>4. ASSUME NEW a \in Apps PROVE Numbered(timeline[a]) /\ (~Here(a) => timeline[a] = {}) /\ Agrees(a)
  <2>1. CASE a \notin DOMAIN Tracked
    <3>1. timeline[a] = {} /\ rows[a].life = "unused"
      BY <2>1 DEF Init, Unused
    <3>. QED BY <3>1 DEF Numbered, Agrees, Here
  <2>2. CASE a \in DOMAIN Tracked
    <3>. DEFINE e == [n |-> 1, stage |-> "saved", at |-> a, mail |-> NoMail]
    <3>1. timeline[a] = {e}
      BY <2>2 DEF Init
    <3>2. e.n = 1 /\ e.stage = "saved" /\ e.at = a
      OBVIOUS
    <3>. HIDE DEF e
    <3>3. rows[a].life = "here" /\ rows[a].stage = "saved" /\ rows[a].changed = a /\ rows[a].applied = 0
      BY <2>2 DEF Init, Unused
    <3>4. Numbered(timeline[a])
      BY <1>1, <2>2, <3>1, <3>2 DEF Numbered
    <3>5. AtStage(timeline[a], rows[a].stage) = {e}
      BY <3>1, <3>2, <3>3 DEF AtStage
    <3>6. Latest(AtStage(timeline[a], rows[a].stage), rows[a].changed)
      BY <1>1, <2>2, <3>2, <3>3, <3>5 DEF Latest
    <3>7. LastIn(timeline[a], e)
      BY <3>1 DEF LastIn
    <3>8. DatesAgree(a)
      BY <3>2, <3>3, <3>6, <3>7 DEF DatesAgree, AppliedDated, HasApplied
    <3>. QED BY <3>3, <3>4, <3>5, <3>8 DEF Agrees, Fits, Here
  <2>. QED BY <2>1, <2>2
<1>. QED BY <1>3, <1>4 DEF TInv, Timelines

LEMMA NextTimed == ASSUME IInv, TInv, [Next]_vars PROVE TInv'
<1>1. Shape
  BY DEF IInv
<1>2. CASE UNCHANGED vars
  BY <1>2 DEF vars, TInv, Timed, Moment, Distinct, Timelines, Numbered, Agrees, NewRow, Fits, DatesAgree, AppliedDated,
              AppliedSteps, Latest, LastIn, AtStage, Starting, Dating, Undoing, Here
<1>3. ASSUME NEW c \in Callers, PersonCall(c) PROVE TInv'
  <2>1. ASSUME NEW a \in Apps, NEW d \in timeline[a], NEW at \in 1 .. clock + 1 + Leeway, RedateStep(c, a, d, at) PROVE TInv'
    BY <1>1, <2>1, RedateStepTimed
  <2>. QED BY <1>1, <1>3, <2>1, TrackBeginsTimed, AddByHandTimed, DeleteRouteTimed, UpdateBeginsTimed, FindJobTimed, MoveToStageTimed,
              SetStageDateTimed, CreateApplicationTimed, FirstStepTimed, UnsaveTimed, UnmarkReadsTimed, UnmarkWritesTimed,
              ReadsTimed, WriteDatesTimed DEF PersonCall
<1>4. ASSUME NEW c \in Callers, EmailCall(c) PROVE TInv'
  <2>1. ASSUME NEW e \in Emails, EmailArrives(c, e) \/ DismissBegins(c, e) PROVE TInv'
    BY <1>1, <2>1, EmailBeginsTimed
  <2>2. ASSUME NEW e \in Emails, NEW S, AssignBegins(c, e, S) \/ UndoBegins(c, e, S) PROVE TInv'
    BY <1>1, <2>2, EmailBeginsTimed
  <2>. QED BY <1>1, <1>4, <2>1, <2>2, FileEmailTimed, EmailStepTimed, SetStageDateFromEmailTimed, MailEndsTimed, AssignEmailTimed,
              UndoDeletesTimed, ReadsTimed, UndoWritesTimed DEF EmailCall
<1>. QED BY <1>1, <1>2, <1>3, <1>4, DiesTimed, ExpireTimed DEF Next

LEMMA SpecTInv == Spec => []TInv
BY StagesAssumption, SpecIInv, InitTimed, NextTimed, PTL DEF Spec

(* "The stage, the applied date and the timeline can't drift apart"        *)
(* (applications.ts:13-15): an application nobody is writing is at a stage *)
(* of its timeline, since that stage's last step, with an applied date     *)
(* when and only when it is past Saved, which is a step's, and its stage   *)
(* is its last step's unless a step was dated anew.                        *)
THEOREM TimelinesAgree == Spec => []TimelineAgrees
<1>1. ASSUME TInv PROVE TimelineAgrees
  <2>. SUFFICES ASSUME NEW a \in Apps, Here(a), Quiet(a), a \notin drift
                PROVE  LET row == rows[a]
                           ofStage == {e \in timeline[a] : e.stage = row.stage}
                       IN  /\ ofStage # {} /\ LastOf(ofStage).at = row.changed
                           /\ (row.applied = 0) = ~HasApplied(row.stage)
                           /\ row.applied # 0 => \E e \in AppliedSteps(timeline[a]) : e.at = row.applied
                           /\ a \notin redated => LastOf(timeline[a]).stage = row.stage
    BY DEF TimelineAgrees
  <2>. DEFINE S == AtStage(timeline[a], rows[a].stage)
  <2>1. clock \in Nat /\ Numbered(timeline[a])
    BY <1>1 DEF TInv, Timed, Timelines
  <2>2. ~Undoing(a) /\ ~Dating(a) /\ \A c \in Callers : ~Starting(c, a)
    BY DEF Quiet, Undoing, Dating, Starting
  <2>3. S # {} /\ DatesAgree(a)
    BY <1>1, <2>2 DEF TInv, Agrees, NewRow, Fits
  <2>4. LastIn(S, LastOf(S))
    <3>1. S \subseteq timeline[a]
      BY DEF AtStage
    <3>2. \A d, e \in S : d.n = e.n => d = e
      BY <2>1, <3>1 DEF Numbered
    <3>3. Numbered(S)
      BY <2>1, <3>1, <3>2 DEF Numbered
    <3>. HIDE DEF S
    <3>. QED BY <2>1, <2>3, <3>3, LastExists
  <2>5. LastOf(S).at = rows[a].changed
    <3>1. PICK x \in S : x.at = rows[a].changed /\ \A d \in S : d.at <= rows[a].changed
      BY <2>3 DEF DatesAgree, Latest
    <3>2. \A d \in S : d.at \in Nat
      BY <2>1 DEF Numbered, AtStage
    <3>. HIDE DEF S
    <3>3. LastOf(S) \in S /\ (x = LastOf(S) \/ x.at <= LastOf(S).at)
      BY <2>4, <3>1, <3>2 DEF LastIn, Before
    <3>. QED BY <3>1, <3>2, <3>3
  <2>6. rows[a].applied # 0 => \E e \in AppliedSteps(timeline[a]) : e.at = rows[a].applied
    BY <2>2, <2>3 DEF DatesAgree, AppliedDated
  <2>7. a \notin redated => LastOf(timeline[a]).stage = rows[a].stage
    <3>. SUFFICES ASSUME a \notin redated PROVE LastOf(timeline[a]).stage = rows[a].stage
      OBVIOUS
    <3>1. PICK e : LastIn(timeline[a], e) /\ e.stage = rows[a].stage
      BY <2>3 DEF DatesAgree
    <3>2. LastIn(timeline[a], LastOf(timeline[a]))
      BY <2>1, <3>1, LastExists DEF LastIn
    <3>3. e = LastOf(timeline[a])
      BY <2>1, <3>1, <3>2 DEF LastIn, Before, Numbered
    <3>. QED BY <3>1, <3>3
  <2>8. (rows[a].applied = 0) = ~HasApplied(rows[a].stage)
    BY <2>3 DEF DatesAgree, HasApplied
  <2>. QED BY <2>3, <2>5, <2>6, <2>7, <2>8 DEF AtStage
<1>. QED BY <1>1, SpecTInv, PTL

(***************************************************************************)
(* The values of the state: TypeInv, which adds to TypeOK what a call      *)
(* holds.                                                                  *)
(***************************************************************************)

(* TypeOK's Rows and Steps, by the latest `now`. *)
RowsAt(k) == [life : {"unused", "here", "gone"}, job : Jobs \cup {NoJob}, stage : Stages,
              changed : 0 .. k + Leeway, applied : 0 .. k + Leeway, date : {"none", "person", "email"}]
StepsAt(k) == [n : Nat, stage : Stages, at : 1 .. k + Leeway, mail : Emails \cup {NoMail}]

(* Rowids are numbers, one for each step, with a largest. *)
Rowids(T) == (\A d, e \in T : d.n = e.n => d = e) /\ \E b \in Nat : \A e \in T : e.n <= b

CallTyped(m, k) ==
    /\ m.now \in 0 .. k /\ m.app \in Apps \cup {NoApp} /\ m.job \in Jobs \cup {NoJob} /\ m.to \in Stages
    /\ m.row \in RowsAt(k) /\ m.read \in SUBSET StepsAt(k) /\ Rowids(m.read) /\ m.left \in SUBSET Apps
    /\ m.pc \in {"unmark", "unmarkwrite", "first", "redated", "dates", "undoread", "undowrite"} => m.app \in Apps
    /\ m.pc \in {"dismiss", "undo", "undoread", "undowrite"} => m.mail \in Emails

RowsTyped == rows \in [Apps -> RowsAt(clock)]
StepsTyped == timeline \in [Apps -> SUBSET StepsAt(clock)]
MailsTyped ==
    mails \in [Emails -> [status : {"none", "applied", "created", "unchanged", "needs_choice",
                                    "assigned", "dismissed", "undone"},
                          candidates : SUBSET Apps]]
GhostsTyped == deaths \in 0 .. MaxDeaths /\ drift \subseteq Apps /\ redated \subseteq Apps /\ twice \subseteq Emails
TypeInv == RowsTyped /\ StepsTyped /\ MailsTyped /\ GhostsTyped /\ \A c \in Callers : CallTyped(calls[c], clock)

LEMMA TypesGrow ==
    ASSUME NEW k \in Nat, NEW l \in Nat, k <= l
    PROVE  /\ RowsAt(k) \subseteq RowsAt(l) /\ StepsAt(k) \subseteq StepsAt(l)
           /\ \A m : CallTyped(m, k) => CallTyped(m, l)
<1>0. 0 .. k \subseteq 0 .. l
  OBVIOUS
<1>1. 0 .. k + Leeway \subseteq 0 .. l + Leeway /\ 1 .. k + Leeway \subseteq 1 .. l + Leeway
  BY LeewayNat
<1>2. RowsAt(k) \subseteq RowsAt(l) /\ StepsAt(k) \subseteq StepsAt(l)
  BY <1>1 DEF RowsAt, StepsAt
<1>. QED BY <1>0, <1>2 DEF CallTyped

LEMMA IdleTyped == ASSUME StagesAssumption, NEW k \in Nat PROVE CallTyped(Idle, k) /\ Unused \in RowsAt(k) /\ Gone \in RowsAt(k)
<1>1. "saved" \in Stages
  BY DEF Stages, Order
<1>2. Unused \in RowsAt(k) /\ Gone \in RowsAt(k)
  BY <1>1, LeewayNat DEF Unused, Gone, RowsAt
<1>. QED BY <1>1, <1>2 DEF CallTyped, Idle, Rowids

(* A step of one call keeps the types where what it writes has them. *)
LEMMA TypesKept ==
    ASSUME Shape, TypeInv, clock \in Nat, clock' \in {clock, clock + 1}, NEW c \in Callers, NEW r, Goes(c, r), CallTyped(r, clock'),
           UNCHANGED rows \/ RowsTyped', UNCHANGED timeline \/ StepsTyped', UNCHANGED mails \/ MailsTyped', GhostsTyped'
    PROVE  TypeInv'
<1>1. clock' \in Nat /\ clock <= clock'
  OBVIOUS
<1>2. RowsAt(clock) \subseteq RowsAt(clock') /\ StepsAt(clock) \subseteq StepsAt(clock')
  BY <1>1, TypesGrow
<1>3. RowsTyped'
  BY <1>2 DEF RowsTyped, TypeInv
<1>4. StepsTyped'
  BY <1>2 DEF StepsTyped, TypeInv
<1>5. MailsTyped'
  BY DEF MailsTyped, TypeInv
<1>6. ASSUME NEW d \in Callers PROVE CallTyped(calls'[d], clock')
  <2>1. CASE d = c
    BY <2>1, GoesTo
  <2>2. CASE d # c
    <3>1. calls'[d] = calls[d] /\ CallTyped(calls[d], clock)
      BY <2>2, GoesTo DEF TypeInv
    <3>. QED BY <1>1, <3>1, TypesGrow
  <2>. QED BY <2>1, <2>2
<1>. QED BY <1>3, <1>4, <1>5, <1>6 DEF TypeInv

(* What a call's steps make of rows and steps. *)
LEMMA MovedTyped ==
    ASSUME NEW k \in Nat, NEW r \in RowsAt(k), NEW s \in Stages, NEW now \in 0 .. k
    PROVE  MovedRow(r, s, now) \in RowsAt(k)
<1>. DEFINE first == IF ~HasApplied(s) THEN 0 ELSE IF r.applied = 0 THEN now ELSE r.applied
<1>0. now \in 0 .. k + Leeway /\ 0 \in 0 .. k + Leeway
  BY LeewayNat
<1>1. first \in 0 .. k + Leeway
  BY <1>0 DEF RowsAt
<1>2. MovedRow(r, s, now) = [r EXCEPT !.stage = s, !.changed = now, !.date = "none", !.applied = first]
  BY DEF MovedRow
<1>. HIDE DEF first
<1>. QED BY <1>0, <1>1, <1>2 DEF RowsAt

LEMMA NewStepTyped ==
    ASSUME TInv, NEW a \in Apps, NEW s \in Stages, NEW at \in 1 .. clock, NEW mail \in Emails \cup {NoMail}
    PROVE  NewStep(a, s, at, mail) \in StepsAt(clock)
<1>1. NewStep(a, s, at, mail).n \in Nat
  BY NewStepNumber DEF TInv, Timelines
<1>2. at \in 1 .. clock + Leeway
  BY LeewayNat DEF TInv, Timed
<1>. QED BY <1>1, <1>2 DEF NewStep, StepsAt

LEMMA WriteMoveTyped ==
    ASSUME TInv, TypeInv, NEW a \in Apps, NEW s \in Stages, NEW now \in 1 .. clock, NEW mail \in Emails \cup {NoMail},
           WriteMove(a, s, now, mail), UNCHANGED clock
    PROVE  RowsTyped' /\ StepsTyped' /\ drift' \subseteq Apps
<1>1. clock \in Nat
  BY DEF TInv, Timed
<1>2. rows[a] \in RowsAt(clock) /\ timeline[a] \in SUBSET StepsAt(clock)
  BY DEF TypeInv, RowsTyped, StepsTyped
<1>3. MovedRow(rows[a], s, now) \in RowsAt(clock)
  <2>1. now \in 0 .. clock
    BY <1>1
  <2>. QED BY <1>1, <1>2, <2>1, MovedTyped
<1>4. NewStep(a, s, now, mail) \in StepsAt(clock)
  BY NewStepTyped
<1>5. RowsTyped'
  BY <1>3 DEF TypeInv, RowsTyped, WriteMove
<1>6. StepsTyped'
  BY <1>2, <1>4 DEF TypeInv, StepsTyped, WriteMove
<1>. QED BY <1>5, <1>6 DEF WriteMove, TypeInv, GhostsTyped

(* The steps of a timeline that was read, by its own rowids. *)
LEMMA ReadNumbered ==
    ASSUME clock \in Nat, NEW T \in SUBSET StepsAt(clock), Rowids(T), NEW S, S \subseteq T
    PROVE  Numbered(S) /\ Rowids(S)
<1>1. \A e \in S : e.n \in Nat /\ e.at \in Nat \ {0} /\ e.at <= clock + Leeway
  BY LeewayNat DEF StepsAt
<1>. QED BY <1>1 DEF Numbered, Rowids

LEMMA ReadDates ==
    ASSUME clock \in Nat, NEW T \in SUBSET StepsAt(clock), Rowids(T), NEW S, S \subseteq T, S # {}
    PROVE  /\ LastOf(S) \in S /\ LastOf(S).at \in 0 .. clock + Leeway /\ LastOf(S).stage \in Stages
           /\ FirstOf(S).at \in 0 .. clock + Leeway
<1>1. LastOf(S) \in S /\ FirstOf(S) \in S
  BY ReadNumbered, LastExists, FirstExists DEF LastIn
<1>. QED BY <1>1, LeewayNat DEF StepsAt

LEMMA Held ==
    ASSUME IInv, TInv, TypeInv, NEW c \in Callers
    PROVE  /\ Shape /\ clock \in Nat /\ CallTyped(calls[c], clock) /\ CallOK(calls[c]) /\ Moment(c)
           /\ DOMAIN calls[c] = CallFields /\ RowsTyped /\ StepsTyped /\ MailsTyped /\ GhostsTyped
BY DEF IInv, TInv, Timed, TypeInv, Shape, CallOK

LEMMA BeginsTypes ==
    ASSUME IInv, TInv, TypeInv, NEW c \in Callers, NEW r, Begins(c, r), CallTyped(r, clock + 1)
    PROVE  TypeInv'
<1>1. GhostsTyped' /\ clock' = clock + 1 /\ Goes(c, r) /\ UNCHANGED <<rows, timeline, mails>>
  BY Held DEF Begins, GhostsTyped
<1>. QED BY <1>1, Held, TypesKept

LEMMA BeginTypes ==
    ASSUME StagesAssumption, IInv, TInv, TypeInv, NEW c \in Callers,
           \/ \E kind \in {"track", "save", "unsave", "mark", "unmark"}, j \in Jobs, s \in Picks : TrackBegins(c, kind, j, s)
           \/ \E s \in Picks : AddByHand(c, s)
           \/ \E a \in Apps, date \in {"keep", "person", "none"} :
                \E s \in Picks \cup {rows[a].stage} : UpdateBegins(c, a, s, date)
           \/ \E e \in Emails : EmailArrives(c, e) \/ DismissBegins(c, e)
           \/ \E e \in Emails : \E S \in SUBSET Apps : AssignBegins(c, e, S) \/ UndoBegins(c, e, S)
    PROVE  TypeInv'
<1>1. clock \in Nat /\ CallTyped(Idle, clock + 1)
  BY Held, IdleTyped
<1>2. Picks \subseteq Stages /\ {"saved", "applied"} \subseteq Stages /\ \A e \in Emails : Reports[e] \in Stages
  <2>1. {"saved", "applied", "assessment", "interview", "offer", "rejected"} \subseteq Stages
    BY DEF Stages, Order
  <2>. QED BY <2>1 DEF StagesAssumption
<1>3. ASSUME NEW kind, NEW j \in Jobs, NEW s \in Picks, TrackBegins(c, kind, j, s) PROVE TypeInv'
  <2>. DEFINE r == [Idle EXCEPT !.pc = "find", !.now = clock + 1, !.kind = kind, !.job = j, !.to = s]
  <2>1. s \in Stages /\ Begins(c, r)
    BY <1>2, <1>3 DEF TrackBegins
  <2>2. CallTyped(r, clock + 1)
    BY <1>1, <2>1 DEF CallTyped, Idle
  <2>. QED BY <2>1, <2>2, BeginsTypes
<1>4. ASSUME NEW s \in Picks, AddByHand(c, s) PROVE TypeInv'
  <2>. DEFINE r == [Idle EXCEPT !.pc = "create", !.now = clock + 1, !.to = s]
  <2>1. s \in Stages /\ Begins(c, r)
    BY <1>2, <1>4 DEF AddByHand
  <2>2. CallTyped(r, clock + 1)
    BY <1>1, <2>1 DEF CallTyped, Idle
  <2>. QED BY <2>1, <2>2, BeginsTypes
<1>5. ASSUME NEW a \in Apps, NEW date, NEW s \in Picks \cup {rows[a].stage}, UpdateBegins(c, a, s, date) PROVE TypeInv'
  <2>. DEFINE r == [Idle EXCEPT !.pc = "move", !.now = clock + 1, !.app = a, !.row = rows[a], !.to = s, !.date = date]
  <2>1. rows[a] \in RowsAt(clock + 1) /\ rows[a].stage \in Stages
    <3>1. rows[a] \in RowsAt(clock)
      BY DEF TypeInv, RowsTyped
    <3>2. RowsAt(clock) \subseteq RowsAt(clock + 1)
      BY <1>1, TypesGrow
    <3>. QED BY <3>1, <3>2 DEF RowsAt
  <2>2. s \in Stages /\ Begins(c, r)
    BY <1>2, <1>5, <2>1 DEF UpdateBegins
  <2>3. CallTyped(r, clock + 1)
    BY <1>1, <2>1, <2>2 DEF CallTyped, Idle
  <2>. QED BY <2>2, <2>3, BeginsTypes
<1>6. ASSUME NEW e \in Emails, EmailArrives(c, e) PROVE TypeInv'
  <2>. DEFINE r == [Idle EXCEPT !.pc = "read", !.now = clock + 1, !.mail = e, !.to = Reports[e]]
  <2>1. Reports[e] \in Stages /\ Begins(c, r)
    BY <1>2, <1>6 DEF EmailArrives
  <2>2. CallTyped(r, clock + 1)
    BY <1>1, <2>1 DEF CallTyped, Idle
  <2>. QED BY <2>1, <2>2, BeginsTypes
<1>7. ASSUME NEW e \in Emails, DismissBegins(c, e) PROVE TypeInv'
  <2>. DEFINE r == [Idle EXCEPT !.pc = "dismiss", !.mail = e]
  <2>1. Begins(c, r)
    BY <1>7 DEF DismissBegins
  <2>2. CallTyped(r, clock + 1)
    BY <1>1 DEF CallTyped, Idle
  <2>. QED BY <2>1, <2>2, BeginsTypes
<1>8. ASSUME NEW e \in Emails, NEW S \in SUBSET Apps, AssignBegins(c, e, S) PROVE TypeInv'
  <2>. DEFINE r == [Idle EXCEPT !.pc = "assign", !.mail = e, !.to = Reports[e], !.left = S]
  <2>1. Reports[e] \in Stages /\ Begins(c, r)
    BY <1>2, <1>8 DEF AssignBegins
  <2>2. CallTyped(r, clock + 1)
    BY <1>1, <2>1 DEF CallTyped, Idle
  <2>. QED BY <2>1, <2>2, BeginsTypes
<1>9. ASSUME NEW e \in Emails, NEW S \in SUBSET Apps, UndoBegins(c, e, S) PROVE TypeInv'
  <2>. DEFINE r == [Idle EXCEPT !.pc = "undo", !.mail = e, !.left = S, !.more = S # Linked(e)]
  <2>1. Begins(c, r)
    BY <1>9 DEF UndoBegins
  <2>2. CallTyped(r, clock + 1)
    BY <1>1 DEF CallTyped, Idle
  <2>. QED BY <2>1, <2>2, BeginsTypes
<1>. QED BY <1>3, <1>4, <1>5, <1>6, <1>7, <1>8, <1>9

(* Steps of a call that write nothing but where it goes. *)
LEMMA ReadsTypes ==
    ASSUME StagesAssumption, IInv, TInv, TypeInv, NEW c \in Callers,
           FindJob(c) \/ UnmarkReads(c) \/ ReadTimeline(c) \/ UndoReads(c)
    PROVE  TypeInv'
<1>. DEFINE m == calls[c]
<1>0. clock \in Nat /\ CallTyped(m, clock) /\ DOMAIN m = CallFields /\ CallTyped(Idle, clock)
  BY Held, IdleTyped
<1>1. GhostsTyped' /\ UNCHANGED <<clock, rows, timeline, mails>>
  BY Held DEF GhostsTyped, FindJob, UnmarkReads, ReadTimeline, UndoReads
<1>2. ASSUME NEW r, Goes(c, r), CallTyped(r, clock) PROVE TypeInv'
  BY <1>0, <1>1, <1>2, Held, TypesKept
<1>3. ASSUME FindJob(c) PROVE TypeInv'
  <2>1. CASE Goes(c, [m EXCEPT !.pc = "create"])
    <3>1. CallTyped([m EXCEPT !.pc = "create"], clock)
      BY <1>0 DEF CallTyped, CallFields
    <3>. QED BY <1>2, <2>1, <3>1
  <2>2. CASE Ends(c)
    BY <1>0, <1>2, <2>2 DEF Ends
  <2>3. ASSUME NEW a \in Apps, NEW pc \in {"move", "delete", "unmark"},
               Goes(c, [[m EXCEPT !.app = a, !.row = rows[a]] EXCEPT !.pc = pc])
        PROVE  TypeInv'
    <3>1. rows[a] \in RowsAt(clock)
      BY DEF TypeInv, RowsTyped
    <3>2. CallTyped([[m EXCEPT !.app = a, !.row = rows[a]] EXCEPT !.pc = pc], clock)
      BY <1>0, <3>1 DEF CallTyped, CallFields
    <3>. QED BY <1>2, <2>3, <3>2
  <2>. QED BY <1>3, <2>1, <2>2, <2>3 DEF FindJob
<1>4. ASSUME UnmarkReads(c) PROVE TypeInv'
  <2>1. m.pc = "unmark" /\ m.app \in Apps
    BY <1>0, <1>4 DEF UnmarkReads, CallTyped
  <2>2. CallTyped([m EXCEPT !.pc = "delete"], clock)
    BY <1>0 DEF CallTyped, CallFields
  <2>3. ASSUME NEW e \in timeline[m.app] PROVE CallTyped([m EXCEPT !.pc = "unmarkwrite", !.read = {e}], clock)
    <3>1. {e} \in SUBSET StepsAt(clock)
      BY <2>1 DEF TypeInv, StepsTyped
    <3>2. Rowids({e})
      <4>1. e.n \in Nat
        BY <3>1 DEF StepsAt
      <4>. QED BY <4>1 DEF Rowids
    <3>. QED BY <1>0, <2>1, <3>1, <3>2 DEF CallTyped, CallFields
  <2>. QED BY <1>2, <1>4, <2>2, <2>3 DEF UnmarkReads
<1>5. ASSUME NEW pc \in {"dates", "undowrite"}, m.pc \in {"redated", "undoread"}, pc = "undowrite" => m.pc = "undoread",
             Goes(c, [m EXCEPT !.pc = pc, !.read = timeline[m.app]])
      PROVE  TypeInv'
  <2>1. m.app \in Apps
    BY <1>0, <1>5 DEF CallTyped
  <2>2. timeline[m.app] \in SUBSET StepsAt(clock) /\ Rowids(timeline[m.app])
    BY <2>1 DEF TypeInv, StepsTyped, TInv, Timelines, Numbered, Rowids
  <2>3. CallTyped([m EXCEPT !.pc = pc, !.read = timeline[m.app]], clock)
    BY <1>0, <1>5, <2>1, <2>2 DEF CallTyped, CallFields
  <2>. QED BY <1>2, <1>5, <2>3
<1>. QED BY <1>3, <1>4, <1>5 DEF ReadTimeline, UndoReads

LEMMA MoveTypes == ASSUME StagesAssumption, IInv, TInv, TypeInv, NEW c \in Callers, MoveToStage(c) PROVE TypeInv'
<1>. DEFINE m == calls[c]
            on == IF m.date = "keep" THEN Idle ELSE [m EXCEPT !.pc = "date"]
<1>0. /\ clock \in Nat /\ CallTyped(m, clock) /\ DOMAIN m = CallFields /\ CallTyped(Idle, clock)
      /\ m.pc = "move" /\ m.now \in 1 .. clock /\ GhostsTyped
      /\ UNCHANGED <<clock, mails, deaths, redated, twice>>
  BY Held, IdleTyped DEF MoveToStage, Moment, Stamped, CallTyped
<1>1. CallTyped(on, clock)
  BY <1>0 DEF CallTyped, CallFields
<1>2. CASE UNCHANGED <<rows, timeline, drift>> /\ (Goes(c, on) \/ Ends(c))
  <2>1. GhostsTyped'
    BY <1>0, <1>2 DEF GhostsTyped
  <2>. QED BY <1>0, <1>1, <1>2, <2>1, Held, TypesKept DEF Ends
<1>3. CASE CanRecord(m.app, NoMail) /\ WriteMove(m.app, m.to, m.now, NoMail) /\ Goes(c, on)
  <2>1. m.app \in Apps /\ m.to \in Stages
    BY <1>0, <1>3 DEF CanRecord, Here, CallTyped
  <2>2. RowsTyped' /\ StepsTyped' /\ drift' \subseteq Apps
    BY <1>0, <1>3, <2>1, WriteMoveTyped
  <2>3. GhostsTyped'
    BY <1>0, <2>2 DEF GhostsTyped
  <2>. QED BY <1>0, <1>1, <1>3, <2>2, <2>3, Held, TypesKept
<1>. QED BY <1>2, <1>3 DEF MoveToStage

LEMMA SetStageDateTypes == ASSUME StagesAssumption, IInv, TInv, TypeInv, NEW c \in Callers, SetStageDate(c) PROVE TypeInv'
<1>. DEFINE m == calls[c]
<1>0. /\ clock \in Nat /\ CallTyped(Idle, clock) /\ Ends(c) /\ m.date \in {"none", "person"}
      /\ UNCHANGED <<clock, timeline, mails, deaths, redated, twice>> /\ GhostsTyped /\ RowsTyped
  BY Held, IdleTyped DEF SetStageDate, CallOK
<1>1. RowsTyped'
  <2>1. CASE Here(m.app)
    <3>1. m.app \in Apps /\ rows[m.app] \in RowsAt(clock)
      BY <1>0, <2>1 DEF Here, RowsTyped
    <3>2. [rows[m.app] EXCEPT !.date = m.date] \in RowsAt(clock)
      BY <1>0, <3>1 DEF RowsAt
    <3>. QED BY <1>0, <2>1, <3>1, <3>2 DEF SetStageDate, RowsTyped
  <2>. QED BY <1>0, <2>1 DEF SetStageDate, RowsTyped
<1>2. GhostsTyped'
  BY <1>0 DEF SetStageDate, GhostsTyped, Here
<1>. QED BY <1>0, <1>1, <1>2, Held, TypesKept DEF Ends

LEMMA CreateTypes == ASSUME StagesAssumption, IInv, TInv, TypeInv, NEW c \in Callers, CreateApplication(c) PROVE TypeInv'
<1>. DEFINE m == calls[c]
<1>0. /\ clock \in Nat /\ CallTyped(m, clock) /\ DOMAIN m = CallFields /\ CallTyped(Idle, clock) /\ Unused \in RowsAt(clock)
      /\ UNCHANGED <<clock, timeline, mails, deaths, drift, redated, twice>> /\ RowsTyped /\ GhostsTyped
  BY Held, IdleTyped DEF CreateApplication
<1>1. GhostsTyped'
  BY <1>0 DEF GhostsTyped
<1>2. ASSUME NEW r, Goes(c, r), CallTyped(r, clock), UNCHANGED rows \/ RowsTyped' PROVE TypeInv'
  BY <1>0, <1>1, <1>2, Held, TypesKept
<1>3. CASE UNCHANGED rows /\ IF m.mail = NoMail THEN Ends(c) ELSE Goes(c, [m EXCEPT !.pc = "nothing"])
  <2>1. CallTyped([m EXCEPT !.pc = "nothing"], clock)
    BY <1>0 DEF CallTyped, CallFields
  <2>. QED BY <1>0, <1>2, <1>3, <2>1 DEF Ends
<1>4. ASSUME NEW a \in Apps, Goes(c, [m EXCEPT !.pc = "first", !.app = a]),
             rows' = [rows EXCEPT ![a] = MovedRow([Unused EXCEPT !.life = "here", !.job = m.job], m.to, m.now)]
      PROVE  TypeInv'
  <2>1. CallTyped([m EXCEPT !.pc = "first", !.app = a], clock)
    BY <1>0 DEF CallTyped, CallFields
  <2>2. [Unused EXCEPT !.life = "here", !.job = m.job] \in RowsAt(clock)
    BY <1>0 DEF CallTyped, RowsAt
  <2>3. MovedRow([Unused EXCEPT !.life = "here", !.job = m.job], m.to, m.now) \in RowsAt(clock)
    <3>1. m.to \in Stages /\ m.now \in 0 .. clock
      BY <1>0 DEF CallTyped
    <3>. QED BY <1>0, <2>2, <3>1, MovedTyped
  <2>4. RowsTyped'
    BY <1>0, <1>4, <2>3 DEF RowsTyped
  <2>. QED BY <1>2, <1>4, <2>1, <2>4
<1>. QED BY <1>3, <1>4 DEF CreateApplication

LEMMA FirstTypes == ASSUME StagesAssumption, IInv, TInv, TypeInv, NEW c \in Callers, FirstStep(c) PROVE TypeInv'
<1>. DEFINE m == calls[c]
<1>0. /\ clock \in Nat /\ CallTyped(m, clock) /\ DOMAIN m = CallFields /\ CallTyped(Idle, clock)
      /\ m.pc = "first" /\ m.now \in 1 .. clock /\ m.to \in Stages /\ m.mail \in Emails \cup {NoMail} /\ GhostsTyped /\ StepsTyped
      /\ UNCHANGED <<clock, rows, mails, deaths, redated>>
  BY Held, IdleTyped DEF FirstStep, Moment, Stamped, CallTyped, CallOK
<1>1. CASE CanRecord(m.app, m.mail)
  <2>1. m.app \in Apps
    BY <1>1 DEF CanRecord, Here
  <2>2. NewStep(m.app, m.to, m.now, m.mail) \in StepsAt(clock)
    BY <1>0, <2>1, NewStepTyped
  <2>3. StepsTyped'
    BY <1>0, <1>1, <2>1, <2>2 DEF FirstStep, StepsTyped
  <2>4. GhostsTyped'
    BY <1>0, <1>1, <2>1 DEF FirstStep, GhostsTyped, LandsFor
  <2>5. CallTyped([m EXCEPT !.pc = "emaildate"], clock)
    BY <1>0 DEF CallTyped, CallFields
  <2>. QED BY <1>0, <1>1, <2>3, <2>4, <2>5, Held, TypesKept DEF FirstStep
<1>2. CASE ~CanRecord(m.app, m.mail)
  <2>1. GhostsTyped' /\ UNCHANGED timeline /\ Ends(c)
    BY <1>0, <1>2 DEF FirstStep, GhostsTyped
  <2>. QED BY <1>0, <2>1, Held, TypesKept DEF Ends
<1>. QED BY <1>1, <1>2

LEMMA DeleteTyped ==
    ASSUME StagesAssumption, clock \in Nat, RowsTyped, StepsTyped, NEW a, DeleteApplication(a), clock' \in {clock, clock + 1}
    PROVE  RowsTyped' /\ StepsTyped'
<1>1. Gone \in RowsAt(clock) /\ RowsAt(clock) \subseteq RowsAt(clock') /\ StepsAt(clock) \subseteq StepsAt(clock')
  BY IdleTyped, TypesGrow
<1>2. rows' \in [Apps -> RowsAt(clock)]
  BY <1>1 DEF DeleteApplication, RowsTyped
<1>3. timeline' \in [Apps -> SUBSET StepsAt(clock)]
  BY DEF DeleteApplication, StepsTyped
<1>. QED BY <1>1, <1>2, <1>3 DEF RowsTyped, StepsTyped

LEMMA DeletesTypes ==
    ASSUME StagesAssumption, IInv, TInv, TypeInv, NEW c \in Callers,
           Unsave(c) \/ \E a \in Apps : DeleteRoute(c, a)
    PROVE  TypeInv'
<1>1. clock \in Nat /\ clock' \in {clock, clock + 1} /\ RowsTyped /\ StepsTyped /\ CallTyped(Idle, clock') /\ GhostsTyped /\ Shape
  <2>1. clock \in Nat /\ clock' \in {clock, clock + 1}
    BY Held DEF Unsave, DeleteRoute
  <2>. QED BY <2>1, Held, IdleTyped, TypesGrow
<1>2. RowsTyped' /\ StepsTyped'
  BY <1>1, DeleteTyped DEF Unsave, DeleteRoute
<1>3. UNCHANGED mails /\ GhostsTyped'
  BY <1>1 DEF Unsave, DeleteRoute, GhostsTyped
<1>4. CASE Unsave(c)
  <2>1. Goes(c, Idle)
    BY <1>4 DEF Unsave, Ends
  <2>. QED BY <1>1, <1>2, <1>3, <2>1, TypesKept
<1>5. CASE UNCHANGED calls
  <2>1. ASSUME NEW d \in Callers PROVE CallTyped(calls[d], clock')
    BY <1>1, TypesGrow DEF TypeInv
  <2>. QED BY <1>2, <1>3, <1>5, <2>1 DEF TypeInv, MailsTyped
<1>. QED BY <1>4, <1>5 DEF DeleteRoute

LEMMA UnmarkTypes == ASSUME StagesAssumption, IInv, TInv, TypeInv, NEW c \in Callers, UnmarkWrites(c) PROVE TypeInv'
<1>. DEFINE m == calls[c]
<1>0. /\ clock \in Nat /\ CallTyped(m, clock) /\ CallTyped(Idle, clock) /\ Ends(c) /\ m.pc = "unmarkwrite"
      /\ RowsTyped /\ StepsTyped /\ GhostsTyped /\ UNCHANGED <<clock, mails, deaths, redated, twice>>
  BY Held, IdleTyped DEF UnmarkWrites
<1>. DEFINE saved == CHOOSE e \in m.read : TRUE
<1>1. saved.at \in 0 .. clock + Leeway /\ m.app \in Apps /\ "saved" \in Stages
  <2>1. PICK e : m.read = {e}
    BY <1>0, Held DEF Moment
  <2>2. saved \in StepsAt(clock)
    BY <1>0, <2>1 DEF CallTyped
  <2>. QED BY <1>0, <2>2, LeewayNat DEF StepsAt, CallTyped, Stages, Order
<1>2. /\ timeline' = [timeline EXCEPT ![m.app] = {e \in timeline[m.app] : e.n = saved.n \/ e.at < saved.at}]
      /\ rows' = IF Here(m.app)
                 THEN [rows EXCEPT ![m.app] = [@ EXCEPT !.stage = "saved", !.applied = 0, !.date = "none", !.changed = saved.at]]
                 ELSE rows
      /\ drift' = IF saved \in timeline[m.app] THEN drift ELSE drift \cup {m.app}
  BY DEF UnmarkWrites
<1>. HIDE DEF saved
<1>3. StepsTyped'
  BY <1>0, <1>1, <1>2 DEF StepsTyped
<1>4. RowsTyped'
  <2>1. rows[m.app] \in RowsAt(clock)
    BY <1>0, <1>1 DEF RowsTyped
  <2>2. [rows[m.app] EXCEPT !.stage = "saved", !.applied = 0, !.date = "none", !.changed = saved.at] \in RowsAt(clock)
    <3>1. 0 \in 0 .. clock + Leeway
      BY <1>0, LeewayNat
    <3>. QED BY <1>1, <2>1, <3>1 DEF RowsAt
  <2>. QED BY <1>0, <1>1, <1>2, <2>2 DEF RowsTyped
<1>5. GhostsTyped'
  BY <1>0, <1>1, <1>2 DEF GhostsTyped
<1>. QED BY <1>0, <1>3, <1>4, <1>5, Held, TypesKept DEF Ends

LEMMA RedateTypes ==
    ASSUME StagesAssumption, IInv, TInv, TypeInv, NEW c \in Callers, NEW a \in Apps, NEW e \in timeline[a],
           NEW at \in 1 .. clock + 1 + Leeway, RedateStep(c, a, e, at)
    PROVE  TypeInv'
<1>. DEFINE r == [Idle EXCEPT !.pc = "redated", !.now = clock + 1, !.app = a, !.row = rows[a]]
<1>0. /\ clock \in Nat /\ clock' = clock + 1 /\ CallTyped(Idle, clock + 1) /\ GhostsTyped /\ StepsTyped /\ RowsTyped
      /\ Goes(c, r) /\ UNCHANGED <<rows, mails, deaths, drift, twice>> /\ redated' = redated \cup {a}
      /\ timeline' = [timeline EXCEPT ![a] = (@ \ {e}) \cup {[e EXCEPT !.at = at]}]
  BY Held, IdleTyped DEF RedateStep
<1>1. RowsAt(clock) \subseteq RowsAt(clock + 1) /\ StepsAt(clock) \subseteq StepsAt(clock + 1)
  BY <1>0, TypesGrow
<1>2. CallTyped(r, clock + 1)
  <2>1. rows[a] \in RowsAt(clock + 1)
    BY <1>0, <1>1 DEF RowsTyped
  <2>. QED BY <1>0, <2>1 DEF CallTyped, Idle
<1>3. StepsTyped'
  <2>1. e \in StepsAt(clock + 1)
    BY <1>0, <1>1 DEF StepsTyped
  <2>2. [e EXCEPT !.at = at] \in StepsAt(clock + 1)
    BY <2>1 DEF StepsAt
  <2>3. timeline' \in [Apps -> SUBSET StepsAt(clock + 1)]
    BY <1>0, <1>1, <2>2 DEF StepsTyped
  <2>. QED BY <1>0, <2>3 DEF StepsTyped
<1>4. GhostsTyped'
  BY <1>0 DEF GhostsTyped
<1>. QED BY <1>0, <1>2, <1>3, <1>4, Held, TypesKept

LEMMA WriteDatesTypes == ASSUME StagesAssumption, IInv, TInv, TypeInv, NEW c \in Callers, WriteDates(c) PROVE TypeInv'
<1>. DEFINE m == calls[c]
            dates == DatesBy(m.read, m.row)
<1>0. /\ clock \in Nat /\ CallTyped(m, clock) /\ CallTyped(Idle, clock) /\ Ends(c) /\ RowsTyped /\ GhostsTyped
      /\ UNCHANGED <<clock, timeline, mails, deaths, redated, twice>>
      /\ rows' = IF Here(m.app)
                 THEN [rows EXCEPT ![m.app] = [@ EXCEPT !.applied = dates.applied, !.changed = dates.changed]] ELSE rows
      /\ drift' \in {drift, drift \cup {m.app}} /\ (drift' = drift \/ Here(m.app))
  BY Held, IdleTyped DEF WriteDates
<1>1. dates.applied \in 0 .. clock + Leeway /\ dates.changed \in 0 .. clock + Leeway
  <2>. DEFINE T == m.read
              ofStage == {e \in T : e.stage = m.row.stage}
  <2>1. T \in SUBSET StepsAt(clock) /\ Rowids(T) /\ m.row \in RowsAt(clock)
    BY <1>0 DEF CallTyped
  <2>2. ofStage # {} => LastOf(ofStage).at \in 0 .. clock + Leeway
    BY <1>0, <2>1, ReadDates
  <2>3. AppliedSteps(T) # {} => FirstOf(AppliedSteps(T)).at \in 0 .. clock + Leeway
    <3>1. AppliedSteps(T) \subseteq T
      BY DEF AppliedSteps
    <3>. QED BY <1>0, <2>1, <3>1, ReadDates
  <2>4. m.row.applied \in 0 .. clock + Leeway /\ m.row.changed \in 0 .. clock + Leeway /\ 0 \in 0 .. clock + Leeway
    BY <1>0, <2>1, LeewayNat DEF RowsAt
  <2>. QED BY <2>2, <2>3, <2>4 DEF DatesBy
<1>. HIDE DEF dates
<1>2. RowsTyped'
  <2>1. CASE Here(m.app)
    <3>1. m.app \in Apps /\ rows[m.app] \in RowsAt(clock)
      BY <1>0, <2>1 DEF Here, RowsTyped
    <3>2. [rows[m.app] EXCEPT !.applied = dates.applied, !.changed = dates.changed] \in RowsAt(clock)
      BY <1>1, <3>1 DEF RowsAt
    <3>. QED BY <1>0, <2>1, <3>1, <3>2 DEF RowsTyped
  <2>. QED BY <1>0, <2>1 DEF RowsTyped
<1>3. GhostsTyped'
  BY <1>0 DEF GhostsTyped, Here
<1>. QED BY <1>0, <1>2, <1>3, Held, TypesKept DEF Ends

LEMMA UndoDeletesTypes == ASSUME StagesAssumption, IInv, TInv, TypeInv, NEW c \in Callers, UndoDeletes(c) PROVE TypeInv'
<1>. DEFINE m == calls[c]
<1>0. /\ clock \in Nat /\ CallTyped(m, clock) /\ DOMAIN m = CallFields /\ StepsTyped /\ GhostsTyped /\ m.pc = "undo"
      /\ UNCHANGED <<clock, rows, mails, deaths, drift, redated, twice>>
  BY Held DEF UndoDeletes
<1>1. PICK a \in m.left :
        /\ timeline' = [timeline EXCEPT ![a] = @ \ StepsOf(m.mail, a)]
        /\ Goes(c, [m EXCEPT !.pc = "undoread", !.app = a, !.left = @ \ {a}])
  BY DEF UndoDeletes
<1>2. a \in Apps /\ m.left \ {a} \in SUBSET Apps /\ m.mail \in Emails
  BY <1>0 DEF CallTyped
<1>3. CallTyped([m EXCEPT !.pc = "undoread", !.app = a, !.left = @ \ {a}], clock)
  BY <1>0, <1>2 DEF CallTyped, CallFields
<1>4. StepsTyped' /\ GhostsTyped'
  BY <1>0, <1>1, <1>2 DEF StepsTyped, GhostsTyped
<1>. QED BY <1>0, <1>1, <1>3, <1>4, Held, TypesKept

LEMMA UndoWritesTypes == ASSUME StagesAssumption, IInv, TInv, TypeInv, NEW c \in Callers, UndoWrites(c) PROVE TypeInv'
<1>. DEFINE m == calls[c]
            T == m.read
<1>0. /\ clock \in Nat /\ CallTyped(m, clock) /\ DOMAIN m = CallFields /\ StepsTyped /\ RowsTyped /\ GhostsTyped /\ m.pc = "undowrite"
      /\ UNCHANGED <<clock, mails, deaths, redated, twice>> /\ drift' \in {drift, drift \cup {m.app}}
      /\ Goes(c, [m EXCEPT !.pc = "undo", !.app = NoApp, !.read = {}])
  BY Held DEF UndoWrites
<1>1. m.app \in Apps /\ m.mail \in Emails /\ T \in SUBSET StepsAt(clock) /\ Rowids(T)
  BY <1>0 DEF CallTyped
<1>2. CallTyped([m EXCEPT !.pc = "undo", !.app = NoApp, !.read = {}], clock)
  <2>1. Rowids({})
    BY DEF Rowids
  <2>. QED BY <1>0, <1>1, <2>1 DEF CallTyped, CallFields
<1>3. GhostsTyped'
  BY <1>0, <1>1 DEF GhostsTyped
<1>4. RowsTyped' /\ StepsTyped'
  <2>1. CASE T = {}
    BY <1>0, <2>1, DeleteTyped DEF UndoWrites
  <2>2. CASE T # {}
    <3>1. UNCHANGED timeline /\ rows' = IF Here(m.app) THEN [rows EXCEPT ![m.app] = RestoredRow(@, T)] ELSE rows
      BY <2>2 DEF UndoWrites
    <3>2. rows[m.app] \in RowsAt(clock)
      BY <1>0, <1>1 DEF RowsTyped
    <3>. DEFINE last == LastOf(T)
                applied == IF HasApplied(last.stage) THEN FirstOf(AppliedSteps(T)).at ELSE 0
                date == IF rows[m.app].stage = last.stage THEN rows[m.app].date ELSE "none"
    <3>3. last \in T /\ last.at \in 0 .. clock + Leeway /\ last.stage \in Stages
      BY <1>0, <1>1, <2>2, ReadDates
    <3>4. applied \in 0 .. clock + Leeway
      <4>1. HasApplied(last.stage) => last \in AppliedSteps(T)
        BY <3>3 DEF AppliedSteps
      <4>2. AppliedSteps(T) \subseteq T
        BY DEF AppliedSteps
      <4>3. HasApplied(last.stage) => FirstOf(AppliedSteps(T)).at \in 0 .. clock + Leeway
        BY <1>0, <1>1, <4>1, <4>2, ReadDates
      <4>. QED BY <1>0, <4>3, LeewayNat
    <3>5. date \in {"none", "person", "email"}
      BY <3>2 DEF RowsAt
    <3>6. RestoredRow(rows[m.app], T) =
            [rows[m.app] EXCEPT !.date = date, !.stage = last.stage, !.changed = last.at, !.applied = applied]
      BY DEF RestoredRow
    <3>. HIDE DEF last, applied, date
    <3>7. RestoredRow(rows[m.app], T) \in RowsAt(clock)
      BY <3>2, <3>3, <3>4, <3>5, <3>6 DEF RowsAt
    <3>. QED BY <1>0, <3>1, <3>7 DEF RowsTyped, StepsTyped
  <2>. QED BY <2>1, <2>2
<1>. QED BY <1>0, <1>2, <1>3, <1>4, Held, TypesKept

(* Steps of a call for an email: its status is one of TypeOK's. *)
LEMMA RecordTyped ==
    ASSUME IInv, TInv, TypeInv, NEW c \in Callers, calls[c].mail \in Emails,
           NEW status \in {"applied", "created", "unchanged", "needs_choice"}, NEW S \in SUBSET Apps, NEW r,
           Record(c, status, S, r)
    PROVE  MailsTyped' /\ (Goes(c, r) \/ Ends(c))
<1>1. MailsTyped
  BY Held
<1>2. MailsTyped'
  BY <1>1 DEF Record, MailsTyped
<1>. QED BY <1>2 DEF Record

LEMMA FileTypes == ASSUME StagesAssumption, IInv, TInv, TypeInv, NEW c \in Callers, FileEmail(c) PROVE TypeInv'
<1>. DEFINE m == calls[c]
            tracked == {a \in Apps : Here(a) /\ rows[a].job # NoJob}
            open == {a \in tracked : rows[a].stage \notin Endings \/ rows[a].stage = "ghosted"}
            pool == IF open = {} THEN tracked ELSE open
<1>0. /\ clock \in Nat /\ CallTyped(m, clock) /\ DOMAIN m = CallFields /\ CallTyped(Idle, clock) /\ m.pc = "read" /\ m.mail \in Emails
      /\ UNCHANGED <<clock, rows, timeline, deaths, drift, redated, twice>> /\ GhostsTyped
  BY Held, IdleTyped DEF FileEmail, CallOK
<1>1. GhostsTyped'
  BY <1>0 DEF GhostsTyped
<1>2. ASSUME NEW status \in {"applied", "created", "unchanged", "needs_choice"}, NEW S \in SUBSET Apps, NEW r,
             Record(c, status, S, r), CallTyped(r, clock)
      PROVE  TypeInv'
  <2>1. MailsTyped' /\ (Goes(c, r) \/ Ends(c))
    BY <1>0, <1>2, RecordTyped
  <2>. QED BY <1>0, <1>1, <1>2, <2>1, Held, TypesKept DEF Ends
<1>3. ASSUME NEW a \in pool,
             Record(c, IF EmailMovesStage(rows[a].stage, m.to) THEN "applied" ELSE "unchanged", {},
                    [m EXCEPT !.pc = "file", !.left = {a}, !.was = StagesOf({a})])
      PROVE  TypeInv'
  <2>1. CallTyped([m EXCEPT !.pc = "file", !.left = {a}, !.was = StagesOf({a})], clock)
    BY <1>0 DEF CallTyped, CallFields
  <2>. QED BY <1>2, <1>3, <2>1
<1>4. ASSUME NEW j \in Jobs, Record(c, "created", {}, [m EXCEPT !.pc = "create", !.job = j]) PROVE TypeInv'
  <2>1. CallTyped([m EXCEPT !.pc = "create", !.job = j], clock)
    BY <1>0 DEF CallTyped, CallFields
  <2>. QED BY <1>2, <1>4, <2>1
<1>5. ASSUME NEW S \in SUBSET pool, Record(c, "needs_choice", S, Idle) \/ Record(c, "unchanged", {}, Idle) PROVE TypeInv'
  <2>1. S \in SUBSET Apps
    OBVIOUS
  <2>. QED BY <1>0, <1>2, <1>5, <2>1
<1>. QED BY <1>3, <1>4, <1>5 DEF FileEmail

LEMMA OnTyped ==
    ASSUME StagesAssumption, NEW c, NEW m, clock \in Nat, CallTyped(m, clock), DOMAIN m = CallFields, FilesOn(c, m)
    PROVE  \E r : Goes(c, r) /\ CallTyped(r, clock)
<1>1. CallTyped([m EXCEPT !.pc = "file"], clock)
  BY DEF CallTyped, CallFields
<1>. QED BY <1>1, IdleTyped DEF FilesOn

LEMMA EmailStepTypes == ASSUME StagesAssumption, IInv, TInv, TypeInv, NEW c \in Callers, EmailStep(c) PROVE TypeInv'
<1>. DEFINE m == calls[c]
            on(a) == [m EXCEPT !.left = @ \ {a}, !.app = a]
            dates(a) == IF m.mail \in Dated THEN Goes(c, [on(a) EXCEPT !.pc = "emaildate"]) ELSE FilesOn(c, on(a))
<1>0. /\ clock \in Nat /\ CallTyped(m, clock) /\ DOMAIN m = CallFields /\ CallTyped(Idle, clock) /\ GhostsTyped
      /\ m.pc = "file" /\ m.mail \in Emails /\ m.now \in 1 .. clock /\ m.to \in Stages
      /\ UNCHANGED <<clock, mails, deaths, redated>>
  BY Held, IdleTyped DEF EmailStep, CallOK, Moment, Stamped, CallTyped
<1>1. ASSUME NEW a \in m.left, dates(a) PROVE \E r : Goes(c, r) /\ CallTyped(r, clock)
  <2>1. a \in Apps /\ m.left \ {a} \in SUBSET Apps
    BY <1>0 DEF CallTyped
  <2>2. CallTyped(on(a), clock) /\ DOMAIN on(a) = CallFields
    BY <1>0, <2>1 DEF CallTyped, CallFields
  <2>3. CallTyped([on(a) EXCEPT !.pc = "emaildate"], clock)
    BY <1>0, <2>1 DEF CallTyped, CallFields
  <2>. QED BY <1>0, <1>1, <2>2, <2>3, OnTyped
<1>2. ASSUME NEW r, Goes(c, r), CallTyped(r, clock), UNCHANGED <<rows, timeline, drift, twice>> PROVE TypeInv'
  <2>1. GhostsTyped'
    BY <1>0, <1>2 DEF GhostsTyped
  <2>. QED BY <1>0, <1>2, <2>1, Held, TypesKept
<1>3. ASSUME NEW a \in m.left, NEW r, Goes(c, r), CallTyped(r, clock), CanRecord(a, m.mail), WriteMove(a, m.to, m.now, m.mail), LandsFor(m.mail)
      PROVE  TypeInv'
  <2>1. RowsTyped' /\ StepsTyped' /\ drift' \subseteq Apps
    BY <1>0, <1>3, WriteMoveTyped DEF CanRecord, Here
  <2>2. GhostsTyped'
    BY <1>0, <1>3, <2>1 DEF GhostsTyped, LandsFor
  <2>. QED BY <1>0, <1>3, <2>1, <2>2, Held, TypesKept
<1>4. PICK a \in m.left :
        \/ dates(a) /\ UNCHANGED <<rows, timeline, drift, twice>>
        \/ CanRecord(a, m.mail) /\ WriteMove(a, m.to, m.now, m.mail) /\ LandsFor(m.mail) /\ dates(a)
        \/ Ends(c) /\ UNCHANGED <<rows, timeline, drift, twice>>
  BY DEF EmailStep
<1>. HIDE DEF dates
<1>. QED BY <1>0, <1>1, <1>2, <1>3, <1>4 DEF Ends

LEMMA EmailDateTypes == ASSUME StagesAssumption, IInv, TInv, TypeInv, NEW c \in Callers, SetStageDateFromEmail(c) PROVE TypeInv'
<1>. DEFINE m == calls[c]
<1>0. /\ clock \in Nat /\ CallTyped(m, clock) /\ DOMAIN m = CallFields /\ RowsTyped /\ GhostsTyped
      /\ UNCHANGED <<clock, timeline, mails, deaths, drift, redated, twice>>
  BY Held DEF SetStageDateFromEmail
<1>1. PICK r : Goes(c, r) /\ CallTyped(r, clock)
  BY <1>0, OnTyped DEF SetStageDateFromEmail
<1>2. RowsTyped'
  <2>1. CASE Here(m.app)
    <3>1. m.app \in Apps /\ rows[m.app] \in RowsAt(clock)
      BY <1>0, <2>1 DEF Here, RowsTyped
    <3>2. [rows[m.app] EXCEPT !.date = "email"] \in RowsAt(clock)
      BY <3>1 DEF RowsAt
    <3>. QED BY <1>0, <3>1, <3>2 DEF SetStageDateFromEmail, RowsTyped
  <2>. QED BY <1>0, <2>1 DEF SetStageDateFromEmail, RowsTyped
<1>3. GhostsTyped'
  BY <1>0 DEF GhostsTyped
<1>. QED BY <1>0, <1>1, <1>2, <1>3, Held, TypesKept

LEMMA SortTypes ==
    ASSUME StagesAssumption, IInv, TInv, TypeInv, NEW c \in Callers, NothingChanged(c) \/ DismissEmail(c) \/ UndoEnds(c)
    PROVE  TypeInv'
<1>. DEFINE m == calls[c]
<1>0. /\ clock \in Nat /\ CallTyped(m, clock) /\ CallTyped(Idle, clock) /\ MailsTyped /\ GhostsTyped /\ Ends(c)
      /\ UNCHANGED <<clock, rows, timeline, deaths, drift, redated>>
  BY Held, IdleTyped DEF NothingChanged, DismissEmail, UndoEnds
<1>1. MailsTyped'
  <2>1. PICK s \in {"unchanged", "undone", "dismissed"} :
          mails' \in {mails, [mails EXCEPT ![m.mail].status = IF @ = "none" THEN @ ELSE s],
                      [mails EXCEPT ![m.mail].status = IF ~m.more /\ @ # "none" THEN s ELSE @],
                      [mails EXCEPT ![m.mail] = IF @.status = "none" THEN @ ELSE [status |-> s, candidates |-> {}]]}
    BY DEF NothingChanged, DismissEmail, UndoEnds
  <2>. QED BY <1>0, <2>1 DEF MailsTyped
<1>2. GhostsTyped'
  <2>1. CASE NothingChanged(c)
    BY <1>0, <2>1 DEF NothingChanged, GhostsTyped
  <2>2. CASE DismissEmail(c) \/ UndoEnds(c)
    <3>1. m.mail \in Emails /\ twice' \in {twice, twice \cup {m.mail}}
      BY <1>0, <2>2 DEF DismissEmail, UndoEnds, CallTyped
    <3>. QED BY <1>0, <3>1 DEF GhostsTyped
  <2>. QED BY <2>1, <2>2
<1>. QED BY <1>0, <1>1, <1>2, Held, TypesKept DEF Ends

LEMMA AssignTypes == ASSUME StagesAssumption, IInv, TInv, TypeInv, NEW c \in Callers, AssignEmail(c) PROVE TypeInv'
<1>. DEFINE m == calls[c]
<1>0. /\ clock \in Nat /\ CallTyped(m, clock) /\ DOMAIN m = CallFields /\ CallTyped(Idle, clock) /\ MailsTyped /\ GhostsTyped
      /\ m.mail \in Emails /\ UNCHANGED <<rows, timeline, deaths, drift, redated>>
  BY Held, IdleTyped DEF AssignEmail, CallOK
<1>1. CASE UNCHANGED <<clock, mails, twice>> /\ Ends(c)
  <2>1. GhostsTyped'
    BY <1>0, <1>1 DEF GhostsTyped
  <2>. QED BY <1>0, <1>1, <2>1, Held, TypesKept DEF Ends
<1>2. CASE /\ clock' = clock + 1
           /\ mails' = [mails EXCEPT ![m.mail] = IF @.status = "none" THEN @ ELSE [status |-> "assigned", candidates |-> {}]]
           /\ twice' \in {twice, twice \cup {m.mail}}
           /\ Goes(c, [m EXCEPT !.pc = "file", !.now = clock + 1, !.was = StagesOf(m.left)])
  <2>1. MailsTyped'
    BY <1>0, <1>2 DEF MailsTyped
  <2>2. CallTyped(m, clock + 1)
    BY <1>0, TypesGrow
  <2>3. CallTyped([m EXCEPT !.pc = "file", !.now = clock + 1, !.was = StagesOf(m.left)], clock + 1)
    BY <1>0, <2>2 DEF CallTyped, CallFields
  <2>4. GhostsTyped'
    BY <1>0, <1>2 DEF GhostsTyped
  <2>. QED BY <1>0, <1>2, <2>1, <2>3, <2>4, Held, TypesKept
<1>. QED BY <1>1, <1>2 DEF AssignEmail

LEMMA DiesTypes == ASSUME StagesAssumption, IInv, TInv, TypeInv, NEW c \in Callers, Dies(c) PROVE TypeInv'
<1>0. clock \in Nat /\ CallTyped(calls[c], clock) /\ CallTyped(Idle, clock) /\ GhostsTyped
  BY Held, IdleTyped
<1>1. GhostsTyped'
  BY <1>0 DEF Dies, GhostsTyped, CallTyped, StagesAssumption
<1>. QED BY <1>0, <1>1, Held, TypesKept DEF Dies, Ends

LEMMA ExpireTypes == ASSUME StagesAssumption, IInv, TInv, TypeInv, NEW e \in Emails, ExpireNeedsChoice(e) PROVE TypeInv'
<1>0. /\ RowsTyped /\ StepsTyped /\ MailsTyped /\ GhostsTyped
      /\ UNCHANGED <<clock, rows, calls, deaths, drift, redated>>
  BY DEF TypeInv, ExpireNeedsChoice
<1>1. RowsTyped' /\ (\A c \in Callers : CallTyped(calls[c], clock))'
  BY <1>0 DEF RowsTyped, TypeInv
<1>2. MailsTyped' /\ GhostsTyped'
  BY <1>0 DEF ExpireNeedsChoice, MailsTyped, GhostsTyped
<1>3. StepsTyped'
  <2>1. ASSUME NEW d \in StepsAt(clock) PROVE [d EXCEPT !.mail = NoMail] \in StepsAt(clock)
    BY DEF StepsAt
  <2>2. CASE UNCHANGED timeline
    BY <1>0, <2>2 DEF StepsTyped
  <2>3. CASE timeline' = [a \in Apps |-> {IF d.mail = e THEN [d EXCEPT !.mail = NoMail] ELSE d : d \in timeline[a]}]
    <3>1. ASSUME NEW a \in Apps PROVE timeline'[a] \in SUBSET StepsAt(clock)
      BY <1>0, <2>1, <2>3 DEF StepsTyped
    <3>. QED BY <1>0, <2>3, <3>1 DEF StepsTyped
  <2>. QED BY <2>2, <2>3 DEF ExpireNeedsChoice
<1>. QED BY <1>1, <1>2, <1>3 DEF TypeInv

LEMMA InitTypes == ASSUME StagesAssumption, Init PROVE TypeInv
<1>1. Len(Tracked) \in Nat /\ DOMAIN Tracked = 1 .. Len(Tracked) /\ (\A i \in 1 .. Len(Tracked) : Tracked[i] \in Jobs) /\ clock = Len(Tracked)
  <2>1. Tracked \in Seq(Jobs)
    BY StagesAssumption
  <2>2. Len(Tracked) \in Nat /\ DOMAIN Tracked = 1 .. Len(Tracked) /\ \A i \in 1 .. Len(Tracked) : Tracked[i] \in Jobs
    BY <2>1
  <2>. QED BY <2>2 DEF Init
<1>2. CallTyped(Idle, clock) /\ Unused \in RowsAt(clock) /\ "saved" \in Stages
  BY <1>1, IdleTyped DEF Stages, Order
<1>3. RowsTyped
  <2>1. ASSUME NEW a \in DOMAIN Tracked PROVE [Unused EXCEPT !.life = "here", !.job = Tracked[a], !.changed = a] \in RowsAt(clock)
    <3>1. Tracked[a] \in Jobs /\ a \in 0 .. clock + Leeway
      BY <1>1, LeewayNat
    <3>. QED BY <1>2, <3>1 DEF RowsAt
  <2>. QED BY <1>2, <2>1 DEF Init, RowsTyped
<1>4. StepsTyped
  <2>1. ASSUME NEW a \in DOMAIN Tracked PROVE [n |-> 1, stage |-> "saved", at |-> a, mail |-> NoMail] \in StepsAt(clock)
    BY <1>1, <1>2, LeewayNat DEF StepsAt
  <2>. QED BY <2>1 DEF Init, StepsTyped
<1>5. MailsTyped /\ GhostsTyped
  <2>1. MailsTyped
    BY DEF Init, MailsTyped
  <2>2. deaths \in 0 .. MaxDeaths
    <3>1. MaxDeaths \in Nat
      BY DEF StagesAssumption
    <3>2. deaths = 0
      BY DEF Init
    <3>. QED BY <3>1, <3>2
  <2>. QED BY <2>1, <2>2 DEF Init, GhostsTyped
<1>. QED BY <1>2, <1>3, <1>4, <1>5 DEF TypeInv, Init

LEMMA NextTypes == ASSUME StagesAssumption, IInv, TInv, TypeInv, [Next]_vars PROVE TypeInv'
<1>1. CASE UNCHANGED vars
  BY <1>1 DEF vars, TypeInv, RowsTyped, StepsTyped, MailsTyped, GhostsTyped
<1>2. ASSUME NEW c \in Callers, PersonCall(c) PROVE TypeInv'
  BY <1>2, BeginTypes, DeletesTypes, RedateTypes, ReadsTypes, MoveTypes, SetStageDateTypes, CreateTypes, FirstTypes, UnmarkTypes,
     WriteDatesTypes DEF PersonCall
<1>3. ASSUME NEW c \in Callers, EmailCall(c) PROVE TypeInv'
  BY <1>3, BeginTypes, FileTypes, EmailStepTypes, EmailDateTypes, SortTypes, AssignTypes, UndoDeletesTypes, ReadsTypes, UndoWritesTypes
  DEF EmailCall
<1>. QED BY <1>1, <1>2, <1>3, DiesTypes, ExpireTypes DEF Next

(* The values of rows, steps and emails, and what of a call must hold: no  *)
(* step and no date of a row is more than the leeway of setEventDate ahead *)
(* of the latest `now`, though dates are copied from steps to rows and     *)
(* from calls that read them earlier; a row that was deleted keeps no      *)
(* step; and no call is about a row there is not.                          *)
THEOREM TypeCorrect == Spec => []TypeOK
<1>1. ASSUME IInv, TInv, TypeInv PROVE TypeOK
  <2>1. Rows = RowsAt(clock) /\ Steps = StepsAt(clock)
    BY DEF Rows, Steps, RowsAt, StepsAt
  <2>2. clock \in Nat /\ \A a \in Apps : ~Here(a) => timeline[a] = {}
    BY <1>1 DEF TInv, Timed, Timelines
  <2>3. \A c \in Callers : calls[c].now \in 0 .. clock /\ calls[c].app \in Apps \cup {NoApp}
    BY <1>1 DEF TypeInv, CallTyped
  <2>. QED BY <1>1, <2>1, <2>2, <2>3 DEF TypeOK, TypeInv, RowsTyped, StepsTyped, MailsTyped, GhostsTyped
<1>2. Spec => []TypeInv
  BY StagesAssumption, SpecIInv, SpecTInv, InitTypes, NextTypes, PTL DEF Spec
<1>. QED BY <1>1, <1>2, SpecIInv, SpecTInv, PTL

=============================================================================
