--------------------------- MODULE ResumeArtifacts ---------------------------
(***************************************************************************)
(* The PDFs exported from one tailoring: the objects in R2, the rows that  *)
(* name them, the version the person selected, and the calls that export,  *)
(* read, select and delete them, the account's deletion among them.  D1's  *)
(* cascades do not reach R2, so each call keeps the two in step by itself. *)
(*                                                                         *)
(* One step is one D1 statement or one R2 call.  What a PDF holds, and so  *)
(* its hashes and the state "corrupt", is left out.                        *)
(***************************************************************************)
EXTENDS Integers, FiniteSets

CONSTANTS
    Files,      \* artifacts, each a row and an object of its own key
    Calls,      \* invocations that may be under way at once
    None,       \* no artifact, none of Files
    MaxCalls, MaxFaults   \* bounds

VARIABLES
    row,       \* storage_state, "none" without a row
    revision,  \* the row's revision
    object,    \* files in the bucket
    selected,  \* tailoring_artifact_selections.artifact_id
    account,   \* the account is there
    at,        \* where each call is
    my,        \* its locals
    made,      \* artifact ids drawn
    calls, faults,
    lost,      \* files a call may have removed though it threw
    late,      \* files whose row a deletion took that had not read its key
    cut        \* files of a call that died or whose last resort failed

table == <<row, revision, selected, account>>
marks == <<lost, late, cut>>
vars  == <<table, object, at, my, made, calls, faults, marks>>

Idle == [call |-> "none", file |-> None, revision |-> 0, keys |-> {}]

Deletions == {"delete", "deleteAll", "deleteAccount"}
Places == {"off", "number", "put", "insert", "undo", "get", "miss", "select",
           "mark", "remove", "restore", "erase"}

TypeOK ==
    /\ row \in [Files -> {"none", "available", "deleting", "missing"}]
    /\ revision \in [Files -> Nat]
    /\ object \subseteq Files /\ selected \in Files \cup {None} /\ account \in BOOLEAN
    /\ at \in [Calls -> Places]
    /\ my \in [Calls -> [call : {"none", "export", "read", "select"} \cup Deletions,
                         file : Files \cup {None}, revision : Nat, keys : SUBSET Files]]
    /\ made \subseteq Files
    /\ calls \in 0 .. MaxCalls /\ faults \in 0 .. MaxFaults
    /\ lost \subseteq Files /\ late \subseteq Files /\ cut \subseteq Files

Init ==
    /\ row = [f \in Files |-> "none"]
    /\ revision = [f \in Files |-> 0]
    /\ object = {} /\ selected = None /\ account = TRUE
    /\ at = [c \in Calls |-> "off"]
    /\ my = [c \in Calls |-> Idle]
    /\ made = {} /\ calls = 0 /\ faults = 0
    /\ lost = {} /\ late = {} /\ cut = {}

Rows == {f \in Files : row[f] # "none"}

Go(c, from, to) == at[c] = from /\ at' = [at EXCEPT ![c] = to]

Ends(c) == at' = [at EXCEPT ![c] = "off"] /\ my' = [my EXCEPT ![c] = Idle]

Fault == faults < MaxFaults /\ faults' = faults + 1

(* A call begins, its session checked and its rows read. *)
Starts(c, place, locals) ==
    /\ account /\ calls < MaxCalls /\ calls' = calls + 1
    /\ Go(c, "off", place)
    /\ my' = [my EXCEPT ![c] = locals]
    /\ UNCHANGED <<table, object, faults, marks>>

-----------------------------------------------------------------------------
(* POST /tailorings/:id/artifacts: the object first, then its row.         *)

StartExport(c, f) ==
    /\ f \notin made /\ made' = made \cup {f}
    /\ Starts(c, "number", [Idle EXCEPT !.call = "export", !.file = f])

(* COALESCE(MAX(revision), 0) + 1. *)
Number(c) ==
    /\ Go(c, "number", "put")
    /\ \E n \in {0} \cup {revision[f] : f \in Rows} :
         /\ \A f \in Rows : revision[f] <= n
         /\ my' = [my EXCEPT ![c].revision = n + 1]
    /\ UNCHANGED <<table, object, made, calls, faults, marks>>

Put(c) ==
    /\ \/ Go(c, "put", "insert") /\ object' = object \cup {my[c].file} /\ UNCHANGED faults
       \/ Go(c, "put", "undo") /\ Fault /\ object' \in {object, object \cup {my[c].file}}
    /\ UNCHANGED <<table, my, made, calls, marks>>

(* UNIQUE (tailoring_id, revision), and the tailoring is still there. *)
Insertable(c) == account /\ \A f \in Rows : revision[f] # my[c].revision

Inserted(c) ==
    /\ row' = [row EXCEPT ![my[c].file] = "available"]
    /\ revision' = [revision EXCEPT ![my[c].file] = my[c].revision]

(* insertArtifactMetadata; if it throws though it is done, its object will *)
(* be removed all the same.                                                *)
Insert(c) ==
    /\ at[c] = "insert"
    /\ \/ /\ Insertable(c) /\ Inserted(c)
          /\ \/ Ends(c) /\ UNCHANGED <<faults, lost>>
             \/ Go(c, "insert", "undo") /\ Fault /\ lost' = lost \cup {my[c].file} /\ UNCHANGED my
       \/ /\ IF Insertable(c) THEN Fault ELSE UNCHANGED faults
          /\ Go(c, "insert", "undo") /\ UNCHANGED <<row, revision, my, lost>>
    /\ UNCHANGED <<selected, account, object, made, calls, late, cut>>

Undone_Not(c) == object

Undone(c) == object \ {my[c].file}

(* The catch: RESUME_BUCKET.delete, its own failure swallowed. *)
Undo(c) ==
    /\ at[c] = "undo" /\ Ends(c)
    /\ \/ object' = Undone(c) /\ UNCHANGED <<faults, cut>>
       \/ Fault /\ object' \in {object, Undone(c)} /\ cut' = cut \cup {my[c].file}
    /\ UNCHANGED <<table, made, calls, lost, late>>

-----------------------------------------------------------------------------
(* Reading and selecting a version: readVerifiedArtifactPdf.               *)

StartRead(c, f, call) ==
    /\ row[f] = "available"
    /\ Starts(c, "get", [Idle EXCEPT !.call = call, !.file = f])
    /\ UNCHANGED made

Get(c) ==
    /\ at[c] = "get"
    /\ IF my[c].file \notin object THEN Go(c, "get", "miss") /\ UNCHANGED my
       ELSE IF my[c].call = "select" THEN Go(c, "get", "select") /\ UNCHANGED my
       ELSE Ends(c)
    /\ UNCHANGED <<table, object, made, calls, faults, marks>>

(* UPDATE ... SET storage_state = 'missing' WHERE id = ?, whatever it is. *)
Miss(c) ==
    /\ at[c] = "miss" /\ Ends(c)
    /\ row' = [row EXCEPT ![my[c].file] = IF @ = "none" THEN "none" ELSE "missing"]
    /\ UNCHANGED <<revision, selected, account, object, made, calls, faults, marks>>

(* The foreign key refuses a version deleted meanwhile. *)
Select(c) ==
    /\ at[c] = "select" /\ Ends(c)
    /\ selected' = IF row[my[c].file] = "none" THEN selected ELSE my[c].file
    /\ UNCHANGED <<row, revision, account, object, made, calls, faults, marks>>

-----------------------------------------------------------------------------
(* Deleting one version, all of them, or the account: the rows are marked, *)
(* the objects removed, the rows erased.                                   *)

StartDelete(c, f) ==
    /\ row[f] # "none"
    /\ Starts(c, "mark", [Idle EXCEPT !.call = "delete", !.file = f, !.keys = {f}])
    /\ UNCHANGED made

(* The keys are read before the rows are marked; an account without any is *)
(* erased at once.                                                         *)
StartDeleteAll(c, call) ==
    /\ call = "deleteAll" => Rows # {}
    /\ Starts(c, IF Rows = {} THEN "erase" ELSE "mark", [Idle EXCEPT !.call = call, !.keys = Rows])
    /\ UNCHANGED made

(* The rows a deletion's statements reach. *)
Reached(c) == IF my[c].call = "delete" THEN Rows \cap {my[c].file} ELSE Rows

Becomes(F, state) == row' = [f \in Files |-> IF f \in F THEN state ELSE row[f]]

Mark(c) ==
    /\ Go(c, "mark", "remove")
    /\ Becomes(Reached(c), "deleting")
    /\ UNCHANGED <<revision, selected, account, object, my, made, calls, faults, marks>>

(* deleteR2Keys throws, and may have removed some.  The account's deletion *)
(* ends there, its rows marked.                                            *)
Remove(c) ==
    /\ \/ /\ Go(c, "remove", "erase")
          /\ object' = object \ my[c].keys
          /\ UNCHANGED <<my, faults, lost, cut>>
       \/ /\ at[c] = "remove" /\ Fault
          /\ \E F \in SUBSET my[c].keys : object' = object \ F /\ lost' = lost \cup F
          /\ IF my[c].call = "deleteAccount"
             THEN Ends(c) /\ cut' = cut \cup Rows
             ELSE Go(c, "remove", "restore") /\ UNCHANGED <<my, cut>>
    /\ UNCHANGED <<table, made, calls, late>>

(* restoreArtifactDeletionState, its own failure swallowed. *)
Restorable(c) == {f \in Reached(c) : row[f] = "deleting"}

Restore(c) ==
    /\ at[c] = "restore" /\ Ends(c)
    /\ \/ Becomes(Restorable(c), "available") /\ UNCHANGED <<faults, cut>>
       \/ Fault /\ cut' = cut \cup Restorable(c) /\ UNCHANGED row
    /\ UNCHANGED <<revision, selected, account, object, made, calls, lost, late>>

(* DELETE: the selection goes with its row, the account with all of them.  *)
Erase(c) ==
    /\ at[c] = "erase" /\ Ends(c)
    /\ \/ /\ Becomes(Reached(c), "none")
          /\ selected' = IF selected \in Reached(c) THEN None ELSE selected
          /\ account' = (account /\ my[c].call # "deleteAccount")
          /\ late' = late \cup (Reached(c) \ my[c].keys)
          /\ UNCHANGED <<faults, cut>>
       \/ /\ Fault /\ cut' = cut \cup Reached(c)
          /\ UNCHANGED <<row, selected, account, late>>
    /\ UNCHANGED <<revision, object, made, calls, lost>>

-----------------------------------------------------------------------------
(* The invocation ends where it is: an export's object stays without a row, *)
(* a deletion's rows stay marked, or unmarked without their objects.       *)
Dies(c) ==
    /\ at[c] # "off" /\ Ends(c) /\ Fault
    /\ cut' = cut \cup (IF my[c].call \in Deletions THEN Reached(c) ELSE {my[c].file})
    /\ UNCHANGED <<table, object, made, calls, lost, late>>

Next == \E c \in Calls :
    \/ \E f \in Files :
         \/ StartExport(c, f) \/ StartDelete(c, f)
         \/ \E call \in {"read", "select"} : StartRead(c, f, call)
    \/ \E call \in {"deleteAll", "deleteAccount"} : StartDeleteAll(c, call)
    \/ Number(c) \/ Put(c) \/ Insert(c) \/ Undo(c)
    \/ Get(c) \/ Miss(c) \/ Select(c)
    \/ Mark(c) \/ Remove(c) \/ Restore(c) \/ Erase(c)
    \/ Dies(c)

Spec == Init /\ [][Next]_vars

-----------------------------------------------------------------------------
(* "Delete private objects first; if storage is unavailable, leave the     *)
(* account and metadata intact so the deletion can be retried without      *)
(* orphaning files": when nothing is under way, an object has its row, a   *)
(* version that can be read has its object unless a call that threw took   *)
(* it, none is called missing but such a one, and none stays half deleted. *)
(* Not so for what a call that died had in hand, nor for an export that    *)
(* lands between a deletion's reading of the keys and its DELETE.          *)
FilesMatchRows ==
    (\A c \in Calls : at[c] = "off") => \A f \in Files \ cut :
        /\ f \in object => row[f] = "available" \/ f \in late
        /\ row[f] = "available" => f \in object \cup lost
        /\ row[f] = "missing" => f \in lost
        /\ row[f] # "deleting"

-----------------------------------------------------------------------------
(* FilesMatchRows at every step: what makes it so, which is inductive.     *)

Kinds == {"none", "export", "read", "select"} \cup Deletions

Locals == [call : Kinds, file : Files \cup {None}, revision : Nat, keys : SUBSET Files]

(* The types the argument needs, and what a call under way holds. *)
Shape ==
    /\ row \in [Files -> {"none", "available", "deleting", "missing"}]
    /\ revision \in [Files -> Nat]
    /\ object \subseteq made /\ Rows \subseteq made /\ made \subseteq Files
    /\ at \in [Calls -> Places] /\ my \in [Calls -> Locals]
    /\ lost \subseteq Files /\ late \subseteq Files /\ cut \subseteq Files

Holds ==
    \A c \in Calls : at[c] # "off" =>
        /\ my[c].keys \subseteq made
        /\ IF at[c] \in {"mark", "remove", "restore", "erase"}
           THEN /\ my[c].call \in Deletions
                /\ my[c].call = "delete" => my[c].file \in made /\ my[c].keys = {my[c].file}
           ELSE /\ my[c].call \notin Deletions
                /\ my[c].file \in made /\ my[c].keys = {}

(* An export's file is its own until its row is there: nobody else has it  *)
(* in hand, and its object is there once it was put.                       *)
Exports ==
    /\ \A c \in Calls : at[c] \in {"number", "put", "insert"} =>
         /\ row[my[c].file] = "none"
         /\ my[c].file \in object <=> at[c] = "insert"
         /\ \A d \in Calls \ {c} : at[d] # "off" =>
              /\ my[c].file \notin my[d].keys
              /\ my[d].call \notin Deletions => my[d].file # my[c].file
    /\ \A c \in Calls : at[c] = "undo" => row[my[c].file] = "none" \/ my[c].file \in lost

(* What was removed, or found missing, does not come back. *)
Removed ==
    \A c \in Calls :
        /\ at[c] = "erase" => my[c].keys \cap object = {}
        /\ at[c] = "miss" => my[c].file \notin object

(* A deletion under way that reaches a file's row. *)
Deleting(f, places) ==
    \E c \in Calls : at[c] \in places /\ (my[c].call = "delete" => my[c].file = f)

(* Rows and objects agree, or a call under way will see to it. *)
Agree ==
    \A f \in Files \ cut :
        /\ f \in object /\ row[f] = "none" =>
             f \in late \/ \E c \in Calls : at[c] \in {"insert", "undo"} /\ my[c].file = f
        /\ row[f] # "none" /\ f \notin object => f \in lost \/ Deleting(f, {"erase"})
        /\ row[f] = "deleting" => Deleting(f, {"remove", "restore", "erase"})
        /\ row[f] = "missing" => f \notin object

IInv == Shape /\ Holds /\ Exports /\ Removed /\ Agree
=============================================================================
