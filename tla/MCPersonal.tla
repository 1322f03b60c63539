----------------------------- MODULE MCPersonal ------------------------------
(* Three instances in one run: what tailorings cost, the PDFs of one       *)
(* tailoring, and one person's sign-ins.  They share nothing; a behaviour  *)
(* is of one of them, and the others keep their initial states.            *)
EXTENDS Personal, TLC

CONSTANTS cv1, cv2, cv3, first, second, third, phone, web, guest, mail, google, job

VARIABLE case

fileVars == <<row, revision, object, selected, account, place, hand, drawn, count, troubles,
              lost, late, spoiled>>

signVars == <<users, app, pro, holds, session, signedIn, step, mine, ids, asked, deaths,
              kept, bought, behind, missed, crossed, left>>

(* Either zone may be the first: only the days between them tell them apart. *)
MCInit ==
    /\ case \in {"usage", "files", "signin"} /\ Init /\ PDF!Init /\ Auth!Init
    /\ zone = 0 /\ (case # "usage" => limit = FreeLimit)

MCNext ==
    /\ UNCHANGED case
    /\ \/ case = "usage" /\ Next /\ UNCHANGED <<fileVars, signVars>>
       \/ case = "files" /\ PDF!Next /\ UNCHANGED <<vars, signVars>>
       \/ case = "signin" /\ Auth!Next /\ UNCHANGED <<vars, fileVars>>

MCSpec == MCInit /\ [][MCNext]_<<vars, fileVars, signVars, case>>

(* A failure and the other zone are not had together. *)
Bounds == zone # 0 => faults = 0

(* PDFs, tailorings, calls and requests are alike in every case.           *)
Symmetry == Permutations({cv1, cv2, cv3}) \cup Permutations({first, second})
=============================================================================
