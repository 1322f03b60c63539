------------------------------- MODULE Personal -------------------------------
(* What is one person's, beside what tailorings cost (TailorUsage): the    *)
(* PDFs of a tailoring and the ways into the account.  The three share no  *)
(* state; their instances stand here, with names of their own, so that one *)
(* run checks and one module proves what is said of them.                  *)
EXTENDS TailorUsage

CONSTANTS
    Files, Calls,               \* the PDFs of a tailoring, and the calls over them
    MaxFileCalls, MaxFileFaults,
    Identities, Jobs, Devices, Users, SignIns,   \* SignIn's, SignIns its calls
    MaxSignIns, MaxDeaths,
    None

VARIABLES
    row, revision, object, selected, account, place, hand, drawn, count, troubles,
    lost, late, spoiled,
    users, app, pro, holds, session, signedIn, step, mine, ids, asked, deaths,
    kept, bought, behind, missed, crossed, left

(* A device's first guest is a user, and None is no user.                  *)
AuthSetting ==
    Devices \subseteq Users /\ None \notin Users /\ MaxSignIns \in Nat /\ MaxDeaths \in Nat

ASSUME SignInAssumption == AuthSetting

ASSUME FilesAssumption == MaxFileCalls \in Nat /\ MaxFileFaults \in Nat

PDF == INSTANCE ResumeArtifacts WITH
    at <- place, my <- hand, made <- drawn, calls <- count, faults <- troubles, cut <- spoiled,
    MaxCalls <- MaxFileCalls, MaxFaults <- MaxFileFaults

Auth == INSTANCE SignIn WITH
    at <- step, my <- mine, drawn <- ids, calls <- asked, faults <- deaths, late <- behind,
    Calls <- SignIns, MaxCalls <- MaxSignIns, MaxFaults <- MaxDeaths

(* The PDFs in the bucket are those the table names, when no call of the   *)
(* tailoring is under way: routes/tailor.ts and artifact-storage.ts.       *)
FilesMatchRows == PDF!FilesMatchRows

(* What a guest saved, applied to and bought comes along on sign-in:       *)
(* mergeGuestDataIntoAccount, account.ts.                                  *)
NothingLost == Auth!NothingLost

(* The identities of one verified email are one account's:                 *)
(* signInWithIdentity, routes/auth.ts.                                     *)
OneAccount == Auth!OneAccount
=============================================================================
