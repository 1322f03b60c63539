------------------------------ MODULE MCLives -------------------------------
(* Two instances under fairness in one run: a person's feed, as the        *)
(* configuration says, and a job source with a queue and a cron.  They     *)
(* share nothing; a behaviour is of one of them.                           *)
EXTENDS MCFeedMatching

CONSTANTS c1, c2, None

VARIABLES case, kind, board, enabled, queued, claim, old, age, failures, quarantined, empty, row,
          missed, references, sending, failing, queue, poller, local, troubles, mishaps, bad,
          left, changes

sourceVars == <<kind, board, enabled, queued, claim, old, age, failures, quarantined, empty, row,
                missed, references, sending, failing, queue, poller, local, troubles, mishaps, bad,
                left, changes>>

Polls == INSTANCE SourcePolling WITH
    ledger <- references, at <- poller, my <- local, faults <- troubles,
    Jobs <- {a}, Pollers <- {p}, Claims <- {c1, c2}, Modes <- {"queue", "cron"},
    Kinds <- {"complete"}, CloseAfter <- 2, QuarantineAfter <- 3, TrustFrom <- 8,
    MaxFaults <- 1, MaxChanges <- 1

MCInit ==
    /\ Init /\ Polls!Init
    /\ \/ case = "feed" /\ board = {}
       \/ case = "source" /\ Listed = {}

OfFeed(A) == case = "feed" /\ A
OfSource(A) == case = "source" /\ A

MCNext ==
    /\ UNCHANGED case
    /\ \/ case = "feed" /\ Next /\ UNCHANGED sourceVars
       \/ case = "source" /\ Polls!Next /\ UNCHANGED vars

(* FeedMatching!Fairness and SourcePolling!Fairness, each for its case. *)
MCFairness ==
    /\ \A x \in Saves : WF_vars(OfFeed(SaveWrites(x))) /\ WF_vars(OfFeed(SaveDeletes(x)))
    /\ \A x \in Runs :
         /\ WF_vars(OfFeed(Match(x))) /\ WF_vars(OfFeed(Enough(x)))
         /\ SF_vars(OfFeed(Visit(x))) /\ SF_vars(OfFeed(Advance(x)))
    /\ WF_sourceVars(OfSource(Polls!ClaimDue))
    /\ \A x \in {c1, c2} :
         WF_sourceVars(OfSource(Polls!SendBatch(x))) /\ WF_sourceVars(OfSource(Polls!Release(x)))
    /\ WF_sourceVars(OfSource(\E x \in {c1, c2} : Polls!Deliver(p, x)))
    /\ SF_sourceVars(OfSource(\E x \in {c1, c2} : x = claim /\ Polls!Deliver(p, x)))
    /\ WF_sourceVars(OfSource(Polls!Poll(p))) /\ WF_sourceVars(OfSource(Polls!StartCron(p)))
    /\ WF_sourceVars(OfSource(Polls!ClaimExpires))
    /\ SF_sourceVars(OfSource(Polls!CadencePasses)) /\ SF_sourceVars(OfSource(Polls!DayPasses))

MCSpec == MCInit /\ [][MCNext]_<<vars, sourceVars, case>> /\ MCFairness

(* FeedCatchesUp: what is listed for good is matched, or evaluated behind  *)
(* a known gap.                                                            *)
FeedCatchesUpAlone == case = "feed" => FeedCatchesUp

(* NeverDark: an enabled source is polled again and again. *)
NeverDarkAlone == case = "source" => Polls!NeverDark

(* CatalogFollowsBoard: what the board dropped for good closes, and what   *)
(* it lists for good is open.                                              *)
CatalogFollowsBoardAlone == case = "source" => Polls!CatalogFollowsBoard
=============================================================================
