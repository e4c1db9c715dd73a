--------------------------- MODULE PlatformServices ---------------------------
(***************************************************************************)
(* The services around the core: those that change ports, web services and *)
(* records with a trail and an event of each change (Resources), the       *)
(* policy with its cache (PolicyCache) and the pipeline from events to     *)
(* insights and scores (Insights).  They share no state.                   *)
(***************************************************************************)
EXTENDS Integers, Sequences, FiniteSets

CONSTANTS
    Resource, Gone, Tenant, Admin, Call, NoHandler,
    KAFKA_RETRY_ATTEMPTS, Torn, MaxCommits, MaxEnds,            \* Resources
    Key, Request, NoRequest, NoEntry, TTL, Latency, MaxAge,     \* PolicyCache
    Device, None, Worker, WINDOW, THRESHOLD, RECENT, Status,
    MaxInsights, MaxNow                                         \* Insights

VARIABLES
    audited, owner, commits, trail, open_line, refused, producer, call, events,
    before, ends,                                                   \* Resources
    allows, since, entry, request, answer, audit, unlogged, time,   \* PolicyCache
    insight, now, worker, score, fleet_task, draft                  \* Insights

Resources == INSTANCE Resources WITH
    NoCall <- NoHandler, row <- owner, crashes <- ends, MaxCrashes <- MaxEnds
PolicyCache == INSTANCE PolicyCache WITH MaxTime <- MaxAge
Insights == INSTANCE Insights WITH MaxTime <- MaxNow

\* The markers are none of what they mark, and the bounds are numbers.
ASSUME ServicesAssumption ==
    Resources!ConstantsFit /\ PolicyCache!ConstantsFit /\ Insights!ConstantsFit

-----------------------------------------------------------------------------
(* Properties *)

\* Trails, caches, insights and scores keep within their types.
ServicesTyped == Resources!TypeOK /\ PolicyCache!TypeOK /\ Insights!TypeOK

\* Events and trails are of committed changes, a cached policy answer is recent, and
\* an insight is escalated and scored by the insights it is about.
ServicesAccount ==
    /\ ServicesTyped
    /\ Resources!EventsAreOfChanges /\ Resources!TrailIsWhole
    /\ PolicyCache!AnswersAreRecent
    /\ Insights!EscalationIsRight /\ Insights!ScoresAreRight
=============================================================================
