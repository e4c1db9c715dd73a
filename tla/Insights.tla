------------------------------- MODULE Insights -------------------------------
(***************************************************************************)
(* ai-pipeline-service: a consumer turns events of devices into insights,  *)
(* operators acknowledge, resolve and enrich them, and risk scores are     *)
(* computed from them.  The consumer and an operator's analysis await a    *)
(* summary between what they read and what they insert.                    *)
(***************************************************************************)
EXTENDS Integers, Sequences, FiniteSets

CONSTANTS
    Device, None,
    Worker,         \* handlers of events; the loop uses one at a time
    WINDOW,         \* REPEATED_EVENT_WINDOW_MINUTES
    THRESHOLD,      \* REPEATED_EVENT_THRESHOLD
    RECENT,         \* insights a score looks at: 50
    Status,         \* what device-service says of a device
    MaxInsights, MaxTime    \* bounds

VARIABLES
    insight,    \* the table, in the order of its inserts
    now,
    worker,     \* analyses that wait for their summary
    score,      \* AIRiskScore of each device and of the fleet, with its evidence
    fleet_task, \* scores a fleet computation has so far, with their sum and the worst of them
    draft       \* a function draft, with the placement computation that holds a copy of it

insightVars == <<insight, now, worker>>
riskVars == <<score, fleet_task>>
vars == <<insightVars, riskVars, draft>>

Severity == {"info", "warning", "critical"}
Escalating == {"slo_breach", "execution_failure"}
Category == Escalating \cup {"anomaly", "delivery_risk", "operational_summary"}
Insight ==
    [device : Device, category : Category, severity : Severity, analysed : 0..MaxTime,
     at : 0..MaxTime, status : {"open", "acknowledged", "resolved"}, resolved : BOOLEAN,
     confidence : {"none", "low", "medium", "high"}]
NoDraft == [status |-> "none", placed |-> FALSE, copy |-> "none"]

\* The bounds are numbers, and statuses are words.
ConstantsFit == MaxTime \in Nat /\ WINDOW \in Nat /\ THRESHOLD \in Nat

TypeOK ==
    /\ insight \in Seq(Insight)
    /\ \A i \in DOMAIN insight : insight[i].analysed <= insight[i].at
    /\ now \in 0..MaxTime
    /\ \A s \in DOMAIN score : score[s] # None => score[s].score \in 0..100
    /\ draft.status \in {"none", "draft", "reviewed"} /\ draft.placed \in BOOLEAN
    /\ draft.copy \in {"none", "draft", "reviewed"}

\* The table as it is when a behaviour is looked at.
InitWith(table) ==
    /\ insight = table /\ now = 0
    /\ worker = [w \in Worker |-> None]
    /\ score = [s \in Device \cup {"fleet"} |-> None]
    /\ fleet_task = None
    /\ draft = NoDraft

Init == InitWith(<<>>)

tick ==
    /\ now < MaxTime
    /\ now' = now + 1
    /\ UNCHANGED <<insight, worker, riskVars, draft>>

-----------------------------------------------------------------------------
(* Events *)

\* Of the first n insights those that are similar.
Similar(n, d, category, since) ==
    {i \in 1..n : /\ insight[i].device = d
                  /\ insight[i].category = category
                  /\ insight[i].at >= since}

\* _count_recent: similar insights created since the start of the window.
_count_recent(n, d, category, since) == Cardinality(Similar(n, d, category, since))

\* analyze_event and manual_device_analysis.
Analysis(d, category) ==
    [device |-> d, category |-> category, analysed |-> now,
     severity |-> CASE category \in Escalating ->
                         IF _count_recent(Len(insight), d, category, now - WINDOW) + 1 >= THRESHOLD
                           THEN "critical" ELSE "warning"
                    [] category = "delivery_risk" -> "warning"
                    [] OTHER -> "info"]

\* Mutant: each event is processed in a task of its own.
loop_is_free_always == TRUE

loop_is_free == \A w \in Worker : worker[w] # None => worker[w].category = "operational_summary"

\* The loop's next event, or a request for an analysis, which no loop holds back.
process_event(w, d, category) ==
    /\ worker[w] = None
    /\ category # "operational_summary" => loop_is_free
    /\ worker' = [worker EXCEPT ![w] = Analysis(d, category)]
    /\ UNCHANGED <<insight, now, riskVars, draft>>

create_insight_from_analysis(w) ==
    /\ worker[w] # None
    /\ Len(insight) < MaxInsights
    /\ insight' = Append(insight,
         [device |-> worker[w].device, category |-> worker[w].category,
          severity |-> worker[w].severity, analysed |-> worker[w].analysed, at |-> now,
          status |-> "open", resolved |-> FALSE, confidence |-> "none"])
    /\ worker' = [worker EXCEPT ![w] = None]
    /\ UNCHANGED <<now, riskVars, draft>>

\* The process ends before an insight is inserted, or the insert fails.
analysis_lost(w) ==
    /\ worker[w] # None
    /\ worker' = [worker EXCEPT ![w] = None]
    /\ UNCHANGED <<insight, now, riskVars, draft>>

\* resolved_at is set by the first resolution and by every later one, and never cleared.
_transition_status(i, status) ==
    /\ insight' = [insight EXCEPT ![i].status = status,
                                  ![i].resolved = @ \/ status = "resolved"]
    /\ UNCHANGED <<now, worker, riskVars, draft>>

AtMost(limit, n) == IF n > limit THEN limit ELSE n

Points(severity) == IF severity = "critical" THEN 30 ELSE IF severity = "warning" THEN 15 ELSE 0

\* _confidence_for, of at most five other insights of the scope.
_confidence_for(i) ==
    LET related == AtMost(5, Cardinality({j \in DOMAIN insight \ {i} :
                                            insight[j].device = insight[i].device}))
        points == 35 + Points(insight[i].severity) + AtMost(30, related * 10)
    IN  IF points >= 75 THEN "high" ELSE IF points >= 50 THEN "medium" ELSE "low"

enrich_insight(i) ==
    /\ insight' = [insight EXCEPT ![i].confidence = _confidence_for(i)]
    /\ UNCHANGED <<now, worker, riskVars, draft>>

-----------------------------------------------------------------------------
(* Risk *)

risk_level(s) ==
    IF s >= 80 THEN "critical" ELSE IF s >= 60 THEN "high" ELSE IF s >= 30 THEN "medium" ELSE "low"

Newest(d) ==
    LET own == {i \in DOMAIN insight : insight[i].device = d}
    IN  {i \in own : Cardinality({j \in own : j > i}) < RECENT}

\* What compute_device_risk makes of a device that answered, or did not: 0 for None.
DevicePart(answered, status, wasm) ==
    IF ~answered THEN 0
    ELSE (IF status = "offline" THEN 30 ELSE IF status = "unknown" THEN 15 ELSE 0)
           + (IF wasm THEN 0 ELSE 10)

Weighty(d, severity) ==
    Cardinality({i \in Newest(d) : /\ insight[i].status # "resolved"
                                   /\ insight[i].severity = severity})

compute_device_risk(d, part) ==
    AtMost(100, part + 25 * Weighty(d, "critical") + 12 * Weighty(d, "warning") + 4 * Weighty(d, "info"))

Row(s, evidence) == [score |-> s, level |-> risk_level(s), devices |-> evidence]

\* The device is fetched first; the insights are read when the score is stored.
compute_and_store_device_risk(d, part) ==
    /\ score' = [score EXCEPT ![d] = Row(compute_device_risk(d, part), <<>>)]
    /\ UNCHANGED <<insightVars, fleet_task, draft>>

\* A fleet's devices are looked at one after the other; a second computation may overtake.
fleet_risk_start ==
    /\ fleet_task = None
    /\ fleet_task' = [scores |-> <<>>, total |-> 0, worst |-> 0]
    /\ UNCHANGED <<insightVars, score, draft>>

fleet_risk_next(d, part) ==
    /\ fleet_task # None /\ Len(fleet_task.scores) < Cardinality(Device)
    /\ LET s == compute_device_risk(d, part) IN
         fleet_task' = [scores |-> Append(fleet_task.scores, s), total |-> fleet_task.total + s,
                        worst |-> IF s > fleet_task.worst THEN s ELSE fleet_task.worst]
    /\ UNCHANGED <<insightVars, score, draft>>

\* What Python's round may give for a/b: a tie goes either way, as a float's error decides.
Rounded(a, b) == {r \in (a \div b)..(a \div b + 1) : 2 * r * b - b <= 2 * a /\ 2 * a <= 2 * r * b + b}

FleetScores(task) ==
    IF task.scores = <<>> THEN {20}
    ELSE UNION {Rounded(7 * avg + 3 * task.worst, 10) : avg \in Rounded(task.total, Len(task.scores))}

\* No members, or none the fleet service told of, scores 20.
compute_and_store_fleet_risk ==
    /\ fleet_task # None /\ Len(fleet_task.scores) \in {0, Cardinality(Device)}
    /\ \E s \in FleetScores(fleet_task) :
         score' = [score EXCEPT !["fleet"] = Row(AtMost(100, s), fleet_task.scores)]
    /\ fleet_task' = None
    /\ UNCHANGED <<insightVars, draft>>

-----------------------------------------------------------------------------
(* Function drafts *)

build_draft ==
    /\ draft.status = "none"
    /\ draft' = [draft EXCEPT !.status = "draft"]
    /\ UNCHANGED <<insightVars, riskVars>>

review_function_draft ==
    /\ draft.status # "none"
    /\ draft' = [draft EXCEPT !.status = "reviewed"]
    /\ UNCHANGED <<insightVars, riskVars>>

\* A placement reads the draft, asks for each candidate and then commits what it changed:
\* the session writes the changed columns alone, not the copy it holds.
placement_for_draft_start ==
    /\ draft.status # "none" /\ draft.copy = "none"
    /\ draft' = [draft EXCEPT !.copy = draft.status]
    /\ UNCHANGED <<insightVars, riskVars>>

placement_for_draft ==
    /\ draft.copy # "none"
    /\ draft' = [draft EXCEPT !.placed = TRUE, !.copy = "none"]
    /\ UNCHANGED <<insightVars, riskVars>>

Parts == {DevicePart(a, s, w) : a \in BOOLEAN, s \in Status, w \in BOOLEAN}

EventSteps(devices, categories) ==
    \/ tick
    \/ \E w \in Worker, d \in devices, c \in categories : process_event(w, d, c)
    \/ \E w \in Worker : create_insight_from_analysis(w) \/ analysis_lost(w)

OperatorSteps ==
    \/ \E i \in DOMAIN insight, s \in {"acknowledged", "resolved"} : _transition_status(i, s)
    \/ \E i \in DOMAIN insight : enrich_insight(i)

RiskSteps ==
    \/ \E d \in Device, p \in Parts : compute_and_store_device_risk(d, p) \/ fleet_risk_next(d, p)
    \/ fleet_risk_start \/ compute_and_store_fleet_risk

DraftSteps ==
    build_draft \/ review_function_draft \/ placement_for_draft_start \/ placement_for_draft

Next == EventSteps(Device, Category) \/ OperatorSteps \/ RiskSteps \/ DraftSteps

Spec == Init /\ [][Next]_vars

-----------------------------------------------------------------------------

\* An insight of a repeated event is critical if and only if it is at least the THRESHOLD-th
\* of its kind in the window that ends with its analysis, whatever was inserted while its
\* summary was awaited.
EscalationIsRight ==
    \A i \in DOMAIN insight : insight[i].category \in Escalating =>
        (insight[i].severity = "critical"
           <=> _count_recent(i - 1, insight[i].device, insight[i].category,
                             insight[i].analysed - WINDOW) + 1 >= THRESHOLD)

\* A fleet is scored between its best and its worst device, whatever is rounded, and a
\* resolved insight says when it was.
ScoresAreRight ==
    /\ \A i \in DOMAIN insight : insight[i].status = "resolved" => insight[i].resolved
    /\ score["fleet"] # None /\ score["fleet"].devices # <<>> =>
         \E i, j \in DOMAIN score["fleet"].devices :
            score["fleet"].score \in score["fleet"].devices[i]..score["fleet"].devices[j]
=============================================================================
