------------------------------ MODULE Telemetry -------------------------------
(***************************************************************************)
(* device-service: the samples one device sends, the objectives (SLO) they *)
(* are held against and the assistant that reads the violations.  A batch  *)
(* is stored and committed first; then the objectives are read, and their  *)
(* violations committed and published.                                     *)
(*                                                                         *)
(* A sample's time is the one the agent gives it, so a batch that comes    *)
(* late is older than what is stored.                                      *)
(***************************************************************************)
EXTENDS Integers, FiniteSets, FiniteSetsExt

CONSTANTS
    Metric, Value,
    Slo,            \* ids of objectives, each used once
    Missing, Deleted,
    Sample,         \* ids of samples: one batch each
    MaxTime,        \* times of samples
    Operators,      \* operators of the objectives that are created
    TopMetrics,     \* 5: metrics the assistant reports
    Medium, High,   \* 2 and 5: violations of a medium and a high severity
    Limit           \* 200: violations the assistant reads

VARIABLES
    sample,     \* the table device_telemetry
    slo,        \* the table device_slos
    violation,  \* the table slo_violations
    batch,      \* the handler of each sample's batch
    published,  \* device.slo.violated events
    due         \* objectives each sample broke when it was stored, and that have
                \* not changed before it was evaluated

vars == <<sample, slo, violation, batch, published, due>>

Operator == {"lt", "lte", "gt", "gte", "eq"}
Reading == [id: Sample, metric: Metric, value: Value, ts: 0..MaxTime]
Objective == [metric: Metric, operator: Operator, threshold: Value, enabled: BOOLEAN]
Violation == [slo: Slo, sample: Sample, metric: Metric, value: Value, threshold: Value,
              operator: Operator, ts: 0..MaxTime]

\* What the constants have to be for the proofs.
ConstantsFit ==
    /\ {Missing, Deleted} \cap Objective = {}
    /\ Operators \subseteq Operator
    /\ IsFiniteSet(Slo) /\ IsFiniteSet(Metric)
    /\ {TopMetrics, Medium, High, Limit, MaxTime} \subseteq Nat

TypeOK ==
    /\ sample \subseteq Reading
    /\ slo \in [Slo -> Objective \cup {Missing, Deleted}]
    /\ violation \subseteq Violation /\ published \subseteq Violation
    /\ batch \in [Sample -> {"new", "stored", "evaluated", "done", "lost"}]
    /\ due \in [Sample -> SUBSET Slo]

Init ==
    /\ sample = {}
    /\ slo = [o \in Slo |-> Missing]
    /\ violation = {} /\ published = {}
    /\ batch = [s \in Sample |-> "new"]
    /\ due = [s \in Sample |-> {}]

-----------------------------------------------------------------------------
(* Objectives *)

\* The objective is the assertion value <operator> threshold.
Met(v, o) == CASE o.operator = "lt"  -> v < o.threshold
               [] o.operator = "lte" -> v <= o.threshold
               [] o.operator = "gt"  -> v > o.threshold
               [] o.operator = "gte" -> v >= o.threshold
               [] o.operator = "eq"  -> v = o.threshold

Defined(o) == slo[o] \notin {Missing, Deleted}

\* Objective o changes: no batch still to be evaluated has to find it broken.
Changed(o) ==
    /\ due' = [s \in Sample |-> IF batch[s] = "stored" THEN due[s] \ {o} ELSE due[s]]
    /\ UNCHANGED <<sample, violation, batch, published>>

create_slo(o, m, op, t) ==
    /\ slo[o] = Missing
    /\ slo' = [slo EXCEPT ![o] = [metric |-> m, operator |-> op, threshold |-> t,
                                  enabled |-> TRUE]]
    /\ Changed(o)

update_slo(o, t, on) ==
    /\ Defined(o)
    /\ slo' = [slo EXCEPT ![o].threshold = t, ![o].enabled = on]
    /\ Changed(o)

\* Its violations stay.
delete_slo(o) ==
    /\ Defined(o)
    /\ slo' = [slo EXCEPT ![o] = Deleted]
    /\ Changed(o)

-----------------------------------------------------------------------------
(* Samples *)

\* Objectives in force that a reading breaks.
Broken(r) == {o \in Slo : /\ Defined(o) /\ slo[o].enabled
                          /\ slo[o].metric = r.metric /\ ~Met(r.value, slo[o])}

ingest_telemetry(r) ==
    /\ batch[r.id] = "new"
    /\ sample' = sample \cup {r}
    /\ batch' = [batch EXCEPT ![r.id] = "stored"]
    /\ due' = [due EXCEPT ![r.id] = Broken(r)]
    /\ UNCHANGED <<slo, violation, published>>

Found(r) == {[slo |-> o, sample |-> r.id, metric |-> r.metric, value |-> r.value,
              threshold |-> slo[o].threshold, operator |-> slo[o].operator,
              ts |-> r.ts] : o \in Broken(r)}

\* Mutant: only a sample newer than what is stored is evaluated.
evaluate_slos_newest(s) ==
    /\ batch[s] = "stored"
    /\ \E r \in sample :
         /\ r.id = s
         /\ violation' = IF \A q \in sample : q.ts <= r.ts THEN violation \cup Found(r)
                                                            ELSE violation
    /\ batch' = [batch EXCEPT ![s] = "evaluated"]
    /\ UNCHANGED <<sample, slo, published, due>>

evaluate_slos(s) ==
    /\ batch[s] = "stored"
    /\ \E r \in sample : r.id = s /\ violation' = violation \cup Found(r)
    /\ batch' = [batch EXCEPT ![s] = "evaluated"]
    /\ UNCHANGED <<sample, slo, published, due>>

publish_violations(s) ==
    /\ batch[s] = "evaluated"
    /\ published' = published \cup {v \in violation : v.sample = s}
    /\ batch' = [batch EXCEPT ![s] = "done"]
    /\ UNCHANGED <<sample, slo, violation, due>>

\* The process or the connection is lost after the samples are stored: nobody
\* evaluates them again.
lose(s) ==
    /\ batch[s] \in {"stored", "evaluated"}
    /\ batch' = [batch EXCEPT ![s] = "lost"]
    /\ UNCHANGED <<sample, slo, violation, published, due>>

Next ==
    \/ \E o \in Slo :
         \/ delete_slo(o)
         \/ \E m \in Metric, op \in Operators, t \in Value : create_slo(o, m, op, t)
         \/ \E t \in Value, on \in BOOLEAN : update_slo(o, t, on)
    \/ \E s \in Sample :
         \/ evaluate_slos(s) \/ publish_violations(s) \/ lose(s)
    \/ \E r \in Reading : ingest_telemetry(r)

Spec == Init /\ [][Next]_vars

-----------------------------------------------------------------------------
(* Reads *)

\* Rows of one metric with the greatest time: any of them when there are several.
latest_telemetry(m) ==
    {r \in sample : r.metric = m /\ \A q \in sample : q.metric = m => q.ts <= r.ts}

list_violations(since) == {v \in violation : v.ts >= since}

\* Mutant: the oldest n.
Newest_oldest(V, n) ==
    CHOOSE W \in SUBSET V : Cardinality(W) = n /\ \A w \in W, v \in V \ W : w.ts <= v.ts

\* The first n violations in the order of their times, the newest first.
Newest(V, n) ==
    CHOOSE W \in SUBSET V : Cardinality(W) = n /\ \A w \in W, v \in V \ W : v.ts <= w.ts

\* slo_assistant goes through the newest violations of the window and keeps of each
\* metric the newest one and their number.
slo_assistant(since) ==
    LET V == list_violations(since)
        read == Newest(V, Min({Limit, Cardinality(V)}))
        of(m) == {v \in read : v.metric = m}
    IN  [m \in Metric |->
           [count |-> Cardinality(of(m)),
            latest |-> IF of(m) = {} THEN Missing
                       ELSE CHOOSE v \in of(m) : \A w \in of(m) : w.ts <= v.ts]]

severity(n) == IF n >= High THEN 2 ELSE IF n >= Medium THEN 1 ELSE 0

\* The metrics it reports, those with most violations first.
top_metrics(agg) ==
    LET hit == {m \in Metric : agg[m].count > 0}
    IN  CHOOSE T \in SUBSET hit :
          /\ Cardinality(T) = Min({TopMetrics, Cardinality(hit)})
          /\ \A m \in T, n \in hit \ T : agg[n].count <= agg[m].count

-----------------------------------------------------------------------------
(* Properties *)

\* A violation is one of a stored sample and breaks the bound it names.  A batch
\* that was not lost leaves none out: every objective its sample broke has its
\* violation, and its event, unless the objective changed before it was evaluated.
ViolationsAccount ==
    /\ \A v \in violation :
         /\ \E r \in sample : r.id = v.sample /\ r.metric = v.metric /\ r.value = v.value
         /\ ~Met(v.value, v)
    /\ \A s \in Sample :
         /\ batch[s] \in {"evaluated", "done"} =>
              due[s] \subseteq {v.slo : v \in {w \in violation : w.sample = s}}
         /\ batch[s] = "done" => {v \in violation : v.sample = s} \subseteq published

\* What the assistant says is true of the violations of its window, if it has any: it counts all it
\* may read, names the newest of each metric, and leaves out no metric more severe
\* than one it reports; and no violation is newer than the latest reading.
AssistantIsRight ==
    \A since \in 0..MaxTime :
        LET V == list_violations(since)
            agg == slo_assistant(since)
            top == top_metrics(agg)
            of(m) == {v \in V : v.metric = m}
        IN  V # {} =>
            /\ Cardinality(UNION {{m} \X (1..agg[m].count) : m \in Metric}) =
                 Min({Limit, Cardinality(V)})
            /\ \A m \in Metric :
                 /\ agg[m].count <= Cardinality(of(m))
                 /\ agg[m].count > 0 =>
                      /\ agg[m].latest \in of(m)
                      /\ \A v \in of(m) : v.ts <= agg[m].latest.ts
                      /\ \A r \in latest_telemetry(m) : agg[m].latest.ts <= r.ts
                 /\ m \notin top =>
                      \A n \in top : severity(agg[m].count) <= severity(agg[n].count)
=============================================================================
