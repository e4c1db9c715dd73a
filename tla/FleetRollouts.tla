---------------------------- MODULE FleetRollouts -----------------------------
(***************************************************************************)
(* execution-service: calls that run something on every member of a fleet, *)
(* or several steps on one device.  The members are read once; then, one   *)
(* by one, an execution is created and dispatched, with awaits between, so *)
(* calls overlap each other, the fleet's changes and the executions' own   *)
(* lives (module Execution, which this module abstracts to a status).      *)
(***************************************************************************)
EXTENDS Fleet

CONSTANTS
    MaxRows,                    \* executions, numbered as they are created
    Op, NoOp,                   \* calls
    Plugin,                     \* what is installed or run; NoPlugin: a command
    NoPlugin,
    RingSizes,                  \* ring_sizes of the rollouts
    MaxRings,                   \* values of max_rings; 0: none given
    Steps,                      \* numbers of steps of the runbooks
    Outcomes,                   \* statuses a dispatched execution moves to
    MaxExecutionsPerDevice

VARIABLES
    row,        \* the table executions
    op          \* the calls

vars == <<fleet, member, health, status, row, op>>

Execution == 1..MaxRows
NoExecution == 0

Active == {"queued", "dispatched", "running"}
Failed == {"failed", "timeout", "cancelled"}
Final == Failed \cup {"succeeded"}

\* `by` is the call that created it; `sent` is dispatched_at: whether it is set.
Row == [device: Device, plugin: Plugin \cup {NoPlugin}, status: Active \cup Final,
        by: Op, sent: BOOLEAN, old: BOOLEAN]

\* What a call reports of one step.
Result == [device: Device, execution: Execution \cup {NoExecution}, status: {"dispatched", "error"}]

\* A call goes through its rings and has a list of results for each it went into.
FleetCall == [kind: {"rollout", "invoke", "runbook", "deploy"}, plugin: Plugin \cup {NoPlugin},
              stop: BOOLEAN, rings: Seq(Seq(Device)), row: Execution \cup {NoExecution},
              results: Seq(Seq(Result)),
              status: {"going", "rolling_out", "stopped_on_failure", "error"}]

NoRow == [status |-> "none"]
Rows == {e \in Execution : row[e] # NoRow}

\* The tables are finite, no call is the marker, and the numbers are those the code accepts.
ConstantsFit ==
    /\ IsFiniteSet(Device) /\ IsFiniteSet(Plugin) /\ {Missing, Deleted} \cap {"active"} = {}
    /\ NoOp \notin FleetCall
    /\ Value \subseteq Nat /\ NoValue \notin Value
    /\ MaxRows \in Nat
    /\ RingSizes \subseteq Seq(Nat \ {0}) \ {<< >>} /\ MaxRings \subseteq Nat /\ Steps \subseteq Nat \ {0}
    /\ Outcomes \subseteq Final \cup {"running"}

TypeOK ==
    /\ FleetTypeOK
    /\ row \in [Execution -> Row \cup {NoRow}]
    /\ op \in [Op -> FleetCall \cup {NoOp}]

Init ==
    /\ FleetInit
    /\ row = [e \in Execution |-> NoRow]
    /\ op = [o \in Op |-> NoOp]

\* The fleet has its members already.
InitWith(f, members) ==
    /\ fleet = [i \in Fleet |-> IF i = f THEN "active" ELSE Missing]
    /\ member = {<<f, d>> : d \in members}
    /\ health = [i \in Fleet |-> NoReport]
    /\ status = [d \in Device |-> "online"]
    /\ row = [e \in Execution |-> NoRow]
    /\ op = [o \in Op |-> NoOp]

-----------------------------------------------------------------------------
(* Rings *)

\* Mutant: devices past the listed sizes are left out.
_compute_canary_rings_listed(total, sizes, max) ==
    IF max > 0 THEN SubSeq(sizes, 1, IF max < Len(sizes) THEN max ELSE Len(sizes)) ELSE sizes

\* The devices before ring i: the sum of the sizes before it.
cursor(sizes, i) == Cardinality(UNION {{j} \X (1..sizes[j]) : j \in 1..i - 1})

\* One more ring takes the devices the sizes leave, unless max_rings cuts the list.
_compute_canary_rings(total, sizes, max) ==
    LET covered == cursor(sizes, Len(sizes) + 1)
    IN  IF max > 0 THEN SubSeq(sizes, 1, IF max < Len(sizes) THEN max ELSE Len(sizes))
        ELSE IF covered < total THEN Append(sizes, total - covered) ELSE sizes

\* ring_size instead of ring_sizes: equal chunks.
chunks(total, size) ==
    [i \in 1..((total + size - 1) \div size) |->
        IF i * size <= total THEN size ELSE total - (i - 1) * size]

\* The devices of each ring: slices of the list, the last ones may be empty.
Slices(devices, sizes) ==
    [i \in 1..Len(sizes) |->
        LET from == cursor(sizes, i)
        IN  SubSeq(devices, from + 1, IF from + sizes[i] < Len(devices) THEN from + sizes[i]
                                                                        ELSE Len(devices))]

-----------------------------------------------------------------------------
(* Calls *)

Going(o) == op[o] # NoOp /\ op[o].status = "going"

Start(o, kind, plugin, rings, stop) ==
    /\ op[o] = NoOp
    /\ op' = [op EXCEPT ![o] = [kind |-> kind, plugin |-> plugin, stop |-> stop,
                                rings |-> rings, row |-> NoExecution,
                                results |-> << << >> >>, status |-> "going"]]
    /\ UNCHANGED <<fleetVars, row>>

\* A fleet that is gone or empty is refused.
rollout_execution_to_fleet(o, f, p, sizes, max, stop) ==
    /\ list_fleet_members(f) # {}
    /\ LET devices == SetToSeq(list_fleet_members(f))
       IN  Start(o, "rollout", p,
                 Slices(devices, _compute_canary_rings(Len(devices), sizes, max)), stop)

invoke_function_on_fleet(o, f, p) ==
    /\ list_fleet_members(f) # {}
    /\ Start(o, "invoke", p, <<SetToSeq(list_fleet_members(f))>>, FALSE)

deploy_function_to_fleet(o, f, p, stop) ==
    /\ list_fleet_members(f) # {}
    /\ Start(o, "deploy", p, <<SetToSeq(list_fleet_members(f))>>, stop)

\* A runbook is rings of one step each, all on one device.
execute_runbook(o, d, n, stop) ==
    Start(o, "runbook", NoPlugin, [i \in 1..n |-> <<d>>], stop)

\* The ring a call is in, and what it has of that ring.
Ring(q) == Len(q.results)
Done(q) == q.results[Ring(q)]

Current(o) == op[o].rings[Ring(op[o])][Len(Done(op[o])) + 1]

HasError(results) == \E i \in DOMAIN results : results[i].status = "error"

Noted(q, result) == [q EXCEPT !.results[Ring(q)] = Append(@, result), !.row = NoExecution]

\* The rings after the last device are empty: the loop does nothing in them.
NothingLeft(q) == \A k \in DOMAIN q.rings : k > Ring(q) => q.rings[k] = << >>

\* Mutant: the failures of a ring stop nothing.
Advanced_regardless(q, result) ==
    LET r == Noted(q, result)
    IN  IF Len(Done(r)) < Len(q.rings[Ring(q)]) THEN r
        ELSE IF NothingLeft(q) THEN [r EXCEPT !.status = "rolling_out"]
        ELSE [r EXCEPT !.results = Append(@, << >>)]

\* A result is noted; a ring with a failure is the last one of a call that stops on
\* failures.
Advanced(q, result) ==
    LET r == Noted(q, result)
    IN  IF Len(Done(r)) < Len(q.rings[Ring(q)]) THEN r
        ELSE IF q.stop /\ HasError(Done(r)) THEN [r EXCEPT !.status = "stopped_on_failure"]
        ELSE IF NothingLeft(q) THEN [r EXCEPT !.status = "rolling_out"]
        ELSE [r EXCEPT !.results = Append(@, << >>)]

Error(o) == [device |-> Current(o), execution |-> NoExecution, status |-> "error"]

Note(o, result) == op' = [op EXCEPT ![o] = Advanced(op[o], result)]

ActiveOf(d) == {e \in Rows : row[e].device = d /\ row[e].status \in Active}
Full(d) == Cardinality(ActiveOf(d)) >= MaxExecutionsPerDevice

\* create_execution of the next device's row.
Created(o, e) ==
    /\ e = Cardinality(Rows) + 1
    /\ row' = [row EXCEPT ![e] = [device |-> Current(o), plugin |-> op[o].plugin,
                                  status |-> "queued", by |-> o, sent |-> FALSE,
                                  old |-> FALSE]]
    /\ UNCHANGED fleetVars

create_step(o, e) ==
    /\ Going(o) /\ op[o].kind # "deploy" /\ op[o].row = NoExecution
    /\ ~Full(Current(o))
    /\ Created(o, e)
    /\ op' = [op EXCEPT ![o].row = e]

\* The device's queue is full, or a runbook's step is not well formed.
create_refused(o) ==
    /\ Going(o) /\ op[o].kind # "deploy" /\ op[o].row = NoExecution
    /\ Full(Current(o)) \/ op[o].kind = "runbook"
    /\ Note(o, Error(o))
    /\ UNCHANGED <<fleetVars, row>>

\* Mutant: a row that is cancelled before its dispatch is reported dispatched.
dispatch_step_blind(o) ==
    /\ Going(o) /\ op[o].row # NoExecution
    /\ LET e == op[o].row
           sent == [device |-> Current(o), execution |-> e, status |-> "dispatched"]
       IN  /\ row' = IF row[e].status # "queued" THEN row
                     ELSE [row EXCEPT ![e].status = "dispatched", ![e].sent = TRUE]
           /\ Note(o, sent)
    /\ UNCHANGED fleetVars

\* dispatch_execution.  It answers 409 for a row that is not queued any more.  The
\* plugin and the capabilities are asked for after the row is committed "dispatched".
dispatch_step(o) ==
    /\ Going(o) /\ op[o].row # NoExecution
    /\ LET e == op[o].row
           sent == [device |-> Current(o), execution |-> e, status |-> "dispatched"]
       IN  IF row[e].status = "queued"
           THEN /\ row' = [row EXCEPT ![e].status = "dispatched", ![e].sent = TRUE]
                /\ \/ Note(o, sent)
                   \/ op[o].plugin # NoPlugin /\ Note(o, Error(o))
           ELSE Note(o, Error(o)) /\ UNCHANGED row
    /\ UNCHANGED fleetVars

\* deploy calls dispatch_execution(exec_id) without its request: the TypeError is no
\* HTTPException, so the call ends at the first row it creates, and leaves it queued.
deploy_step(o, e) ==
    /\ Going(o) /\ op[o].kind = "deploy"
    /\ ~Full(Current(o))
    /\ Created(o, e)
    /\ op' = [op EXCEPT ![o].status = "error"]

\* A full queue stops a deploy that stops on failures; there is nothing to cancel, as
\* no execution was ever dispatched.  Otherwise the device is left out.
deploy_refused(o) ==
    /\ Going(o) /\ op[o].kind = "deploy"
    /\ Full(Current(o))
    /\ op' = [op EXCEPT ![o] = IF @.stop THEN [@ EXCEPT !.status = "error"]
                                         ELSE Advanced(@, Error(o))]
    /\ UNCHANGED <<fleetVars, row>>

\* An execution's own life: a report, a cancellation or the time-out loop.
moves(e, s) ==
    /\ e \in Rows
    /\ \/ row[e].status = "queued" /\ s = "cancelled"
       \/ row[e].status = "dispatched" /\ s \in Outcomes
       \/ row[e].status = "running" /\ s \in Outcomes \ {"running"}
    /\ row' = [row EXCEPT ![e].status = s]
    /\ UNCHANGED <<fleetVars, op>>

\* Rows get older than max_last_install_age_hours, the first ones first; no call
\* takes that long.
ages(e) ==
    /\ e \in Rows /\ ~row[e].old
    /\ \A o \in Op : ~Going(o)
    /\ \A i \in Rows : i < e => row[i].old
    /\ row' = [row EXCEPT ![e].old = TRUE]
    /\ UNCHANGED <<fleetVars, op>>

Calls ==
    \/ \E o \in Op :
         \/ create_refused(o) \/ dispatch_step(o) \/ deploy_refused(o)
         \/ \E e \in Execution : create_step(o, e) \/ deploy_step(o, e)
         \/ \E f \in Fleet, p \in Plugin \cup {NoPlugin}, stop \in BOOLEAN :
              \/ \E sizes \in RingSizes, max \in MaxRings :
                   rollout_execution_to_fleet(o, f, p, sizes, max, stop)
              \/ p # NoPlugin /\ deploy_function_to_fleet(o, f, p, stop)
         \/ \E f \in Fleet, p \in Plugin : invoke_function_on_fleet(o, f, p)
         \/ \E d \in Device, n \in Steps, stop \in BOOLEAN : execute_runbook(o, d, n, stop)
    \/ \E e \in Execution : ages(e) \/ \E s \in Outcomes \cup {"cancelled"} : moves(e, s)

Next ==
    \/ Calls
    \/ (FleetChanges \/ FleetReports) /\ UNCHANGED <<row, op>>

Spec == Init /\ [][Next]_vars

-----------------------------------------------------------------------------
(* Reads *)

\* What a fleet's invocation creates is no install; a rollout of a plugin installs it.
Installs(d, p) == {e \in Rows : /\ row[e].device = d /\ row[e].plugin = p
                                /\ op[row[e].by].kind # "invoke"}

Latest(S) == Max(S)

\* Mutant: the plugin is missing unless its latest install succeeded.
issues_latest(d, p) ==
    LET S == Installs(d, p)
    IN  IF S = {} \/ row[Latest(S)].status # "succeeded"
        THEN {"missing"} \cup (IF S # {} /\ row[Latest(S)].status \in Failed THEN {"failed"}
                                                                           ELSE {})
        ELSE IF row[Latest(S)].old THEN {"stale"} ELSE {}

\* The issues drift/analyze reports of one plugin on one device.
issues(d, p) ==
    LET S == Installs(d, p)
    IN  IF \A e \in S : row[e].status # "succeeded"
        THEN {"missing"} \cup (IF S # {} /\ row[Latest(S)].status \in Failed THEN {"failed"}
                                                                           ELSE {})
        ELSE IF row[Latest(S)].old THEN {"stale"} ELSE {}

drift_score(d) ==
    LET count(i) == Cardinality({p \in Plugin : i \in issues(d, p)})
        s == 60 * count("missing") + 25 * count("stale") + 20 * count("failed")
    IN  IF s < 100 THEN s ELSE 100

\* fleet_deploy_status counts rows of the fleet's members, not devices.
fleet_deploy_status(f, p) ==
    LET S == UNION {Installs(d, p) : d \in list_fleet_members(f)}
        count(T) == Cardinality({e \in S : row[e].status \in T})
    IN  [total |-> Cardinality(list_fleet_members(f)), installed |-> count({"succeeded"}),
         pending |-> count(Active), failed |-> count({"failed"})]

-----------------------------------------------------------------------------
(* Properties *)

RowsOf(o) == {e \in Rows : row[e].by = o}
Reported(q) == UNION {{q.results[k][i].execution : i \in DOMAIN q.results[k]} : k \in DOMAIN q.results}

\* A result "dispatched" is of a row of its call and device that was dispatched and that
\* no other result names, although rows are cancelled under the call.
DispatchedAreOwn(o) ==
    LET R == op[o].results
    IN  \A k \in DOMAIN R : \A i \in DOMAIN R[k] : R[k][i].status = "dispatched" =>
          /\ R[k][i].execution \in RowsOf(o)
          /\ row[R[k][i].execution].device = R[k][i].device
          /\ row[R[k][i].execution].sent
          /\ \A l \in DOMAIN R : \A j \in DOMAIN R[l] :
               R[l][j].execution = R[k][i].execution => l = k /\ j = i

\* A row no result names is the one being dispatched or one of a device reported as an
\* error.
OrphansAreErrors(o) ==
    LET R == op[o].results
    IN  \A e \in RowsOf(o) \ (Reported(op[o]) \cup {op[o].row}) :
          \E k \in DOMAIN R : \E i \in DOMAIN R[k] :
              R[k][i].status = "error" /\ R[k][i].device = row[e].device

\* A call's results follow the members it read, ring by ring and one each: of the rings it
\* left all, and of all rings once it has ended without stopping.
ResultsFollow(q) ==
    /\ \A k \in DOMAIN q.results :
         /\ Len(q.results[k]) <= Len(q.rings[k])
         /\ \A i \in DOMAIN q.results[k] : q.results[k][i].device = q.rings[k][i]
         /\ k < Ring(q) => Len(q.results[k]) = Len(q.rings[k])
    /\ q.status = "rolling_out" =>
         \A k \in DOMAIN q.rings : \A i \in DOMAIN q.rings[k] :
             k \in DOMAIN q.results /\ i \in DOMAIN q.results[k]

\* The results of a call account for the members it read and for its rows.
ResultsAccount ==
    \A o \in Op : op[o] # NoOp =>
        /\ ResultsFollow(op[o]) /\ DispatchedAreOwn(o)
        /\ op[o].kind # "deploy" => OrphansAreErrors(o)

\* A rollout or a runbook that stops on failures goes into no ring after one with a
\* failure, and says so.
StopsAfterFailure ==
    \A o \in Op : op[o] # NoOp /\ op[o].stop /\ op[o].kind # "deploy" =>
        \A k \in DOMAIN op[o].results : HasError(op[o].results[k]) =>
            k = Ring(op[o]) /\ op[o].status # "rolling_out"

\* The rings of n devices, which are their places in the list.
RingsOf(n, sizes, max) == Slices([i \in 1..n |-> i], _compute_canary_rings(n, sizes, max))

\* Whatever the sizes, the rings are disjoint runs of the list of devices that start with
\* its first, none is empty before one that is not, and without max_rings they take all
\* of the list.
RingsCover(n, sizes, max) ==
    LET rings == RingsOf(n, sizes, max)
        places(k) == {rings[k][i] : i \in DOMAIN rings[k]}
    IN  /\ \A k \in DOMAIN rings : \A i, j \in DOMAIN rings[k] : i < j => rings[k][i] < rings[k][j]
        /\ \A k, l \in DOMAIN rings : k < l =>
             /\ \A p \in places(k), q \in places(l) : p < q
             /\ rings[k] = << >> => rings[l] = << >>
        /\ \E m \in 0..n : /\ UNION {places(k) : k \in DOMAIN rings} = 1..m
                           /\ max = 0 => m = n

\* The rings of the next rollout to a fleet that has members; they depend on no call before
\* it, so the states without one are enough.
FleetsAreCovered ==
    (\A o \in Op : op[o] = NoOp) =>
        \A f \in Fleet : list_fleet_members(f) # {} =>
            LET n == Cardinality(list_fleet_members(f))
            IN  \A sizes \in RingSizes \cup {chunks(n, k) : k \in 1..n + 1}, max \in MaxRings :
                  RingsCover(n, sizes, max)

\* Drift says what the rows say: a device without drift has an install that succeeded
\* and one that is recent, the score is of 0 to 100 and grows with the plugins that
\* are missing; and a failed install is reported only while none has succeeded.
DriftIsTrue ==
    \A d \in Device :
        LET score == drift_score(d)
        IN  /\ score \in 0..100
            /\ (\E p \in Plugin : "missing" \in issues(d, p)) => score >= 60
            /\ score = 0 =>
                 \A p \in Plugin : /\ \E e \in Installs(d, p) : row[e].status = "succeeded"
                                   /\ \E e \in Installs(d, p) : ~row[e].old
            /\ \A p \in Plugin : "failed" \in issues(d, p) =>
                 \A e \in Installs(d, p) : row[e].status # "succeeded"

\* deploy_function_to_fleet: "Deploy (install) a function on all devices in a fleet."
\* A deploy that has ended left no member out but those whose queue was full.
DeployReaches ==
    \A o \in Op : op[o] # NoOp /\ op[o].kind = "deploy" /\ op[o].status # "going" /\ ~op[o].stop =>
        \A i \in DOMAIN op[o].rings[1] :
            \/ \E e \in RowsOf(o) : row[e].device = op[o].rings[1][i]
            \/ i \in DOMAIN op[o].results[1]
=============================================================================
