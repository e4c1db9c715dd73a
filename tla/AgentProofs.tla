----------------------------- MODULE AgentProofs -----------------------------
(***************************************************************************)
(* Theorems of Agent, for every set of dispatches, handlers and samples    *)
(* and every bound.                                                        *)
(***************************************************************************)
EXTENDS Agent, TLAPS

USE AgentAssumption

-----------------------------------------------------------------------------
(* Types *)

\* What a final report carries.
LEMMA ReportType ==
    ASSUME NEW e \in Exec, NEW s \in Result
    PROVE  report(e, s) \in Body
BY DEF report, Body, Report

\* What a flush carries.
LEMMA BatchType ==
    ASSUME NEW S \in SUBSET Sample
    PROVE  batch(S) \in Body
BY DEF batch, Body, Batch

\* A callback, whatever its answer, keeps the types of the services.
LEMMA CallbackType ==
    ASSUME TypeOK, NEW e \in Exec, NEW s \in VALID_STATUSES, NEW a \in Answer,
           callback(e, s, a)
    PROVE  row' \in [Exec -> RowStatus] /\ received' = received /\ faults' \in Nat
<1>1. [row EXCEPT ![e] = s] \in [Exec -> RowStatus]
  BY DEF TypeOK, RowStatus
<1>2. faults' \in Nat
  BY DEF callback, Faulted, TypeOK
<1>3. row' = row \/ row' = [row EXCEPT ![e] = s]
  BY DEF callback, Answer
<1> QED
  BY <1>1, <1>2, <1>3 DEF callback, TypeOK

\* So does a batch of samples.
LEMMA StoreType ==
    ASSUME TypeOK, NEW S \in SUBSET Sample, NEW a \in Answer, store_samples(S, a)
    PROVE  row' = row /\ received' \in [Sample -> Nat] /\ faults' \in Nat
<1> DEFINE stored == [s \in Sample |-> IF s \in S THEN received[s] + 1 ELSE received[s]]
<1>1. stored \in [Sample -> Nat]
  BY DEF TypeOK
<1>2. received' = received \/ received' = stored
  BY DEF store_samples, Answer
<1>3. faults' \in Nat
  BY DEF store_samples, Faulted, TypeOK
<1> QED
  BY <1>1, <1>2, <1>3 DEF store_samples, TypeOK

\* The statuses a result can have are statuses of the table.
LEMMA ResultIsValid == Result \subseteq VALID_STATUSES
BY DEF Result, VALID_STATUSES, TERMINAL_STATUSES

\* So does every request the agent sends.
LEMMA PostType ==
    ASSUME TypeOK, NEW b \in Body, NEW a \in Answer, Post(b, a)
    PROVE  /\ row' \in [Exec -> RowStatus] /\ received' \in [Sample -> Nat]
           /\ faults' \in Nat
<1>1. CASE b.exec = NoExec
  <2>1. b.samples \in SUBSET Sample
    BY <1>1 DEF Body, Report, Batch
  <2>2. store_samples(b.samples, a)
    BY <1>1 DEF Post
  <2> QED
    BY <2>1, <2>2, StoreType DEF TypeOK
<1>2. CASE b.exec # NoExec
  <2>1. b.exec \in Exec /\ b.status \in VALID_STATUSES
    BY <1>2, ResultIsValid DEF Body, Report, Batch
  <2>2. callback(b.exec, b.status, a)
    BY <1>2 DEF Post
  <2> QED
    BY <2>1, <2>2, CallbackType DEF TypeOK
<1> QED
  BY <1>1, <1>2

\* A new entry is an entry.
LEMMA EnqueueType ==
    ASSUME TypeOK, NEW b \in Body, enqueue(b)
    PROVE  queue' \subseteq Item /\ nextId' \in Nat
<1>1. [id |-> nextId, body |-> b, attempts |-> 0, sends |-> 0] \in Item
  BY DEF Item, TypeOK
<1> QED
  BY <1>1 DEF enqueue, TypeOK

\* The counters of an entry the drain has sent or counted keep their range.
LEMMA ItemType ==
    ASSUME NEW i \in Item
    PROVE  /\ [i EXCEPT !.sends = @ + 1] \in Item
           /\ i.attempts + 1 < MaxAttempts => [i EXCEPT !.attempts = @ + 1] \in Item
BY DEF Item

\* Settling an entry keeps the types of the queue and of what left it.
LEMMA SettleType ==
    ASSUME TypeOK, NEW i \in queue, settle(i)
    PROVE  TypeOK'
<1>1. i \in Item /\ i.body \in Body /\ i.id \in Nat
  BY DEF TypeOK, Item
<1>2. queue' \subseteq Item /\ told' \subseteq Body /\ dropped' \subseteq Body
  <2>1. CASE delivered(tunnel.answer)
    BY <2>1, <1>1 DEF settle, ack, TypeOK
  <2>2. CASE ~delivered(tunnel.answer)
    <3>1. CASE i.attempts + 1 >= MaxAttempts
      BY <3>1, <2>2, <1>1 DEF settle, nack, TypeOK
    <3>2. CASE ~(i.attempts + 1 >= MaxAttempts)
      <4>1. i.attempts \in Nat
        BY <1>1 DEF Item
      <4>3. i.attempts + 1 < MaxAttempts
        BY <4>1, <3>2, SMT DEF AgentAssumption
      <4>2. [i EXCEPT !.attempts = @ + 1] \in Item
        BY <4>3, <1>1, ItemType
      <4> QED
        BY <4>2, <3>2, <2>2, <1>1 DEF settle, nack, TypeOK
    <3> QED
      BY <3>1, <3>2
  <2> QED
    BY <2>1, <2>2
<1>3. tunnel' \in Tunnel
  BY <1>1 DEF settle, Tunnel, Answer, TypeOK
<1> QED
  BY <1>2, <1>3 DEF settle, TypeOK, link, telemetry, gateway, service

\* A task that is not idle names an execution, and a result once it has one.
TaskHolds ==
    \A t \in Task : /\ task[t].step # "idle" => task[t].exec \in Exec
                    /\ task[t].step \in {"ack", "report"} => task[t].status \in Result

\* Every step of a handler keeps the types.
LEMMA TaskType ==
    ASSUME TypeOK, TaskHolds, NEW t \in Task, TaskStep(t)
    PROVE  TypeOK' /\ TaskHolds'
<1>0. Idle \in Handler /\ \A u \in Task : task[u] \in Handler
  BY DEF TypeOK, Idle, Handler
<1>1. ASSUME NEW a \in Answer, report_running(t, a)
      PROVE  TypeOK' /\ TaskHolds'
  <2>1. task[t].exec \in Exec /\ "running" \in VALID_STATUSES
    BY <1>1 DEF report_running, TaskHolds, VALID_STATUSES, ACTIVE_STATUSES
  <2>2. row' \in [Exec -> RowStatus] /\ received' = received /\ faults' \in Nat
    BY <1>1, <2>1, CallbackType DEF report_running
  <2>3. task' \in [Task -> Handler]
    BY <1>1, <1>0 DEF report_running, TypeOK, Handler
  <2>4. TaskHolds'
    BY <1>1, <2>1 DEF report_running, TaskHolds, TypeOK
  <2> QED
    BY <1>1, <2>2, <2>3, <2>4 DEF report_running, TypeOK, link, store, telemetry, gateway, history
<1>2. ASSUME NEW a \in Answer, report_result(t, a)
      PROVE  TypeOK' /\ TaskHolds'
  <2> DEFINE b == report(task[t].exec, task[t].status)
  <2>1. b \in Body
    BY <1>2, ReportType DEF report_result, TaskHolds
  <2>2. row' \in [Exec -> RowStatus] /\ received' \in [Sample -> Nat] /\ faults' \in Nat
    BY <1>2, <2>1, PostType DEF report_result
  <2>3. queue' \subseteq Item /\ nextId' \in Nat /\ told' \subseteq Body
    BY <1>2, <2>1, EnqueueType DEF report_result, TypeOK, store
  <2>4. task' \in [Task -> Handler] /\ TaskHolds'
    BY <1>2, <1>0 DEF report_result, TypeOK, TaskHolds, Idle
  <2> QED
    BY <1>2, <2>2, <2>3, <2>4 DEF report_result, TypeOK, link, telemetry, gateway
<1>3. ASSUME NEW s \in Result, execute(t, s)
      PROVE  TypeOK' /\ TaskHolds'
  <2>1. task[t].exec \in Exec
    BY <1>3 DEF execute, TaskHolds
  <2>2. executed' \in [Exec -> SUBSET Result]
    BY <1>3, <2>1 DEF execute, TypeOK
  <2>3. task' \in [Task -> Handler]
    BY <1>3, <1>0 DEF execute, TypeOK, Handler
  <2>4. TaskHolds'
    BY <1>3, <2>1 DEF execute, TaskHolds, TypeOK
  <2> QED
    BY <1>3, <2>2, <2>3, <2>4 DEF execute, TypeOK, link, store, telemetry, gateway, service
<1>4. ASSUME send_ack(t)
      PROVE  TypeOK' /\ TaskHolds'
  <2>1. task[t].exec \in Exec
    BY <1>4 DEF send_ack, TaskHolds
  <2>2. task' \in [Task -> Handler]
    BY <1>4, <1>0 DEF send_ack, TypeOK, Handler
  <2>3. TaskHolds'
    BY <1>4, <2>1 DEF send_ack, TaskHolds, TypeOK
  <2> QED
    BY <1>4, <2>1, <2>2, <2>3
       DEF send_ack, TypeOK, store, telemetry, gateway, service, history
<1> QED
  BY <1>1, <1>2, <1>3, <1>4 DEF TaskStep

\* Every step of the tunnel keeps the types.
LEMMA TunnelType ==
    ASSUME TypeOK, TunnelStep
    PROVE  TypeOK'
<1>1. CASE start_drain
  <2>1. \A i \in queue : i.id \in Nat
    BY DEF TypeOK, Item
  <2>3. {i.id : i \in peek(DrainLimit)} \subseteq Nat
    BY <2>1 DEF peek
  <2>2. tunnel' \in Tunnel
    BY <1>1, <2>3 DEF start_drain, TypeOK, Tunnel
  <2> QED
    BY <1>1, <2>2
       DEF start_drain, TypeOK, link, store, telemetry, gateway, service, history
<1>2. ASSUME NEW i \in queue, settle(i)
      PROVE  TypeOK'
  BY <1>2, SettleType
<1>3. ASSUME NEW i \in queue, NEW a \in Answer, drain(i, a)
      PROVE  TypeOK'
  <2>1. i \in Item /\ i.body \in Body
    BY DEF TypeOK, Item
  <2>2. row' \in [Exec -> RowStatus] /\ received' \in [Sample -> Nat] /\ faults' \in Nat
    BY <1>3, <2>1, PostType DEF drain
  <2>3. queue' \subseteq Item
    BY <1>3, <2>1, ItemType DEF drain, TypeOK
  <2>4. tunnel' \in Tunnel
    BY <1>3 DEF drain, TypeOK, Tunnel
  <2> QED
    BY <1>3, <2>2, <2>3, <2>4 DEF drain, TypeOK, link, telemetry, gateway, history
<1>4. CASE receive_loop
  BY <1>4 DEF receive_loop, TypeOK, Tunnel, link, store, telemetry, gateway, service, history
<1>5. CASE disconnect
  BY <1>5 DEF disconnect, Down, Answer, TypeOK, Tunnel, link, store, telemetry,
              gateway, service, history
<1> QED
  BY <1>1, <1>2, <1>3, <1>4, <1>5 DEF TunnelStep

\* So does telemetry.
LEMMA TelemetryType ==
    ASSUME TypeOK,
           flush \/ (\E s \in Sample : record(s)) \/ (\E a \in Answer : flushed(a))
    PROVE  TypeOK'
<1>1. CASE flush
  BY <1>1 DEF flush, TypeOK, link, store, gateway, service, history
<1>2. ASSUME NEW s \in Sample, record(s)
      PROVE  TypeOK'
  BY <1>2 DEF record, TypeOK, link, store, gateway, service, history
<1>3. ASSUME NEW a \in Answer, flushed(a)
      PROVE  TypeOK'
  <2>1. flight \in SUBSET Sample
    BY DEF TypeOK
  <2>2. row' = row /\ received' \in [Sample -> Nat] /\ faults' \in Nat
    BY <1>3, <2>1, StoreType DEF flushed
  <2>3. queue' \subseteq Item /\ nextId' \in Nat
    BY <1>3, <2>1, BatchType, EnqueueType DEF flushed, TypeOK, store
  <2>4. buffer' \subseteq Sample /\ flight' \subseteq Sample
    BY <1>3 DEF flushed, TypeOK
  <2> QED
    BY <1>3, <2>2, <2>3, <2>4 DEF flushed, TypeOK, link, gateway, history
<1> QED
  BY <1>1, <1>2, <1>3

\* So does the environment, and a restart leaves no task behind.
LEMMA OutsideType ==
    ASSUME TypeOK, TaskHolds,
           \/ connect \/ tunnel_breaks \/ crash
           \/ \E e \in Exec : gateway_push(e) \/ gateway_ack(e)
           \/ \E e \in Exec, s \in {"timeout", Deleted} : service_ends(e, s)
           \/ \E t \in Task, e \in Exec : receive_control(e, t)
    PROVE  TypeOK' /\ TaskHolds'
<1>0. Idle \in Handler /\ \A u \in Task : task[u] \in Handler
  BY DEF TypeOK, Idle, Handler
<1>1. CASE connect
  BY <1>1 DEF connect, TypeOK, TaskHolds, Tunnel, store, telemetry, gateway, service, history
<1>2. CASE tunnel_breaks
  <2>1. task' \in [Task -> Handler] /\ TaskHolds'
    BY <1>0, <1>2 DEF tunnel_breaks, Handler, TaskHolds
  <2> QED
    BY <1>2, <2>1 DEF tunnel_breaks, TypeOK, store, telemetry, gateway, service, history
<1>3. CASE crash
  <2>1. task' \in [Task -> Handler] /\ TaskHolds'
    BY <1>0, <1>3 DEF crash, TaskHolds, Idle
  <2>2. {batch({s}) : s \in buffer \cup flight} \subseteq Body
    BY BatchType DEF TypeOK
  <2>3. {report(task[t].exec, task[t].status) :
           t \in {u \in Task : task[u].step \in {"ack", "report"}}} \subseteq Body
    BY ReportType DEF TaskHolds
  <2>4. wiped' \subseteq Body
    BY <1>3, <2>2, <2>3 DEF crash, TypeOK
  <2>5. tunnel' \in Tunnel
    BY <1>3 DEF crash, Down, Tunnel, Answer
  <2>6. crashes' \in Nat
    BY <1>3 DEF crash, TypeOK
  <2>7. wire' \in [Exec -> Nat]
    BY <1>3 DEF crash
  <2> QED
    BY <1>3, <2>1, <2>4, <2>5, <2>6, <2>7 DEF crash, TypeOK, store, gateway, service
<1>4. ASSUME NEW e \in Exec, gateway_push(e)
      PROVE  TypeOK' /\ TaskHolds'
  <2>1. pushes'[e] \in 0..MaxPushes
    BY <1>4 DEF gateway_push, TypeOK
  <2> QED
    BY <1>4, <2>1 DEF gateway_push, TypeOK, TaskHolds, store, telemetry, service, history
<1>5. ASSUME NEW e \in Exec, gateway_ack(e)
      PROVE  TypeOK' /\ TaskHolds'
  BY <1>5 DEF gateway_ack, TypeOK, TaskHolds, store, telemetry, service, history
<1>6. ASSUME NEW e \in Exec, NEW s \in {"timeout", Deleted}, service_ends(e, s)
      PROVE  TypeOK' /\ TaskHolds'
  BY <1>6 DEF service_ends, TypeOK, TaskHolds, RowStatus, VALID_STATUSES,
              TERMINAL_STATUSES, link, store, telemetry, gateway, history
<1>7. ASSUME NEW t \in Task, NEW e \in Exec, receive_control(e, t)
      PROVE  TypeOK' /\ TaskHolds'
  <2>1. wire' \in [Exec -> Nat]
    BY <1>7 DEF receive_control, TypeOK
  <2>2. task' \in [Task -> Handler]
    BY <1>7, <1>0 DEF receive_control, TypeOK, Handler
  <2>3. TaskHolds'
    BY <1>7 DEF receive_control, TaskHolds, TypeOK
  <2> QED
    BY <1>7, <2>1, <2>2, <2>3
       DEF receive_control, TypeOK, store, telemetry, gateway, service, history
<1> QED
  BY <1>1, <1>2, <1>3, <1>4, <1>5, <1>6, <1>7

\* Nothing but a task's own step or the environment changes the tasks.
LEMMA TaskUnchanged ==
    ASSUME TunnelStep \/ flush \/ (\E s \in Sample : record(s))
             \/ (\E a \in Answer : flushed(a))
    PROVE  task' = task
BY DEF TunnelStep, start_drain, settle, drain, receive_loop, disconnect, flush,
       record, flushed

\* The variables have their types and a task knows its execution and its result.
THEOREM TypeCorrect == Spec => [](TypeOK /\ TaskHolds)
<1>1. Init => TypeOK /\ TaskHolds
  <2>1. Down \in Tunnel /\ Idle \in Handler /\ "dispatched" \in RowStatus
    BY DEF Down, Tunnel, Answer, Idle, Handler, RowStatus, VALID_STATUSES, ACTIVE_STATUSES
  <2>2. 0 \in 0..MaxPushes
    BY DEF AgentAssumption
  <2>3. ASSUME Init PROVE TypeOK
    <3>1. tunnel \in Tunnel /\ task \in [Task -> Handler] /\ row \in [Exec -> RowStatus]
      BY <2>1, <2>3 DEF Init
    <3>2. pushes \in [Exec -> 0..MaxPushes] /\ wire \in [Exec -> Nat]
      BY <2>2, <2>3 DEF Init
    <3>3. received \in [Sample -> Nat] /\ executed \in [Exec -> SUBSET Result]
      BY <2>3 DEF Init
    <3> QED
      BY <2>3, <3>1, <3>2, <3>3 DEF Init, TypeOK
  <2>4. Init => TaskHolds
    BY DEF Init, TaskHolds, Idle
  <2> QED
    BY <2>3, <2>4
<1>2. TypeOK /\ TaskHolds /\ [Next]_vars => TypeOK' /\ TaskHolds'
  <2> SUFFICES ASSUME TypeOK, TaskHolds, [Next]_vars
               PROVE  TypeOK' /\ TaskHolds'
    OBVIOUS
  <2>1. CASE TunnelStep
    BY <2>1, TunnelType, TaskUnchanged DEF TaskHolds
  <2>2. CASE flush \/ (\E s \in Sample : record(s)) \/ (\E a \in Answer : flushed(a))
    BY <2>2, TelemetryType, TaskUnchanged DEF TaskHolds
  <2>3. ASSUME NEW t \in Task, TaskStep(t)
        PROVE  TypeOK' /\ TaskHolds'
    BY <2>3, TaskType
  <2>4. CASE \/ connect \/ tunnel_breaks \/ crash
             \/ \E e \in Exec : gateway_push(e) \/ gateway_ack(e)
             \/ \E e \in Exec, s \in {"timeout", Deleted} : service_ends(e, s)
             \/ \E t \in Task, e \in Exec : receive_control(e, t)
    BY <2>4, OutsideType
  <2>5. CASE UNCHANGED vars
    BY <2>5 DEF vars, TypeOK, TaskHolds, link, store, telemetry, gateway, service, history
  <2> QED
    BY <2>1, <2>2, <2>3, <2>4, <2>5 DEF Next
<1> QED
  BY <1>1, <1>2, PTL DEF Spec

-----------------------------------------------------------------------------
(* What a row keeps *)

\* A request either leaves the row it is about or moves it as the table allows,
\* and one that is answered with success has moved it.
LEMMA PostMoves ==
    ASSUME TypeOK, NEW b \in Body, NEW a \in Answer, Post(b, a)
    PROVE  /\ \/ row' = row /\ (a = "ok" => b.exec = NoExec)
              \/ /\ b.exec \in Exec
                 /\ transition_allowed(row[b.exec], b.status)
                 /\ row' = [row EXCEPT ![b.exec] = b.status]
           /\ b.exec \in Exec => received' = received
<1>1. CASE b.exec = NoExec
  BY <1>1 DEF Post, store_samples, AgentAssumption
<1>2. CASE b.exec # NoExec
  <2>1. b.exec \in Exec
    BY <1>2 DEF Body, Report, Batch
  <2>2. callback(b.exec, b.status, a)
    BY <1>2 DEF Post
  <2> QED
    BY <2>1, <2>2 DEF callback, Answer
<1> QED
  BY <1>1, <1>2

\* Nothing is allowed from a final status.
LEMMA FinalStays ==
    ASSUME NEW from \in Result \cup {Deleted}, NEW to
    PROVE  ~transition_allowed(from, to)
BY DEF transition_allowed, ALLOWED_TRANSITIONS, Result, Deleted

\* Execution e has the final status s or is gone.
Settled(e, s) == row[e] \in {s, Deleted}

\* A request does not unsettle a row.
LEMMA PostSettled ==
    ASSUME TypeOK, NEW b \in Body, NEW a \in Answer, Post(b, a),
           NEW e \in Exec, NEW s \in Result, Settled(e, s)
    PROVE  Settled(e, s)'
<1>1. CASE row' = row
  BY <1>1 DEF Settled
<1>2. CASE /\ b.exec \in Exec
           /\ transition_allowed(row[b.exec], b.status)
           /\ row' = [row EXCEPT ![b.exec] = b.status]
  <2>1. row[e] \in Result \cup {Deleted}
    BY DEF Settled
  <2>2. b.exec # e
    BY <2>1, <1>2, FinalStays
  <2> QED
    BY <1>2, <2>2 DEF Settled, TypeOK
<1> QED
  BY <1>1, <1>2, PostMoves

\* The first report of a task is a callback of the service like any other.
LEMMA RunningMoves ==
    ASSUME TypeOK, NEW e \in Exec, NEW a \in Answer, callback(e, "running", a)
    PROVE  row' = row \/ (/\ transition_allowed(row[e], "running")
                          /\ row' = [row EXCEPT ![e] = "running"])
BY DEF callback, Answer

\* No step of the system unsettles a row.
LEMMA SettledStays ==
    ASSUME TypeOK, TaskHolds, Next, NEW e \in Exec, NEW s \in Result, Settled(e, s)
    PROVE  Settled(e, s)'
<1>0. row[e] \in Result \cup {Deleted}
  BY DEF Settled
<1>1. ASSUME NEW i \in queue, NEW a \in Answer, drain(i, a)
      PROVE  Settled(e, s)'
  <2>1. i.body \in Body
    BY DEF TypeOK, Item
  <2> QED
    BY <1>1, <2>1, PostSettled DEF drain
<1>2. ASSUME NEW t \in Task, NEW a \in Answer, report_result(t, a)
      PROVE  Settled(e, s)'
  <2>1. report(task[t].exec, task[t].status) \in Body
    BY <1>2, ReportType DEF report_result, TaskHolds
  <2> QED
    BY <1>2, <2>1, PostSettled DEF report_result
<1>3. ASSUME NEW t \in Task, NEW a \in Answer, report_running(t, a)
      PROVE  Settled(e, s)'
  <2>1. task[t].exec \in Exec
    BY <1>3 DEF report_running, TaskHolds
  <2>2. \/ row' = row
        \/ /\ transition_allowed(row[task[t].exec], "running")
           /\ row' = [row EXCEPT ![task[t].exec] = "running"]
    BY <1>3, <2>1, RunningMoves DEF report_running
  <2> QED
    BY <1>0, <2>1, <2>2, FinalStays DEF Settled, TypeOK
<1>4. ASSUME NEW x \in Exec, NEW z \in {"timeout", Deleted}, service_ends(x, z)
      PROVE  Settled(e, s)'
  <2>1. CASE z = Deleted
    BY <1>4, <2>1 DEF service_ends, Settled, TypeOK
  <2>2. CASE z # Deleted
    BY <1>0, <1>4, <2>2, FinalStays DEF service_ends, Settled, TypeOK
  <2> QED
    BY <2>1, <2>2
<1>5. ASSUME NEW a \in Answer, flushed(a)
      PROVE  row' = row
  BY <1>5 DEF flushed, store_samples
<1>6. CASE row' = row
  BY <1>6 DEF Settled
<1>7. CASE connect \/ tunnel_breaks \/ crash \/ flush
  BY <1>6, <1>7 DEF connect, tunnel_breaks, crash, flush, service
<1>8. CASE start_drain \/ receive_loop \/ disconnect \/ \E i \in queue : settle(i)
  BY <1>6, <1>8 DEF start_drain, receive_loop, disconnect, settle, service
<1>9. ASSUME NEW t \in Task,
             send_ack(t) \/ (\E r \in Result : execute(t, r))
               \/ (\E x \in Exec : receive_control(x, t))
      PROVE  row' = row
  BY <1>9 DEF send_ack, execute, receive_control, service
<1>10. ASSUME NEW x \in Exec, gateway_push(x) \/ gateway_ack(x)
       PROVE  row' = row
  BY <1>10 DEF gateway_push, gateway_ack, service
<1>11. ASSUME NEW x \in Sample, record(x)
       PROVE  row' = row
  BY <1>11 DEF record, service
<1> QED
  BY <1>1, <1>2, <1>3, <1>4, <1>5, <1>6, <1>7, <1>8, <1>9, <1>10, <1>11
     DEF Next, TunnelStep, TaskStep

-----------------------------------------------------------------------------
(* The entries of the queue *)

\* Ids are unique and given out in order; a drain knows only ids given out.
Ids ==
    /\ \A i, j \in queue : i.id = j.id => i = j
    /\ \A i \in queue : i.id < nextId
    /\ \A n \in tunnel.left : n < nextId

\* The entry a drain has posted is unique.
LEMMA CurrentIsUnique ==
    ASSUME TypeOK, Ids, NEW i \in Current, NEW j \in Current
    PROVE  i = j
BY DEF Current, Ids, TypeOK, Item

\* A step of the tunnel keeps the order of the ids.
LEMMA IdsTunnel ==
    ASSUME TypeOK, Ids, TunnelStep
    PROVE  Ids'
<1>1. CASE start_drain
  <2>1. tunnel'.left = {i.id : i \in peek(DrainLimit)} /\ UNCHANGED <<queue, nextId>>
    BY <1>1 DEF start_drain, TypeOK, Tunnel, store
  <2>2. peek(DrainLimit) \subseteq queue
    BY DEF peek
  <2> QED
    BY <2>1, <2>2 DEF Ids
<1>2. ASSUME NEW i \in queue, NEW a \in Answer, drain(i, a)
      PROVE  Ids'
  <2> DEFINE k == [i EXCEPT !.sends = @ + 1]
  <2>1. i \in Item /\ k.id = i.id
    BY DEF TypeOK, Item
  <2>2. \A x \in queue' : x = k \/ (x \in queue /\ x # i)
    BY <1>2 DEF drain
  <2>3. tunnel'.left = tunnel.left /\ nextId' = nextId
    BY <1>2 DEF drain, TypeOK, Tunnel
  <2> QED
    BY <2>1, <2>2, <2>3 DEF Ids
<1>3. ASSUME NEW i \in queue, settle(i)
      PROVE  Ids'
  <2> DEFINE k == [i EXCEPT !.attempts = @ + 1]
  <2>1. i \in Item /\ k.id = i.id
    BY DEF TypeOK, Item
  <2>2. \A x \in queue' : x = k \/ (x \in queue /\ x # i)
    BY <1>3 DEF settle, ack, nack
  <2>3. tunnel'.left \subseteq tunnel.left /\ nextId' = nextId
    BY <1>3 DEF settle, TypeOK, Tunnel
  <2> QED
    BY <2>1, <2>2, <2>3 DEF Ids
<1>4. CASE receive_loop
  BY <1>4 DEF receive_loop, Ids, TypeOK, Tunnel, store
<1>5. CASE disconnect
  BY <1>5 DEF disconnect, Down, Ids, store
<1> QED
  BY <1>1, <1>2, <1>3, <1>4, <1>5 DEF TunnelStep

\* A new entry is the last.
LEMMA IdsEnqueue ==
    ASSUME TypeOK, Ids, NEW b, enqueue(b), tunnel' = tunnel
    PROVE  Ids' /\ Current' = Current
<1> DEFINE k == [id |-> nextId, body |-> b, attempts |-> 0, sends |-> 0]
<1>1. queue' = queue \cup {k} /\ k.id = nextId /\ nextId' = nextId + 1 /\ nextId \in Nat
  BY DEF enqueue, TypeOK
<1>2. \A i \in queue : i.id \in Nat
  BY DEF TypeOK, Item
<1>3. \A n \in tunnel.left : n \in Nat
  BY DEF TypeOK, Tunnel
<1>4. Ids'
  BY <1>1, <1>2, <1>3 DEF Ids
<1>5. k.id \notin tunnel.left
  BY <1>1, <1>3 DEF Ids
<1>6. Current' = Current
  BY <1>1, <1>5 DEF Current
<1> QED
  BY <1>4, <1>6

\* A step that leaves the queue and the tunnel alone, or only adds an entry, or
\* resets the tunnel.
QuietStep ==
    \/ UNCHANGED <<queue, nextId, tunnel>>
    \/ (\E b \in Body : enqueue(b)) /\ UNCHANGED tunnel
    \/ UNCHANGED <<queue, nextId>> /\ tunnel.step = "down" /\ tunnel' = [tunnel EXCEPT !.step = "registering"]
    \/ UNCHANGED <<queue, nextId>> /\ tunnel' = Down

\* Whatever is not a step of the tunnel is quiet, and only a crash counts one.
LEMMA OthersAreQuiet ==
    ASSUME TypeOK, TaskHolds, Next, ~TunnelStep
    PROVE  QuietStep /\ crashes' \in {crashes, crashes + 1}
<1>1. ASSUME NEW t \in Task, NEW a \in Answer, report_result(t, a)
      PROVE  QuietStep /\ crashes' = crashes
  <2>1. report(task[t].exec, task[t].status) \in Body
    BY <1>1, ReportType DEF report_result, TaskHolds
  <2> QED
    BY <1>1, <2>1 DEF report_result, QuietStep, store
<1>2. ASSUME NEW a \in Answer, flushed(a)
      PROVE  QuietStep /\ crashes' = crashes
  <2>1. batch(flight) \in Body
    BY BatchType DEF TypeOK
  <2> QED
    BY <1>2, <2>1 DEF flushed, QuietStep, store
<1>3. CASE connect \/ tunnel_breaks \/ crash \/ flush
  BY <1>3 DEF connect, tunnel_breaks, crash, flush, QuietStep, store
<1>4. ASSUME NEW t \in Task,
             \/ send_ack(t) \/ (\E r \in Result : execute(t, r))
             \/ (\E x \in Exec : receive_control(x, t))
             \/ (\E a \in Answer : report_running(t, a))
      PROVE  QuietStep /\ crashes' = crashes
  BY <1>4 DEF send_ack, execute, receive_control, report_running, QuietStep, store
<1>5. ASSUME NEW x \in Exec,
             \/ gateway_push(x) \/ gateway_ack(x)
             \/ \E z \in {"timeout", Deleted} : service_ends(x, z)
      PROVE  QuietStep /\ crashes' = crashes
  BY <1>5 DEF gateway_push, gateway_ack, service_ends, QuietStep, store
<1>6. ASSUME NEW x \in Sample, record(x)
      PROVE  QuietStep /\ crashes' = crashes
  BY <1>6 DEF record, QuietStep, store
<1> QED
  BY <1>1, <1>2, <1>3, <1>4, <1>5, <1>6 DEF Next, TaskStep

\* A quiet step keeps the ids, the old entries and, unless it resets the tunnel,
\* the entry that was posted.
LEMMA Quiet ==
    ASSUME TypeOK, Ids, QuietStep
    PROVE  /\ Ids'
           /\ \A i \in queue' : i \in queue \/ (i.attempts = 0 /\ i.sends = 0)
           /\ tunnel'.step = "sent" => tunnel.step = "sent" /\ Current' = Current
           /\ tunnel.step = "sent" => tunnel' \in {tunnel, Down}
<1>1. CASE UNCHANGED <<queue, nextId, tunnel>>
  BY <1>1 DEF Ids, Current
<1>2. ASSUME NEW b \in Body, enqueue(b), UNCHANGED tunnel
      PROVE  /\ Ids' /\ Current' = Current
             /\ \A i \in queue' : i \in queue \/ (i.attempts = 0 /\ i.sends = 0)
  <2>1. Ids' /\ Current' = Current
    BY <1>2, IdsEnqueue
  <2>2. \A i \in queue' : i \in queue \/ (i.attempts = 0 /\ i.sends = 0)
    BY <1>2 DEF enqueue
  <2> QED
    BY <2>1, <2>2
<1>3. CASE /\ UNCHANGED <<queue, nextId>> /\ tunnel.step = "down"
           /\ tunnel' = [tunnel EXCEPT !.step = "registering"]
  BY <1>3 DEF Ids, TypeOK, Tunnel
<1>4. CASE UNCHANGED <<queue, nextId>> /\ tunnel' = Down
  BY <1>4 DEF Ids, Down
<1> QED
  BY <1>1, <1>2, <1>3, <1>4 DEF QuietStep

\* A step of the tunnel keeps the bound: posting an entry marks it, and settling
\* it counts the attempt or removes it.
LEMMA RetryTunnel ==
    ASSUME TypeOK, Ids, RetryLimit, TunnelStep
    PROVE  RetryLimit'
<1>0. \A i \in queue : i \in Item /\ i.attempts \in Nat /\ i.sends \in Nat /\ i.id \in Nat
  BY DEF TypeOK, Item, AgentAssumption
<1>c. crashes \in Nat
  BY DEF TypeOK
<1>1. CASE start_drain \/ receive_loop \/ disconnect
  <2>1. queue' = queue /\ crashes' = crashes /\ tunnel.step # "sent"
    BY <1>1 DEF start_drain, receive_loop, disconnect, store
  <2> QED
    BY <1>0, <1>c, <2>1 DEF RetryLimit
<1>2. ASSUME NEW i \in queue, NEW a \in Answer, drain(i, a)
      PROVE  RetryLimit'
  <2> DEFINE k == [i EXCEPT !.sends = @ + 1]
  <2>1. /\ i \in Item /\ k.id = i.id /\ k.attempts = i.attempts
        /\ k.sends = i.sends + 1
    BY DEF TypeOK, Item
  <2>2. /\ \A x \in queue' : x = k \/ x \in queue
        /\ k \in queue' /\ crashes' = crashes
        /\ tunnel.step = "draining"
    BY <1>2 DEF drain
  <2>3. tunnel'.step = "sent" /\ tunnel'.left = tunnel.left
    BY <1>2 DEF drain, TypeOK, Tunnel
  <2>4. k \in Current'
    BY <1>2, <2>1, <2>2, <2>3 DEF drain, Current
  <2>5. k.sends <= k.attempts + crashes' + 1
    BY <1>0, <1>c, <2>1, <2>2 DEF RetryLimit
  <2>6. \A x \in queue : x.sends <= x.attempts + crashes
    BY <1>0, <1>c, <2>2 DEF RetryLimit
  <2>7. \A x \in queue : x.sends <= x.attempts + crashes + 1
    BY <1>0, <1>c, <2>6
  <2>8. ASSUME NEW x \in queue'
        PROVE  x.sends <= x.attempts + crashes' + (IF tunnel'.step = "sent" /\ x \in Current'
                                                    THEN 1 ELSE 0)
    <3>1. CASE x = k
      BY <3>1, <2>3, <2>4, <2>5
    <3>2. CASE x \in queue
      <4>1. x.attempts + crashes + 0 = x.attempts + crashes
        BY <3>2, <1>0, <1>c
      <4> QED
        BY <3>2, <4>1, <2>2, <2>6, <2>7
    <3> QED
      BY <3>1, <3>2, <2>2
  <2> QED
    BY <2>8 DEF RetryLimit
<1>3. ASSUME NEW i \in queue, settle(i)
      PROVE  RetryLimit'
  <2> DEFINE k == [i EXCEPT !.attempts = @ + 1]
  <2>1. i \in Item /\ k.attempts = i.attempts + 1 /\ k.sends = i.sends
    BY DEF TypeOK, Item
  <2>2. /\ \A x \in queue' : x = k \/ (x \in queue /\ x # i)
        /\ crashes' = crashes
    BY <1>3 DEF settle, ack, nack
  <2>3. tunnel'.step # "sent" /\ tunnel.step = "sent" /\ i \in Current
    BY <1>3 DEF settle
  <2>4. \A x \in queue : x # i => x.sends <= x.attempts + crashes
    BY <1>0, <1>c, <2>3, CurrentIsUnique DEF RetryLimit
  <2>5. k.sends <= k.attempts + crashes
    BY <1>0, <1>c, <2>1, <2>3 DEF RetryLimit
  <2>6. \A x \in queue : x.attempts + crashes + 0 = x.attempts + crashes
    BY <1>0, <1>c
  <2>7. k.attempts + crashes + 0 = k.attempts + crashes
    BY <1>0, <1>c, <2>1
  <2>8. \A x \in queue' : x.sends <= x.attempts + crashes' + 0
    BY <2>2, <2>4, <2>5, <2>6, <2>7
  <2> QED
    BY <2>3, <2>8 DEF RetryLimit
<1> QED
  BY <1>1, <1>2, <1>3 DEF TunnelStep

\* A quiet step keeps it too: a crash forgets which entry was posted, and counts.
LEMMA RetryQuiet ==
    ASSUME TypeOK, Ids, RetryLimit, QuietStep, crashes' \in {crashes, crashes + 1},
           tunnel.step = "sent" /\ tunnel'.step # "sent" => crashes' = crashes + 1
    PROVE  RetryLimit'
<1>0. \A i \in queue : i \in Item /\ i.attempts \in Nat /\ i.sends \in Nat
  BY DEF TypeOK, Item, AgentAssumption
<1>c. crashes \in Nat
  BY DEF TypeOK
<1>1. \A i \in queue' : i \in queue \/ (i.attempts = 0 /\ i.sends = 0)
  BY Quiet
<1>2. CASE tunnel'.step = "sent"
  <2>1. tunnel.step = "sent" /\ Current' = Current
    BY <1>2, Quiet
  <2> QED
    BY <1>0, <1>c, <1>1, <1>2, <2>1 DEF RetryLimit
<1>3. CASE tunnel'.step # "sent"
  BY <1>0, <1>c, <1>1, <1>3 DEF RetryLimit
<1> QED
  BY <1>2, <1>3

\* Only a crash takes the tunnel away from an entry that is posted.
LEMMA OnlyCrashResets ==
    ASSUME Next, ~TunnelStep, TypeOK, tunnel.step = "sent", tunnel'.step # "sent"
    PROVE  crashes' = crashes + 1
BY DEF Next, TaskStep, connect, tunnel_breaks, crash, flush, report_running,
       report_result, execute, send_ack, receive_control, record, flushed,
       gateway_push, gateway_ack, service_ends

\* An entry of the offline queue is posted at most as often as its attempts say,
\* but for the posts a crash left without an outcome.
THEOREM PostsAreBounded == Spec => []RetryLimit
<1>1. Init => Ids /\ RetryLimit
  BY DEF Init, Ids, RetryLimit, Down
<1>2. TypeOK /\ TaskHolds /\ Ids /\ RetryLimit /\ [Next]_vars => Ids' /\ RetryLimit'
  <2> SUFFICES ASSUME TypeOK, TaskHolds, Ids, RetryLimit, [Next]_vars
               PROVE  Ids' /\ RetryLimit'
    OBVIOUS
  <2>1. CASE TunnelStep
    BY <2>1, IdsTunnel, RetryTunnel
  <2>2. CASE Next /\ ~TunnelStep
    BY <2>2, OthersAreQuiet, Quiet, RetryQuiet, OnlyCrashResets
  <2>3. CASE UNCHANGED vars
    <3>1. UNCHANGED <<queue, nextId, tunnel, crashes>>
      BY <2>3 DEF vars, store
    <3> QED
      BY <3>1 DEF Ids, RetryLimit, Current
  <2> QED
    BY <2>1, <2>2, <2>3
<1> QED
  BY <1>1, <1>2, TypeCorrect, PTL DEF Spec

-----------------------------------------------------------------------------
(***************************************************************************)
(* Nothing an agent has measured or executed is lost on the way, and what  *)
(* the services hear is what happened.                                     *)
(***************************************************************************)

-----------------------------------------------------------------------------
(* What is executed, acknowledged and reported *)

\* Acks, results in memory and results in the queue come from an execution.
Sources ==
    /\ AckedAreExecuted
    /\ \A t \in Task :
          task[t].step \in {"ack", "report"} => task[t].status \in executed[task[t].exec]
    /\ \A i \in queue : i.body.exec \in Exec => i.body.status \in executed[i.body.exec]

\* A row that holds a result holds one the command ended with.
RowsAreExecuted == \A e \in Exec : row[e] \in Result => row[e] \in executed[e]

\* A confirmed result is the one its row keeps, and so is the one of an entry
\* that was posted with success and is not deleted yet.
Confirmed ==
    /\ \A b \in told : b.exec \in Exec => Settled(b.exec, b.status)
    /\ tunnel.step = "sent" /\ tunnel.answer = "ok" =>
          \A i \in Current : i.body.exec \in Exec => Settled(i.body.exec, i.body.status)

\* A body about an execution carries a result.
LEMMA BodyOf ==
    ASSUME NEW b \in Body, b.exec \in Exec
    PROVE  b.status \in Result
BY DEF Body, Report, Batch, AgentAssumption

\* Executing a command only adds to what it ended with.
LEMMA ExecutedGrows ==
    ASSUME TypeOK, TaskHolds, Next
    PROVE  \A e \in Exec : executed[e] \subseteq executed'[e]
<1>1. ASSUME NEW t \in Task, NEW s \in Result, execute(t, s)
      PROVE  \A e \in Exec : executed[e] \subseteq executed'[e]
  BY <1>1 DEF execute, TypeOK
<1>2. ASSUME NEW t \in Task,
             \/ send_ack(t) \/ (\E x \in Exec : receive_control(x, t))
             \/ (\E a \in Answer : report_running(t, a) \/ report_result(t, a))
      PROVE  executed' = executed
  BY <1>2 DEF send_ack, receive_control, report_running, report_result, history
<1>3. CASE TunnelStep \/ connect \/ tunnel_breaks \/ crash \/ flush
  BY <1>3 DEF TunnelStep, start_drain, drain, settle, receive_loop, disconnect,
              connect, tunnel_breaks, crash, flush, history
<1>4. ASSUME NEW x \in Exec,
             \/ gateway_push(x) \/ gateway_ack(x)
             \/ \E z \in {"timeout", Deleted} : service_ends(x, z)
      PROVE  executed' = executed
  BY <1>4 DEF gateway_push, gateway_ack, service_ends, history
<1>5. ASSUME (\E x \in Sample : record(x)) \/ (\E a \in Answer : flushed(a))
      PROVE  executed' = executed
  BY <1>5 DEF record, flushed, history
<1> QED
  BY <1>1, <1>2, <1>3, <1>4, <1>5 DEF Next, TaskStep

\* A handler keeps Sources: it acknowledges, reports and queues what it executed.
LEMMA SourcesTask ==
    ASSUME TypeOK, TaskHolds, Sources, NEW t \in Task, TaskStep(t)
    PROVE  Sources'
<1>0. \A i \in queue : i.body \in Body
  BY DEF TypeOK, Item
<1>1. ASSUME NEW s \in Result, execute(t, s)
      PROVE  Sources'
  <2>1. \A e \in Exec : executed[e] \subseteq executed'[e]
    BY <1>1 DEF execute, TypeOK
  <2>2. task[t].exec \in Exec /\ s \in executed'[task[t].exec]
    BY <1>1 DEF execute, TaskHolds, TypeOK
  <2>3. UNCHANGED <<queue, acks, acked>>
    BY <1>1 DEF execute, store, link, gateway
  <2>4. \A u \in Task : task'[u].step \in {"ack", "report"} =>
                           task'[u].status \in executed'[task'[u].exec]
    BY <1>1, <2>1, <2>2 DEF execute, Sources, TaskHolds, TypeOK, Handler
  <2>5. AckedAreExecuted'
    BY <2>1, <2>3 DEF Sources, AckedAreExecuted, TypeOK
  <2> QED
    BY <2>1, <2>3, <2>4, <2>5 DEF Sources
<1>2. CASE send_ack(t)
  <2>1. task[t].exec \in Exec /\ task[t].status \in executed[task[t].exec]
    BY <1>2 DEF send_ack, TaskHolds, Sources
  <2>2. UNCHANGED <<queue, acked, executed>> /\ acks' \subseteq acks \cup {task[t].exec}
    BY <1>2 DEF send_ack, store, gateway, history
  <2>3. \A u \in Task : task'[u].exec = task[u].exec /\ task'[u].status = task[u].status
                        /\ (task'[u].step \in {"ack", "report"} => task[u].step \in {"ack", "report"})
    BY <1>2 DEF send_ack, TypeOK, Handler
  <2> QED
    BY <2>1, <2>2, <2>3 DEF Sources, AckedAreExecuted
<1>3. ASSUME NEW a \in Answer, report_running(t, a)
      PROVE  Sources'
  <2>1. UNCHANGED <<queue, acks, acked, executed>>
    BY <1>3 DEF report_running, store, link, gateway, history
  <2>2. \A u \in Task : task'[u].step \in {"ack", "report"} => task'[u] = task[u]
    BY <1>3 DEF report_running, TypeOK, Handler
  <2> QED
    BY <2>1, <2>2 DEF Sources, AckedAreExecuted
<1>4. ASSUME NEW a \in Answer, report_result(t, a)
      PROVE  Sources'
  <2> DEFINE b == report(task[t].exec, task[t].status)
  <2>1. b.exec = task[t].exec /\ b.status = task[t].status
    BY DEF report
  <2>2. b.status \in executed[b.exec]
    BY <1>4, <2>1 DEF report_result, Sources
  <2>3. \A i \in queue' : i \in queue \/ i.body = b
    BY <1>4 DEF report_result, enqueue, store
  <2>4. UNCHANGED <<acks, acked, executed>>
    BY <1>4 DEF report_result, link, gateway
  <2>5. \A u \in Task : task'[u].step \in {"ack", "report"} => task'[u] = task[u]
    BY <1>4 DEF report_result, TypeOK, Idle
  <2> QED
    BY <2>2, <2>3, <2>4, <2>5 DEF Sources, AckedAreExecuted
<1> QED
  BY <1>1, <1>2, <1>3, <1>4 DEF TaskStep

\* The tunnel, telemetry and the environment keep Sources.
LEMMA SourcesRest ==
    ASSUME TypeOK, TaskHolds, Sources, Next, \A t \in Task : ~TaskStep(t)
    PROVE  Sources'
<1>1. CASE start_drain \/ receive_loop \/ disconnect \/ connect \/ flush
  <2>1. UNCHANGED <<queue, acks, acked, executed, task>>
    BY <1>1 DEF start_drain, receive_loop, disconnect, connect, flush, store, link,
                gateway, history
  <2> QED
    BY <2>1 DEF Sources, AckedAreExecuted
<1>2. ASSUME NEW i \in queue,
             settle(i) \/ (\E a \in Answer : drain(i, a))
      PROVE  Sources'
  <2>1. UNCHANGED <<acks, acked, executed, task>>
    BY <1>2 DEF settle, drain, link, gateway, history
  <2>2. i \in Item
    BY DEF TypeOK
  <2>3. \A x \in queue' : \E y \in queue : x.body = y.body
    <3>1. CASE settle(i)
      <4>1. [i EXCEPT !.attempts = @ + 1].body = i.body
        BY <2>2 DEF Item
      <4> QED
        BY <3>1, <4>1 DEF settle, ack, nack
    <3>2. ASSUME NEW a \in Answer, drain(i, a)
          PROVE  \A x \in queue' : \E y \in queue : x.body = y.body
      <4>1. [i EXCEPT !.sends = @ + 1].body = i.body
        BY <2>2 DEF Item
      <4> QED
        BY <3>2, <4>1 DEF drain
    <3> QED
      BY <1>2, <3>1, <3>2
  <2> QED
    BY <2>1, <2>3 DEF Sources, AckedAreExecuted
<1>3. ASSUME NEW a \in Answer, flushed(a)
      PROVE  Sources'
  <2>1. UNCHANGED <<acks, acked, executed, task>>
    BY <1>3 DEF flushed, link, gateway, history
  <2>2. batch(flight).exec = NoExec
    BY DEF batch
  <2>3. \A i \in queue' : i \in queue \/ i.body = batch(flight)
    BY <1>3 DEF flushed, enqueue, store
  <2> QED
    BY <2>1, <2>2, <2>3 DEF Sources, AckedAreExecuted, AgentAssumption
<1>4. CASE tunnel_breaks
  <2>1. UNCHANGED <<queue, acked, executed>> /\ acks' = {}
    BY <1>4 DEF tunnel_breaks, store, gateway, history
  <2>2. \A u \in Task : /\ task'[u].step = task[u].step /\ task'[u].exec = task[u].exec
                        /\ task'[u].status = task[u].status
    BY <1>4 DEF tunnel_breaks, TypeOK, Handler
  <2> QED
    BY <2>1, <2>2 DEF Sources, AckedAreExecuted
<1>5. CASE crash
  <2>1. UNCHANGED <<queue, acked, executed>> /\ acks' = {}
    BY <1>5 DEF crash, store, gateway
  <2>2. \A u \in Task : task'[u].step = "idle"
    BY <1>5 DEF crash, Idle
  <2> QED
    BY <2>1, <2>2 DEF Sources, AckedAreExecuted
<1>6. ASSUME NEW x \in Exec,
             \/ gateway_push(x) \/ gateway_ack(x)
             \/ \E z \in {"timeout", Deleted} : service_ends(x, z)
      PROVE  Sources'
  <2>1. UNCHANGED <<queue, executed, task>> /\ acks' \cup acked' \subseteq acks \cup acked
    BY <1>6 DEF gateway_push, gateway_ack, service_ends, store, link, gateway, history
  <2> QED
    BY <2>1 DEF Sources, AckedAreExecuted
<1>7. ASSUME NEW t \in Task, NEW x \in Exec, receive_control(x, t)
      PROVE  Sources'
  <2>1. UNCHANGED <<queue, acks, acked, executed>>
    BY <1>7 DEF receive_control, store, gateway, history
  <2>2. \A u \in Task : task'[u].step \in {"ack", "report"} => task'[u] = task[u]
    BY <1>7 DEF receive_control, TypeOK
  <2> QED
    BY <2>1, <2>2 DEF Sources, AckedAreExecuted
<1>8. ASSUME NEW x \in Sample, record(x)
      PROVE  Sources'
  <2>1. UNCHANGED <<queue, acks, acked, executed, task>>
    BY <1>8 DEF record, store, link, gateway, history
  <2> QED
    BY <2>1 DEF Sources, AckedAreExecuted
<1> QED
  BY <1>1, <1>2, <1>3, <1>4, <1>5, <1>6, <1>7, <1>8 DEF Next, TunnelStep

\* Sources is kept by every step.
LEMMA SourcesStep ==
    ASSUME TypeOK, TaskHolds, Sources, [Next]_vars
    PROVE  Sources'
<1>1. CASE Next /\ \A t \in Task : ~TaskStep(t)
  BY <1>1, SourcesRest
<1>2. ASSUME NEW t \in Task, TaskStep(t)
      PROVE  Sources'
  BY <1>2, SourcesTask
<1>3. CASE UNCHANGED vars
  BY <1>3 DEF vars, Sources, AckedAreExecuted, link, store, gateway, history
<1> QED
  BY <1>1, <1>2, <1>3

\* A row takes a result only from a report of a command that ended with it.
LEMMA RowsStep ==
    ASSUME TypeOK, TaskHolds, Sources, RowsAreExecuted, Next
    PROVE  RowsAreExecuted'
<1>0. \A e \in Exec : executed[e] \subseteq executed'[e]
  BY ExecutedGrows
<1>1. ASSUME NEW i \in queue, NEW a \in Answer, drain(i, a)
      PROVE  RowsAreExecuted'
  <2>1. i.body \in Body
    BY DEF TypeOK, Item
  <2>2. \/ row' = row
        \/ i.body.exec \in Exec /\ row' = [row EXCEPT ![i.body.exec] = i.body.status]
    BY <1>1, <2>1, PostMoves DEF drain
  <2> QED
    BY <1>0, <2>2 DEF RowsAreExecuted, Sources, TypeOK
<1>2. ASSUME NEW t \in Task, NEW a \in Answer, report_result(t, a)
      PROVE  RowsAreExecuted'
  <2> DEFINE b == report(task[t].exec, task[t].status)
  <2>1. b \in Body /\ b.exec = task[t].exec /\ b.status = task[t].status
    BY <1>2, ReportType DEF report_result, TaskHolds, report
  <2>2. row' = row \/ (b.exec \in Exec /\ row' = [row EXCEPT ![b.exec] = b.status])
    BY <1>2, <2>1, PostMoves DEF report_result
  <2>3. b.status \in executed[b.exec]
    BY <1>2, <2>1 DEF report_result, Sources
  <2> QED
    BY <1>0, <2>2, <2>3 DEF RowsAreExecuted, TypeOK
<1>3. ASSUME NEW t \in Task, NEW a \in Answer, report_running(t, a)
      PROVE  RowsAreExecuted'
  <2>1. task[t].exec \in Exec
    BY <1>3 DEF report_running, TaskHolds
  <2>2. row' = row \/ row' = [row EXCEPT ![task[t].exec] = "running"]
    BY <1>3, <2>1, RunningMoves DEF report_running
  <2> QED
    BY <1>0, <2>1, <2>2 DEF RowsAreExecuted, TypeOK, Result
<1>4. ASSUME NEW x \in Exec, NEW z \in {"timeout", Deleted}, service_ends(x, z)
      PROVE  RowsAreExecuted'
  BY <1>0, <1>4 DEF service_ends, RowsAreExecuted, TypeOK, Result, Deleted
<1>5. CASE row' = row
  BY <1>0, <1>5 DEF RowsAreExecuted
<1>6. ASSUME NEW a \in Answer, flushed(a)
      PROVE  row' = row
  BY <1>6 DEF flushed, store_samples
<1>7. CASE connect \/ tunnel_breaks \/ crash \/ flush \/ start_drain \/ receive_loop
             \/ disconnect \/ \E i \in queue : settle(i)
  BY <1>5, <1>7 DEF connect, tunnel_breaks, crash, flush, start_drain, receive_loop,
                    disconnect, settle, service
<1>8. ASSUME NEW t \in Task,
             send_ack(t) \/ (\E r \in Result : execute(t, r))
               \/ (\E x \in Exec : receive_control(x, t))
      PROVE  row' = row
  BY <1>8 DEF send_ack, execute, receive_control, service
<1>9. ASSUME (\E x \in Exec : gateway_push(x) \/ gateway_ack(x))
               \/ (\E x \in Sample : record(x))
      PROVE  row' = row
  BY <1>9 DEF gateway_push, gateway_ack, record, service
<1> QED
  BY <1>1, <1>2, <1>3, <1>4, <1>5, <1>6, <1>7, <1>8, <1>9 DEF Next, TunnelStep, TaskStep

\* Only settling an entry and a report of a task confirm a result.
LEMMA ToldUnchanged ==
    ASSUME Next, ~\E i \in queue : settle(i),
           ~\E t \in Task, a \in Answer : report_result(t, a)
    PROVE  told' = told
BY DEF Next, TunnelStep, TaskStep, connect, tunnel_breaks, crash, flush, start_drain,
       receive_loop, disconnect, drain, send_ack, execute, receive_control,
       report_running, record, flushed, gateway_push, gateway_ack, service_ends, history

\* What was confirmed stays so.
LEMMA ConfirmedStep ==
    ASSUME TypeOK, TypeOK', TaskHolds, Ids, Ids', Confirmed, Next
    PROVE  Confirmed'
<1> DEFINE Kept(b) == b.exec \in Exec => Settled(b.exec, b.status)
<1>0. /\ \A b \in told : b \in Body
      /\ \A i \in queue : i.body \in Body
  BY DEF TypeOK, Item
<1>1. \A b \in Body : Kept(b) => Kept(b)'
  BY SettledStays, BodyOf
<1>2. \A b \in told : Kept(b)'
  BY <1>0, <1>1 DEF Confirmed
<1>3. ASSUME NEW i \in queue, NEW a \in Answer, drain(i, a)
      PROVE  Confirmed'
  <2> DEFINE k == [i EXCEPT !.sends = @ + 1]
  <2>1. i.body \in Body /\ k.body = i.body /\ k.id = i.id
    BY DEF TypeOK, Item
  <2>2. a = "ok" => Kept(i.body)'
    <3>1. ASSUME a = "ok", i.body.exec \in Exec
          PROVE  row'[i.body.exec] = i.body.status
      BY <1>3, <2>1, <3>1, PostMoves DEF drain, TypeOK, AgentAssumption
    <3> QED
      BY <3>1 DEF Settled
  <2>3. /\ tunnel'.answer = a /\ tunnel'.left = tunnel.left /\ k \in queue'
        /\ i \in Current /\ told' = told
    BY <1>3 DEF drain, TypeOK, Tunnel, history
  <2>4. k \in Current'
    BY <2>1, <2>3 DEF Current
  <2>5. \A x \in Current' : x = k
    BY <2>4 DEF Current, Ids, TypeOK, Item
  <2> QED
    BY <1>2, <2>1, <2>2, <2>3, <2>5 DEF Confirmed
<1>4. ASSUME NEW i \in queue, settle(i)
      PROVE  Confirmed'
  <2>1. tunnel'.step # "sent" /\ tunnel.step = "sent" /\ i \in Current
    BY <1>4 DEF settle
  <2>2. told' = told \/ (told' = told \cup {i.body} /\ tunnel.answer = "ok")
    BY <1>4 DEF settle, ack, nack, delivered
  <2>3. tunnel.answer = "ok" => Kept(i.body)
    BY <2>1 DEF Confirmed
  <2>4. told' = told \/ (told' = told \cup {i.body} /\ Kept(i.body)')
    BY <1>0, <1>1, <2>2, <2>3
  <2> QED
    BY <1>2, <2>1, <2>4 DEF Confirmed
<1>5. CASE start_drain \/ receive_loop \/ disconnect
  <2>1. tunnel'.step # "sent"
    <3>1. CASE start_drain
      BY <3>1 DEF start_drain, TypeOK, Tunnel
    <3>2. CASE receive_loop
      BY <3>2 DEF receive_loop, TypeOK, Tunnel
    <3>3. CASE disconnect
      BY <3>3 DEF disconnect, Down
    <3> QED
      BY <1>5, <3>1, <3>2, <3>3
  <2>2. told' = told
    BY <1>5 DEF start_drain, receive_loop, disconnect, history
  <2> QED
    BY <1>2, <2>1, <2>2 DEF Confirmed
<1>6. CASE ~TunnelStep
  <2>1. /\ tunnel'.step = "sent" => tunnel.step = "sent" /\ Current' = Current
        /\ tunnel.step = "sent" => tunnel' \in {tunnel, Down}
    BY <1>6, OthersAreQuiet, Quiet
  <2>2. tunnel'.step = "sent" => tunnel' = tunnel
    BY <2>1 DEF Down
  <2>3. tunnel'.step = "sent" /\ tunnel'.answer = "ok" => \A i \in Current' : Kept(i.body)'
    BY <1>0, <1>1, <2>1, <2>2 DEF Confirmed, Current
  <2>4. CASE told' = told
    BY <1>2, <2>3, <2>4 DEF Confirmed
  <2>5. ASSUME NEW t \in Task, NEW a \in Answer, report_result(t, a)
        PROVE  Confirmed'
    <3> DEFINE b == report(task[t].exec, task[t].status)
    <3>1. b \in Body /\ b.exec \in Exec
      BY <2>5, ReportType DEF report_result, TaskHolds, report
    <3>2. a = "ok" => row'[b.exec] = b.status
      BY <2>5, <3>1, PostMoves DEF report_result, TypeOK, AgentAssumption
    <3>3. told' = told \/ (told' = told \cup {b} /\ a = "ok")
      BY <2>5 DEF report_result, delivered
    <3>4. \A x \in told' : Kept(x)'
      BY <1>2, <3>2, <3>3 DEF Settled
    <3> QED
      BY <2>3, <3>4 DEF Confirmed
  <2> QED
    BY <1>6, <2>4, <2>5, ToldUnchanged DEF TunnelStep
<1> QED
  BY <1>3, <1>4, <1>5, <1>6 DEF TunnelStep

\* The entry ids keep their order.
LEMMA IdsStep ==
    ASSUME TypeOK, TaskHolds, Ids, [Next]_vars
    PROVE  Ids'
<1>1. CASE TunnelStep
  BY <1>1, IdsTunnel
<1>2. CASE Next /\ ~TunnelStep
  BY <1>2, OthersAreQuiet, Quiet
<1>3. CASE UNCHANGED vars
  BY <1>3 DEF vars, Ids, store
<1> QED
  BY <1>1, <1>2, <1>3

\* An acknowledged command has been executed, a row holds a result its command
\* ended with, and a confirmed result is the one its row keeps.
THEOREM TruthIsTold == Spec => [](AckedAreExecuted /\ RowsTellTheTruth)
<1> DEFINE IInv == Ids /\ Sources /\ RowsAreExecuted /\ Confirmed
<1>1. Init => IInv
  BY DEF Init, Ids, Down, Sources, AckedAreExecuted, RowsAreExecuted, Confirmed,
         Result, Idle, Current
<1>2. TypeOK /\ TypeOK' /\ TaskHolds /\ IInv /\ [Next]_vars => IInv'
  <2> SUFFICES ASSUME TypeOK, TypeOK', TaskHolds, IInv, [Next]_vars
               PROVE  IInv'
    OBVIOUS
  <2>1. Ids' /\ Sources'
    BY IdsStep, SourcesStep
  <2>2. CASE Next
    BY <2>1, <2>2, RowsStep, ConfirmedStep
  <2>3. CASE UNCHANGED vars
    <3>1. UNCHANGED <<tunnel, queue, row, told, executed>>
      BY <2>3 DEF vars, store, service, history
    <3> QED
      BY <2>1, <3>1 DEF RowsAreExecuted, Confirmed, Settled, Current
  <2> QED
    BY <2>2, <2>3
<1>3. TypeOK /\ IInv => AckedAreExecuted /\ RowsTellTheTruth
  BY DEF Sources, RowsAreExecuted, Confirmed, RowsTellTheTruth, Settled
<1> QED
  BY <1>1, <1>2, <1>3, TypeCorrect, PTL DEF Spec

-----------------------------------------------------------------------------
(* Nothing is lost *)

\* An entry with body b is in the queue.
Queued(b) == \E i \in queue : i.body = b

\* Task t has a result of execution e to report.
Reports(t, e, s) ==
    task[t].step \in {"ack", "report"} /\ task[t].exec = e /\ task[t].status = s

\* A step of the tunnel keeps what is queued, or it was confirmed or given up.
LEMMA QueuedTunnel ==
    ASSUME TypeOK, TunnelStep, NEW b \in Body, Queued(b)
    PROVE  Queued(b)' \/ b \in told' \cup dropped'
<1>1. ASSUME NEW i \in queue, settle(i)
      PROVE  Queued(b)' \/ b \in told' \cup dropped'
  <2>1. [i EXCEPT !.attempts = @ + 1].body = i.body
    BY DEF TypeOK, Item
  <2> QED
    BY <1>1, <2>1 DEF settle, ack, nack, Queued
<1>2. ASSUME NEW i \in queue, NEW a \in Answer, drain(i, a)
      PROVE  Queued(b)'
  <2>1. [i EXCEPT !.sends = @ + 1].body = i.body
    BY DEF TypeOK, Item
  <2> QED
    BY <1>2, <2>1 DEF drain, Queued
<1>3. CASE start_drain \/ receive_loop \/ disconnect
  BY <1>3 DEF start_drain, receive_loop, disconnect, Queued, store
<1> QED
  BY <1>1, <1>2, <1>3 DEF TunnelStep

\* Any other step only adds to the queue.
LEMMA QueuedOthers ==
    ASSUME TypeOK, TaskHolds, Next, ~TunnelStep
    PROVE  queue \subseteq queue'
BY OthersAreQuiet DEF QuietStep, enqueue

\* What was confirmed, given up or wiped is remembered as such.
LEMMA HistoryGrows ==
    ASSUME Next
    PROVE  told \subseteq told' /\ dropped \subseteq dropped' /\ wiped \subseteq wiped'
<1>1. ASSUME NEW i \in queue, settle(i)
      PROVE  told \subseteq told' /\ dropped \subseteq dropped' /\ wiped \subseteq wiped'
  BY <1>1 DEF settle, ack, nack
<1>2. ASSUME NEW t \in Task, NEW a \in Answer, report_result(t, a)
      PROVE  told \subseteq told' /\ dropped \subseteq dropped' /\ wiped \subseteq wiped'
  BY <1>2 DEF report_result
<1>3. ASSUME NEW t \in Task, NEW s \in Result, execute(t, s)
      PROVE  UNCHANGED <<told, dropped, wiped>>
  BY <1>3 DEF execute
<1>4. CASE crash
  BY <1>4 DEF crash
<1>5. CASE /\ ~crash
           /\ ~\E i \in queue : settle(i)
           /\ ~\E t \in Task : \/ \E a \in Answer : report_result(t, a)
                             \/ \E s \in Result : execute(t, s)
  BY <1>5 DEF Next, TunnelStep, TaskStep, connect, tunnel_breaks, flush, start_drain,
              receive_loop, disconnect, drain, send_ack, receive_control, report_running,
              record, flushed, gateway_push, gateway_ack, service_ends, history
<1> QED
  BY <1>1, <1>2, <1>3, <1>4, <1>5

\* A result a task reports is kept: by the task, by the service or the queue, or
\* the process dies with it.
LEMMA ReportsKept ==
    ASSUME TypeOK, TaskHolds, Next, NEW t \in Task, NEW e \in Exec, NEW s \in Result,
           Reports(t, e, s)
    PROVE  Reports(t, e, s)' \/ Queued(report(e, s))' \/ report(e, s) \in told' \cup wiped'
<1>1. ASSUME NEW a \in Answer, report_result(t, a)
      PROVE  Queued(report(e, s))' \/ report(e, s) \in told'
  <2>1. task[t].exec = e /\ task[t].status = s
    BY DEF Reports
  <2>2. CASE delivered(a)
    BY <1>1, <2>1, <2>2 DEF report_result
  <2>3. CASE ~delivered(a)
    <3>1. enqueue(report(e, s))
      BY <1>1, <2>1, <2>3 DEF report_result
    <3>2. [id |-> nextId, body |-> report(e, s), attempts |-> 0, sends |-> 0].body = report(e, s)
      OBVIOUS
    <3> QED
      BY <3>1, <3>2 DEF enqueue, Queued
  <2> QED
    BY <2>2, <2>3
<1>2. CASE crash
  BY <1>2 DEF crash, Reports
<1>3. CASE send_ack(t)
  BY <1>3 DEF send_ack, Reports, TypeOK, Handler
<1>4. CASE tunnel_breaks
  BY <1>4 DEF tunnel_breaks, Reports, TypeOK, Handler
<1>5. ASSUME NEW u \in Task, u # t, TaskStep(u) \/ (\E x \in Exec : receive_control(x, u))
      PROVE  Reports(t, e, s)'
  BY <1>5 DEF TaskStep, report_running, report_result, execute, send_ack, receive_control,
              Reports, TypeOK
<1>7. CASE task' = task
  BY <1>7 DEF Reports
<1>8. CASE TunnelStep \/ flush \/ (\E x \in Sample : record(x)) \/ \E a \in Answer : flushed(a)
  BY <1>7, <1>8, TaskUnchanged
<1>9. CASE \/ connect
           \/ \E x \in Exec : gateway_push(x) \/ gateway_ack(x)
           \/ \E x \in Exec, z \in {"timeout", Deleted} : service_ends(x, z)
  BY <1>7, <1>9 DEF connect, gateway_push, gateway_ack, service_ends
<1>10. ASSUME NEW u \in Task, TaskStep(u) \/ (\E x \in Exec : receive_control(x, u))
       PROVE  Reports(t, e, s)' \/ Queued(report(e, s))' \/ report(e, s) \in told' \cup wiped'
  <2>1. CASE u # t
    BY <1>5, <1>10, <2>1
  <2>2. CASE u = t
    <3>1. ASSUME NEW a \in Answer, report_running(t, a)
          PROVE  FALSE
      BY <3>1 DEF report_running, Reports
    <3>2. ASSUME NEW r \in Result, execute(t, r)
          PROVE  FALSE
      BY <3>2 DEF execute, Reports
    <3>3. ASSUME NEW x \in Exec, receive_control(x, t)
          PROVE  FALSE
      BY <3>3 DEF receive_control, Reports, Idle
    <3>4. TaskStep(t)
      BY <1>10, <2>2, <3>3
    <3>5. CASE \E a \in Answer : report_running(t, a) \/ report_result(t, a)
      BY <3>1, <3>5, <1>1
    <3>6. CASE \E r \in Result : execute(t, r)
      BY <3>2, <3>6
    <3>7. CASE send_ack(t)
      BY <3>7, <1>3
    <3> QED
      BY <3>4, <3>5, <3>6, <3>7 DEF TaskStep
  <2> QED
    BY <2>1, <2>2
<1> QED
  BY <1>2, <1>4, <1>8, <1>9, <1>10 DEF Next

\* What a command ended with was so before, or a task has just found out.
LEMMA NewResults ==
    ASSUME TypeOK, TaskHolds, Next, NEW e \in Exec, NEW s \in executed'[e]
    PROVE  s \in executed[e] \/ \E t \in Task : Reports(t, e, s)'
<1>1. ASSUME NEW t \in Task, NEW r \in Result, execute(t, r)
      PROVE  s \in executed[e] \/ \E u \in Task : Reports(u, e, s)'
  <2>1. CASE e = task[t].exec /\ s = r
    BY <1>1, <2>1 DEF execute, Reports, TypeOK, Handler
  <2>2. CASE ~(e = task[t].exec /\ s = r)
    BY <1>1, <2>2 DEF execute, TypeOK
  <2> QED
    BY <2>1, <2>2
<1>2. ASSUME NEW t \in Task,
             \/ send_ack(t) \/ (\E x \in Exec : receive_control(x, t))
             \/ (\E a \in Answer : report_running(t, a) \/ report_result(t, a))
      PROVE  executed' = executed
  BY <1>2 DEF send_ack, receive_control, report_running, report_result, history
<1>3. CASE TunnelStep \/ connect \/ tunnel_breaks \/ crash \/ flush
  BY <1>3 DEF TunnelStep, start_drain, drain, settle, receive_loop, disconnect,
              connect, tunnel_breaks, crash, flush, history
<1>4. ASSUME NEW x \in Exec,
             \/ gateway_push(x) \/ gateway_ack(x)
             \/ \E z \in {"timeout", Deleted} : service_ends(x, z)
      PROVE  executed' = executed
  BY <1>4 DEF gateway_push, gateway_ack, service_ends, history
<1>5. ASSUME (\E x \in Sample : record(x)) \/ (\E a \in Answer : flushed(a))
      PROVE  executed' = executed
  BY <1>5 DEF record, flushed, history
<1> QED
  BY <1>1, <1>2, <1>3, <1>4, <1>5 DEF Next, TaskStep

\* No result is lost but by a queue that gave it up or a process that died with it.
THEOREM NoResultIsLost == Spec => []ResultsKept
<1>1. Init => ResultsKept
  BY DEF Init, ResultsKept
<1>2. TypeOK /\ TaskHolds /\ TypeOK' /\ ResultsKept /\ [Next]_vars => ResultsKept'
  <2> SUFFICES ASSUME TypeOK, TaskHolds, TypeOK', ResultsKept, [Next]_vars
               PROVE  ResultsKept'
    OBVIOUS
  <2>1. ASSUME Next, NEW e \in Exec, NEW s \in executed'[e]
        PROVE  \/ report(e, s) \in told' \cup dropped' \cup wiped'
               \/ Queued(report(e, s))'
               \/ \E t \in Task : Reports(t, e, s)'
    <3>0. s \in Result
      BY <2>1 DEF TypeOK
    <3>1. CASE s \in executed[e]
      <4>1. \/ report(e, s) \in told \cup dropped \cup wiped
            \/ Queued(report(e, s))
            \/ \E t \in Task : Reports(t, e, s)
        BY <3>1 DEF ResultsKept, Queued, Reports
      <4>2. CASE report(e, s) \in told \cup dropped \cup wiped
        BY <2>1, <4>2, HistoryGrows
      <4>3. CASE Queued(report(e, s))
        <5>1. report(e, s) \in Body
          BY <3>0, ReportType
        <5>2. CASE TunnelStep
          BY <4>3, <5>1, <5>2, QueuedTunnel
        <5>3. CASE ~TunnelStep
          BY <2>1, <4>3, <5>3, QueuedOthers DEF Queued
        <5> QED
          BY <5>2, <5>3
      <4>4. ASSUME NEW t \in Task, Reports(t, e, s)
            PROVE  \/ report(e, s) \in told' \cup wiped'
                   \/ Queued(report(e, s))'
                   \/ Reports(t, e, s)'
        BY <2>1, <3>0, <4>4, ReportsKept
      <4> QED
        BY <4>1, <4>2, <4>3, <4>4
    <3>2. CASE s \notin executed[e]
      BY <2>1, <3>2, NewResults
    <3> QED
      BY <3>1, <3>2
  <2>2. CASE Next
    BY <2>1, <2>2 DEF ResultsKept, Queued, Reports
  <2>3. CASE UNCHANGED vars
    BY <2>3 DEF vars, ResultsKept, store, history
  <2> QED
    BY <2>2, <2>3
<1> QED
  BY <1>1, <1>2, TypeCorrect, PTL DEF Spec

-----------------------------------------------------------------------------
(* Samples *)

\* What a posted entry carries has arrived, if the post was answered with success.
SentArrived ==
    tunnel.step = "sent" /\ tunnel.answer = "ok" =>
        \A i \in Current : \A s \in i.body.samples : received[s] > 0

\* A sample that was not recorded is nowhere.
OnlyRecorded ==
    /\ buffer \cup flight \subseteq recorded
    /\ \A i \in queue : i.body.samples \subseteq recorded

\* A sample is in the buffer, in the batch being flushed or in one entry.
InOnePlace ==
    /\ buffer \cap flight = {}
    /\ \A i \in queue : i.body.samples \cap (buffer \cup flight) = {}
    /\ \A i, j \in queue : i.id # j.id => i.body.samples \cap j.body.samples = {}

\* It has not arrived while it is there, but for an entry whose post was answered and
\* which is still to be deleted; and it never arrives twice.
NotYetStored ==
    /\ \A s \in buffer \cup flight : received[s] = 0
    /\ \A i \in queue : \A s \in i.body.samples :
         received[s] = 0 \/ (tunnel.step = "sent" /\ tunnel.answer = "ok" /\ i \in Current)
    /\ \A s \in Sample : s \notin recorded => received[s] = 0
    /\ \A s \in Sample : received[s] <= 1

\* The inductive invariant of the samples.
SamplesInv ==
    /\ SamplesKept /\ SentArrived /\ OnlyRecorded
    /\ faults = 0 /\ crashes = 0 => InOnePlace /\ NotYetStored

\* A post counts the samples of its body once, when it is served: surely if it is answered
\* with success, not if it is refused.
LEMMA PostStores ==
    ASSUME TypeOK, NEW b \in Body, NEW a \in Answer, Post(b, a)
    PROVE  /\ b.samples \subseteq Sample
           /\ \A s \in Sample : \/ received'[s] = received[s]
                                \/ s \in b.samples /\ received'[s] = received[s] + 1
           /\ a = "ok" => \A s \in b.samples : received'[s] = received[s] + 1
           /\ a = "refused" => received' = received
           /\ faults' = IF a = "none" THEN faults + 1 ELSE faults
<1>1. b.samples \subseteq Sample
  BY DEF Body, Report, Batch
<1>2. CASE b.exec = NoExec
  <2>1. store_samples(b.samples, a)
    BY <1>2 DEF Post
  <2>2. received' = received \/ received' = [s \in Sample |-> IF s \in b.samples THEN received[s] + 1
                                                                           ELSE received[s]]
    BY <2>1 DEF store_samples, Answer
  <2>3. a = "ok" => received' = [s \in Sample |-> IF s \in b.samples THEN received[s] + 1
                                                                      ELSE received[s]]
    BY <2>1 DEF store_samples
  <2>4. a = "refused" => received' = received
    BY <2>1 DEF store_samples
  <2>5. faults' = IF a = "none" THEN faults + 1 ELSE faults
    BY <2>1 DEF store_samples, Faulted
  <2> QED
    BY <1>1, <2>2, <2>3, <2>4, <2>5
<1>3. CASE b.exec # NoExec
  <2>1. b.samples = {}
    BY <1>3 DEF Body, Report, Batch
  <2>2. callback(b.exec, b.status, a)
    BY <1>3 DEF Post
  <2> QED
    BY <2>1, <2>2 DEF callback, Faulted
<1> QED
  BY <1>2, <1>3

\* Posting an entry: it stays in the queue with its samples, and what the post stored was
\* not stored before.
LEMMA SamplesDrain ==
    ASSUME TypeOK, Ids, SamplesInv, NEW i \in queue, NEW a \in Answer, drain(i, a)
    PROVE  SamplesInv'
<1> DEFINE k == [i EXCEPT !.sends = @ + 1]
<1>1. i \in Item /\ k.id = i.id /\ k.body = i.body /\ i.body \in Body
  BY DEF TypeOK, Item
<1>2. /\ tunnel.step = "draining" /\ i \in Current /\ Post(i.body, a)
      /\ queue' = (queue \ {i}) \cup {k}
      /\ tunnel'.step = "sent" /\ tunnel'.left = tunnel.left /\ tunnel'.answer = a
      /\ UNCHANGED <<buffer, flight, recorded, crashes, dropped, wiped>>
  BY DEF drain, telemetry, history, TypeOK, Tunnel
<1>3. /\ i.body.samples \subseteq Sample
      /\ \A s \in Sample : \/ received'[s] = received[s]
                           \/ s \in i.body.samples /\ received'[s] = received[s] + 1
      /\ a = "ok" => \A s \in i.body.samples : received'[s] = received[s] + 1
      /\ a = "refused" => received' = received
      /\ faults' = IF a = "none" THEN faults + 1 ELSE faults
  BY <1>1, <1>2, PostStores
<1>4. /\ received \in [Sample -> Nat] /\ faults \in Nat /\ crashes \in Nat
      /\ recorded \subseteq Sample /\ a \in {"ok", "refused", "none"}
  BY DEF TypeOK, Answer
<1> HIDE DEF k
<1>5. k \in Current'
  BY <1>1, <1>2 DEF Current
<1>6. \A j \in Current' : j.id = i.id
  BY <1>1, <1>2, <1>5 DEF Current, Ids, TypeOK, Item
<1>7. \A j \in queue' : j = k \/ (j \in queue /\ j.id # i.id)
  BY <1>2 DEF Ids
<1>8. \A j \in Current' : j = k
  BY <1>6, <1>7 DEF Current
<1>9. SamplesKept'
  <2>1. \A s \in recorded : received[s] > 0 => received'[s] > 0
    BY <1>3, <1>4
  <2>2. \A s : (\E j \in queue : s \in j.body.samples) => \E j \in queue' : s \in j.body.samples
    BY <1>1, <1>2
  <2> QED
    BY <1>2, <2>1, <2>2 DEF SamplesInv, SamplesKept
<1>10. SentArrived'
  BY <1>1, <1>2, <1>3, <1>4, <1>8 DEF SentArrived
<1>11. OnlyRecorded'
  BY <1>1, <1>2, <1>7 DEF SamplesInv, OnlyRecorded
<1>12. ASSUME faults' = 0, crashes' = 0 PROVE InOnePlace' /\ NotYetStored'
  <2>1. InOnePlace /\ NotYetStored /\ a # "none" /\ faults = 0
    BY <1>2, <1>3, <1>4, <1>12 DEF SamplesInv
  <2>2. InOnePlace'
    BY <1>1, <1>2, <1>7, <2>1 DEF InOnePlace
  <2>3. \A s \in i.body.samples : received[s] = 0
    BY <1>2, <2>1 DEF NotYetStored
  <2>4. \A s \in Sample : s \notin i.body.samples => received'[s] = received[s]
    BY <1>3
  <2>5. \A s \in buffer' \cup flight' : received'[s] = 0
    <3>1. \A s \in buffer \cup flight : s \notin i.body.samples /\ s \in Sample
      BY <2>1 DEF InOnePlace, TypeOK
    <3> QED
      BY <1>2, <2>1, <2>4, <3>1 DEF NotYetStored
  <2>6. ASSUME NEW j \in queue', NEW s \in j.body.samples
        PROVE  received'[s] = 0 \/ (tunnel'.step = "sent" /\ tunnel'.answer = "ok" /\ j \in Current')
    <3>1. CASE j = k
      <4>1. CASE a = "ok"
        BY <1>2, <1>5, <3>1, <4>1
      <4>2. CASE a = "refused"
        BY <1>1, <1>3, <2>3, <3>1, <4>2
      <4> QED
        BY <1>4, <2>1, <4>1, <4>2
    <3>2. CASE j # k
      <4>1. j \in queue /\ j.id # i.id
        BY <1>7, <3>2
      <4>2. s \notin i.body.samples /\ received[s] = 0
        BY <1>2, <2>1, <4>1 DEF InOnePlace, NotYetStored
      <4>3. s \in Sample
        BY <4>1 DEF SamplesInv, OnlyRecorded, TypeOK
      <4> QED
        BY <2>4, <4>2, <4>3
    <3> QED
      BY <3>1, <3>2
  <2>7. \A s \in Sample : s \notin recorded' => received'[s] = 0
    BY <1>2, <2>1, <2>4 DEF SamplesInv, OnlyRecorded, NotYetStored
  <2>8. \A s \in Sample : received'[s] <= 1
    BY <1>3, <1>4, <2>1, <2>3 DEF NotYetStored
  <2> QED
    BY <2>2, <2>5, <2>6, <2>7, <2>8 DEF NotYetStored
<1> QED
  BY <1>9, <1>10, <1>11, <1>12 DEF SamplesInv

\* Settling it: an entry is deleted once what it carries has arrived.
LEMMA SamplesSettle ==
    ASSUME TypeOK, Ids, SamplesInv, NEW i \in queue, settle(i)
    PROVE  SamplesInv'
<1> DEFINE k == [i EXCEPT !.attempts = @ + 1]
<1>1. i \in Item /\ k.id = i.id /\ k.body = i.body /\ i.body \in Body
  BY DEF TypeOK, Item
<1>2. /\ tunnel.step = "sent" /\ i \in Current
      /\ tunnel'.step = "draining"
      /\ UNCHANGED <<buffer, flight, recorded, received, faults, crashes, wiped>>
  BY DEF settle, telemetry, service
<1>3. /\ dropped \subseteq dropped'
      /\ \/ queue' = queue \ {i} /\ (tunnel.answer = "ok" \/ i.body \in dropped')
         \/ queue' = (queue \ {i}) \cup {k} /\ tunnel.answer # "ok"
  BY DEF settle, ack, nack, delivered
<1> HIDE DEF k
<1>4. \A j \in queue' : j \in queue \/ (j = k /\ tunnel.answer # "ok")
  BY <1>3
<1>5. SamplesKept'
  <2> SUFFICES ASSUME NEW s \in recorded
               PROVE  \/ s \in buffer \cup flight \/ received[s] > 0
                      \/ \E j \in queue' : s \in j.body.samples
                      \/ \E b \in dropped' \cup wiped : s \in b.samples
    BY <1>2 DEF SamplesKept
  <2>1. CASE \E j \in queue : s \in j.body.samples
    <3>1. PICK j \in queue : s \in j.body.samples
      BY <2>1
    <3>2. CASE j # i
      BY <1>3, <3>1, <3>2
    <3>3. CASE j = i /\ tunnel.answer = "ok"
      BY <1>2, <3>1, <3>3 DEF SamplesInv, SentArrived
    <3>4. CASE j = i /\ tunnel.answer # "ok"
      BY <1>1, <1>3, <3>1, <3>4
    <3> QED
      BY <3>2, <3>3, <3>4
  <2>2. CASE ~\E j \in queue : s \in j.body.samples
    BY <1>3, <2>2 DEF SamplesInv, SamplesKept
  <2> QED
    BY <2>1, <2>2
<1>6. SentArrived'
  BY <1>2 DEF SentArrived
<1>7. OnlyRecorded'
  BY <1>1, <1>2, <1>4 DEF SamplesInv, OnlyRecorded
<1>8. ASSUME faults' = 0, crashes' = 0 PROVE InOnePlace' /\ NotYetStored'
  <2>1. InOnePlace /\ NotYetStored
    BY <1>2, <1>8 DEF SamplesInv
  <2>2. ASSUME NEW j \in queue'
        PROVE  \E o \in queue : /\ o.id = j.id /\ o.body = j.body
                                /\ o \in Current => tunnel.answer # "ok"
    <3>1. CASE j = k /\ tunnel.answer # "ok"
      BY <1>1, <3>1
    <3>2. CASE j \in queue /\ j # i
      BY <1>2, <3>2, CurrentIsUnique
    <3>3. CASE j = i
      BY <1>3, <3>3
    <3> QED
      BY <1>4, <3>1, <3>2, <3>3
  <2>3. InOnePlace'
    BY <1>2, <2>1, <2>2 DEF InOnePlace
  <2>4. \A j \in queue' : \A s \in j.body.samples : received[s] = 0
    BY <2>1, <2>2 DEF NotYetStored
  <2> QED
    BY <1>2, <2>1, <2>3, <2>4 DEF NotYetStored
<1> QED
  BY <1>5, <1>6, <1>7, <1>8 DEF SamplesInv

\* A new entry carries what was in memory until then, and is not the posted one.
LEMMA SamplesEnqueue ==
    ASSUME TypeOK, Ids, NEW b \in Body, enqueue(b), tunnel' = tunnel
    PROVE  \E k : /\ queue' = queue \cup {k} /\ k.body = b /\ Current' = Current
                  /\ k \notin queue /\ k \notin Current
                  /\ \A i \in queue : i.id # k.id
<1> DEFINE k == [id |-> nextId, body |-> b, attempts |-> 0, sends |-> 0]
<1>1. queue' = queue \cup {k} /\ k.id = nextId /\ k.body = b
  BY DEF enqueue
<1>2. \A i \in queue : i.id \in Nat /\ i.id < nextId
  BY DEF Ids, TypeOK, Item
<1>3. \A i \in queue : i.id # k.id
  BY <1>1, <1>2 DEF TypeOK
<1>4. Current' = Current
  BY IdsEnqueue
<1> HIDE DEF k
<1> QED
  BY <1>1, <1>3, <1>4 DEF Current

\* A flush that is answered counts each sample of its batch once; one that is refused
\* queues them.
LEMMA SamplesFlushed ==
    ASSUME TypeOK, Ids, SamplesInv, NEW a \in Answer, flushed(a)
    PROVE  SamplesInv'
<1>1. /\ batch(flight) \in Body /\ batch(flight).samples = flight /\ batch(flight).exec = NoExec
      /\ flight \subseteq Sample
  BY BatchType DEF TypeOK, batch
<1>2. /\ Post(batch(flight), a)
      /\ flight' = {} /\ UNCHANGED <<recorded, tunnel, crashes, dropped, wiped>>
      /\ buffer' = IF a = "none" THEN buffer \cup flight ELSE buffer
      /\ IF a = "ok" THEN UNCHANGED queue ELSE enqueue(batch(flight))
  BY <1>1 DEF flushed, Post, store, history
<1>3. /\ \A s \in Sample : \/ received'[s] = received[s]
                           \/ s \in flight /\ received'[s] = received[s] + 1
      /\ a = "ok" => \A s \in flight : received'[s] = received[s] + 1
      /\ a = "refused" => received' = received
      /\ faults' = IF a = "none" THEN faults + 1 ELSE faults
  BY <1>1, <1>2, PostStores
<1>4. /\ received \in [Sample -> Nat] /\ faults \in Nat /\ crashes \in Nat
      /\ recorded \subseteq Sample /\ a \in {"ok", "refused", "none"}
  BY DEF TypeOK, Answer
<1>5. \A s \in Sample : received[s] > 0 => received'[s] > 0
  BY <1>3, <1>4
<1>6. a = "ok" => \A s \in flight : received'[s] > 0
  BY <1>1, <1>3, <1>4
<1>7. CASE a = "ok"
  <2>1. queue' = queue /\ buffer' = buffer /\ Current' = Current
    BY <1>2, <1>7 DEF Current
  <2>2. SamplesKept'
    BY <1>2, <1>4, <1>5, <1>6, <1>7, <2>1 DEF SamplesInv, SamplesKept
  <2>3. OnlyRecorded'
    BY <1>2, <2>1 DEF SamplesInv, OnlyRecorded
  <2>4. \A i \in queue : i.body.samples \subseteq Sample
    BY <1>4 DEF SamplesInv, OnlyRecorded
  <2>5. SentArrived'
    BY <1>2, <1>5, <2>1, <2>4 DEF SamplesInv, SentArrived, Current
  <2>6. ASSUME faults' = 0, crashes' = 0 PROVE InOnePlace' /\ NotYetStored'
    <3>1. InOnePlace /\ NotYetStored
      BY <1>2, <1>3, <1>7, <2>6 DEF SamplesInv
    <3>2. InOnePlace'
      BY <1>2, <2>1, <3>1 DEF InOnePlace
    <3>3. \A s \in Sample : s \notin flight => received'[s] = received[s]
      BY <1>3
    <3>4. \A s \in buffer : s \notin flight /\ s \in Sample /\ received[s] = 0
      BY <1>4, <3>1 DEF InOnePlace, NotYetStored, TypeOK
    <3>5. \A i \in queue : \A s \in i.body.samples : s \notin flight /\ s \in Sample
      BY <2>4, <3>1 DEF InOnePlace
    <3>6. \A s \in flight : received[s] = 0 /\ s \in recorded
      BY <3>1 DEF SamplesInv, OnlyRecorded, NotYetStored
    <3>7. \A s \in Sample : received'[s] <= 1
      BY <1>3, <1>4, <3>1, <3>6 DEF NotYetStored
    <3>8. \A s \in buffer' \cup flight' : received'[s] = 0
      BY <1>2, <2>1, <3>3, <3>4
    <3>9. \A s \in Sample : s \notin recorded' => received'[s] = 0
      BY <1>2, <3>1, <3>3, <3>6 DEF NotYetStored
    <3>10. \A i \in queue' : \A s \in i.body.samples :
             received'[s] = 0 \/ (tunnel'.step = "sent" /\ tunnel'.answer = "ok" /\ i \in Current')
      BY <1>2, <2>1, <3>1, <3>3, <3>5 DEF NotYetStored
    <3> QED
      BY <3>2, <3>7, <3>8, <3>9, <3>10 DEF NotYetStored
  <2> QED
    BY <2>2, <2>3, <2>5, <2>6 DEF SamplesInv
<1>8. CASE a # "ok"
  <2>1. PICK k : /\ queue' = queue \cup {k} /\ k.body = batch(flight) /\ Current' = Current
                 /\ k \notin queue /\ k \notin Current
                 /\ \A i \in queue : i.id # k.id
    <3>1. enqueue(batch(flight)) /\ tunnel' = tunnel
      BY <1>2, <1>8
    <3> QED
      BY <1>1, <3>1, SamplesEnqueue
  <2>2. SamplesKept'
    BY <1>1, <1>2, <1>4, <1>5, <2>1 DEF SamplesInv, SamplesKept
  <2>3. OnlyRecorded'
    BY <1>1, <1>2, <2>1 DEF SamplesInv, OnlyRecorded
  <2>4. \A i \in queue : i.body.samples \subseteq Sample
    BY <1>4 DEF SamplesInv, OnlyRecorded
  <2>5. SentArrived'
    BY <1>2, <1>5, <2>1, <2>4 DEF SamplesInv, SentArrived, Current
  <2>6. ASSUME faults' = 0, crashes' = 0 PROVE InOnePlace' /\ NotYetStored'
    <3>1. InOnePlace /\ NotYetStored /\ received' = received /\ buffer' = buffer
      BY <1>2, <1>3, <1>4, <1>8, <2>6 DEF SamplesInv
    <3>2. InOnePlace'
      BY <1>1, <1>2, <2>1, <3>1 DEF InOnePlace
    <3>3. \A s \in k.body.samples : received'[s] = 0
      BY <1>1, <2>1, <3>1 DEF NotYetStored
    <3> QED
      BY <1>2, <2>1, <3>1, <3>2, <3>3 DEF NotYetStored
  <2> QED
    BY <2>2, <2>3, <2>5, <2>6 DEF SamplesInv
<1> QED
  BY <1>7, <1>8

\* Recording and flushing move a sample from one place to the next.
LEMMA SamplesMove ==
    ASSUME TypeOK, SamplesInv, flush \/ \E s \in Sample : record(s)
    PROVE  SamplesInv'
<1>1. UNCHANGED <<tunnel, queue, received, faults, crashes, dropped, wiped>>
  BY DEF flush, record, store, service, history
<1>2. Current' = Current
  BY <1>1 DEF Current
<1>3. CASE flush
  <2>1. flight = {} /\ flight' = buffer /\ buffer' = {} /\ recorded' = recorded
    BY <1>3 DEF flush
  <2> QED
    BY <1>1, <1>2, <2>1 DEF SamplesInv, SamplesKept, SentArrived, OnlyRecorded, InOnePlace,
       NotYetStored
<1>4. ASSUME NEW s \in Sample, record(s) PROVE SamplesInv'
  <2>1. /\ s \notin recorded /\ recorded' = recorded \cup {s}
        /\ buffer' = buffer \cup {s} /\ flight' = flight
    BY <1>4 DEF record
  <2>2. SamplesKept' /\ SentArrived' /\ OnlyRecorded'
    BY <1>1, <1>2, <2>1 DEF SamplesInv, SamplesKept, SentArrived, OnlyRecorded
  <2>3. ASSUME faults = 0, crashes = 0 PROVE InOnePlace' /\ NotYetStored'
    <3>1. InOnePlace /\ NotYetStored /\ OnlyRecorded
      BY <2>3 DEF SamplesInv
    <3>2. InOnePlace'
      BY <1>1, <2>1, <3>1 DEF InOnePlace, OnlyRecorded
    <3>3. NotYetStored'
      BY <1>1, <1>2, <2>1, <3>1 DEF NotYetStored
    <3> QED
      BY <3>2, <3>3
  <2> QED
    BY <1>1, <2>2, <2>3 DEF SamplesInv
<1> QED
  BY <1>3, <1>4

\* What a crash takes from memory it is noted for, and what it leaves is in the queue.
LEMMA SamplesCrash ==
    ASSUME TypeOK, SamplesInv, crash
    PROVE  SamplesInv'
<1>1. /\ crashes' = crashes + 1 /\ tunnel' = Down /\ buffer' = {} /\ flight' = {}
      /\ UNCHANGED <<queue, recorded, received, dropped>>
      /\ wiped \subseteq wiped' /\ {batch({s}) : s \in buffer \cup flight} \subseteq wiped'
  BY DEF crash, store, service
<1>2. ASSUME NEW s \in buffer \cup flight PROVE \E b \in wiped' : s \in b.samples
  <2>1. batch({s}) \in wiped' /\ batch({s}).samples = {s}
    BY <1>1 DEF batch
  <2> QED
    BY <2>1
<1>3. SamplesKept'
  BY <1>1, <1>2 DEF SamplesInv, SamplesKept
<1>4. SentArrived' /\ OnlyRecorded'
  BY <1>1 DEF SamplesInv, SentArrived, OnlyRecorded, Down
<1>5. crashes' # 0
  BY <1>1 DEF TypeOK
<1> QED
  BY <1>3, <1>4, <1>5 DEF SamplesInv

\* No other step touches a sample: an entry it adds is a report's.
LEMMA OthersCarryNone ==
    ASSUME TypeOK, TaskHolds, Next, ~crash, ~flush, ~\E s \in Sample : record(s),
           ~\E a \in Answer : flushed(a), ~\E i \in queue : settle(i) \/ \E a \in Answer : drain(i, a)
    PROVE  /\ UNCHANGED <<buffer, flight, recorded, received, crashes, dropped, wiped>>
           /\ faults' \in {faults, faults + 1}
           /\ \/ queue' = queue
              \/ tunnel' = tunnel /\ \E b \in Body : enqueue(b) /\ b.samples = {}
           /\ tunnel' = tunnel \/ (tunnel.step # "sent" /\ tunnel'.step # "sent")
<1>1. ASSUME NEW t \in Task, NEW a \in Answer, report_result(t, a)
      PROVE  /\ UNCHANGED <<buffer, flight, recorded, received, crashes, dropped, wiped, tunnel>>
             /\ faults' \in {faults, faults + 1}
             /\ queue' = queue \/ \E b \in Body : enqueue(b) /\ b.samples = {}
  <2> DEFINE b == report(task[t].exec, task[t].status)
  <2>1. b \in Body /\ b.samples = {} /\ b.exec \in Exec
    BY <1>1, ReportType DEF report_result, TaskHolds, report
  <2>2. /\ Post(b, a) /\ UNCHANGED <<buffer, flight, recorded, crashes, dropped, wiped, tunnel>>
        /\ queue' = queue \/ enqueue(b)
    BY <1>1 DEF report_result, store, telemetry
  <2> HIDE DEF b
  <2>3. received' = received /\ faults' \in {faults, faults + 1}
    BY <2>1, <2>2, PostMoves, PostStores
  <2> QED
    BY <2>1, <2>2, <2>3
<1>2. ASSUME NEW t \in Task,
             \/ send_ack(t) \/ (\E r \in Result : execute(t, r))
             \/ (\E x \in Exec : receive_control(x, t))
             \/ (\E a \in Answer : report_running(t, a))
      PROVE  /\ UNCHANGED <<buffer, flight, recorded, received, crashes, dropped, wiped, queue, tunnel>>
             /\ faults' \in {faults, faults + 1}
  BY <1>2 DEF send_ack, execute, receive_control, report_running, callback, Faulted, store,
     telemetry, service, history
<1>3. ASSUME NEW x \in Exec,
             \/ gateway_push(x) \/ gateway_ack(x)
             \/ \E z \in {"timeout", Deleted} : service_ends(x, z)
      PROVE  UNCHANGED <<buffer, flight, recorded, received, crashes, dropped, wiped, queue, tunnel,
                         faults>>
  BY <1>3 DEF gateway_push, gateway_ack, service_ends, store, telemetry, service, history
<1>4. CASE start_drain \/ receive_loop \/ disconnect \/ connect \/ tunnel_breaks
  <2>1. /\ UNCHANGED <<buffer, flight, recorded, received, crashes, dropped, wiped, queue, faults>>
        /\ tunnel' = tunnel \/ (tunnel.step # "sent" /\ tunnel'.step # "sent")
    <3>1. CASE start_drain \/ receive_loop \/ connect
      BY <1>4, <3>1 DEF start_drain, receive_loop, connect, store, telemetry,
         service, history, TypeOK, Tunnel
    <3>2. CASE disconnect
      BY <3>2 DEF disconnect, store, telemetry, service, history, Down
    <3>3. CASE tunnel_breaks
      BY <3>3 DEF tunnel_breaks, store, telemetry, service, history
    <3> QED
      BY <1>4, <3>1, <3>2, <3>3
  <2> QED
    BY <2>1
<1>5. \/ start_drain \/ receive_loop \/ disconnect \/ connect \/ tunnel_breaks
      \/ \E t \in Task : \/ \E a \in Answer : report_running(t, a) \/ report_result(t, a)
                        \/ send_ack(t) \/ (\E r \in Result : execute(t, r))
                        \/ \E x \in Exec : receive_control(x, t)
      \/ \E x \in Exec : \/ gateway_push(x) \/ gateway_ack(x)
                        \/ \E z \in {"timeout", Deleted} : service_ends(x, z)
  BY DEF Next, TaskStep, TunnelStep
<1>6. CASE \E t \in Task, a \in Answer : report_result(t, a)
  BY <1>1, <1>6
<1>7. CASE \E t \in Task : \/ \E a \in Answer : report_running(t, a)
                         \/ send_ack(t) \/ (\E r \in Result : execute(t, r))
                         \/ \E x \in Exec : receive_control(x, t)
  BY <1>2, <1>7
<1>8. CASE \E x \in Exec : \/ gateway_push(x) \/ gateway_ack(x)
                         \/ \E z \in {"timeout", Deleted} : service_ends(x, z)
  BY <1>3, <1>8
<1> QED
  BY <1>4, <1>5, <1>6, <1>7, <1>8

\* So every step keeps the samples.
LEMMA SamplesStep ==
    ASSUME TypeOK, TaskHolds, Ids, SamplesInv, [Next]_vars
    PROVE  SamplesInv'
<1>1. CASE UNCHANGED vars
  BY <1>1 DEF vars, store, telemetry, service, history, SamplesInv, SamplesKept, SentArrived,
     OnlyRecorded, InOnePlace, NotYetStored, Current
<1>2. ASSUME NEW i \in queue, settle(i) \/ \E a \in Answer : drain(i, a) PROVE SamplesInv'
  BY <1>2, SamplesSettle, SamplesDrain
<1>3. CASE crash \/ flush \/ (\E s \in Sample : record(s)) \/ \E a \in Answer : flushed(a)
  BY <1>3, SamplesCrash, SamplesMove, SamplesFlushed
<1>4. ASSUME Next, ~crash, ~flush, ~\E s \in Sample : record(s), ~\E a \in Answer : flushed(a),
             ~\E i \in queue : settle(i) \/ \E a \in Answer : drain(i, a)
      PROVE  SamplesInv'
  <2>1. /\ UNCHANGED <<buffer, flight, recorded, received, crashes, dropped, wiped>>
        /\ faults' \in {faults, faults + 1}
        /\ \/ queue' = queue
           \/ tunnel' = tunnel /\ \E b \in Body : enqueue(b) /\ b.samples = {}
        /\ tunnel' = tunnel \/ (tunnel.step # "sent" /\ tunnel'.step # "sent")
    BY <1>4, OthersCarryNone
  <2>2. faults' = 0 => faults = 0
    BY <2>1 DEF TypeOK
  <2>3. /\ queue \subseteq queue'
        /\ \A i \in queue' : i \in queue \/ i.body.samples = {}
        /\ tunnel'.step = "sent" => tunnel' = tunnel /\ Current' = Current
    <3>1. CASE queue' = queue
      BY <2>1, <3>1 DEF Current
    <3>2. ASSUME tunnel' = tunnel, NEW b \in Body, enqueue(b), b.samples = {}
          PROVE  /\ queue \subseteq queue' /\ Current' = Current
                 /\ \A i \in queue' : i \in queue \/ i.body.samples = {}
      BY <3>2, SamplesEnqueue
    <3> QED
      BY <2>1, <3>1, <3>2
  <2>4. SamplesKept' /\ SentArrived' /\ OnlyRecorded'
    BY <2>1, <2>3 DEF SamplesInv, SamplesKept, SentArrived, OnlyRecorded
  <2>5. ASSUME faults' = 0, crashes' = 0 PROVE InOnePlace' /\ NotYetStored'
    <3>1. InOnePlace /\ NotYetStored
      BY <2>1, <2>2, <2>5 DEF SamplesInv
    <3>2. InOnePlace'
      BY <2>1, <2>3, <3>1 DEF InOnePlace
    <3>3. \A i \in queue : \A s \in i.body.samples :
            received[s] = 0 \/ (tunnel'.step = "sent" /\ tunnel'.answer = "ok" /\ i \in Current')
      BY <2>1, <2>3, <3>1 DEF NotYetStored
    <3> QED
      BY <2>1, <2>3, <3>1, <3>2, <3>3 DEF NotYetStored
  <2> QED
    BY <2>4, <2>5 DEF SamplesInv
<1> QED
  BY <1>1, <1>2, <1>3, <1>4

\* No sample is lost but by a queue that gave it up or a process that died with it, and
\* without a crash and an unanswered request none arrives twice.
THEOREM SamplesAreAccounted == Spec => []SamplesAccount
<1>1. Init => Ids /\ SamplesInv
  BY DEF Init, Ids, SamplesInv, SamplesKept, SentArrived, OnlyRecorded, InOnePlace, NotYetStored,
     Down
<1>2. TypeOK /\ TaskHolds /\ Ids /\ SamplesInv /\ [Next]_vars => Ids' /\ SamplesInv'
  BY IdsStep, SamplesStep
<1>3. SamplesInv => SamplesAccount
  BY DEF SamplesInv, NotYetStored, SamplesAccount
<1> QED
  BY <1>1, <1>2, <1>3, TypeCorrect, PTL DEF Spec
===============================================================================
