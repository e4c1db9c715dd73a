-------------------------------- MODULE Agent --------------------------------
(***************************************************************************)
(* nexora-agent: the process on a device.  It keeps a tunnel to a gateway, *)
(* executes the control messages that come through it, reports each result *)
(* to execution-service and flushes telemetry to device-service.  A report *)
(* or a batch that is not answered with success goes into a SQLite queue,  *)
(* which survives a restart and is drained when the tunnel is opened.      *)
(*                                                                         *)
(* The agent is one asyncio process: one action is the code between two    *)
(* awaits that suspend.  A request takes effect on its service and is      *)
(* answered in one step, unless what follows the answer matters (settle).  *)
(* The gateway and the two services are the environment: the gateway may   *)
(* push a dispatch whenever it holds it, more than once, and a service may *)
(* refuse a request or serve it without the agent hearing of it.           *)
(***************************************************************************)
EXTENDS Naturals, FiniteSets, ExecutionStatus

CONSTANTS
    Exec, NoExec,
    Task,           \* handlers of control messages that can run at a time
    Sample,         \* telemetry samples
    MaxAttempts,    \* _MAX_ATTEMPTS of the queue
    DrainLimit,     \* entries one drain takes
    MaxPushes,      \* control messages the gateway sends for one dispatch
    MaxTroubles     \* requests never answered and crashes, together

VARIABLES
    tunnel,     \* the coroutine run: its step, the entries left to drain
    up,         \* whether its WebSocket is open
    wire,       \* control messages of each dispatch it has yet to read
    acks,       \* acks on their way to the gateway
    task,       \* the handlers of control messages
    queue,      \* the rows of the table queue
    nextId,     \* its AUTOINCREMENT counter
    buffer,     \* the telemetry buffer
    flight,     \* the batch being flushed
    row,        \* status of each execution at execution-service
    pending,    \* dispatches the gateway holds
    received,   \* how often device-service has stored each sample
    pushes, recorded, faults, crashes,
    executed,   \* what each command has ended with, once per execution of it
    acked,      \* dispatches the gateway has dropped on an ack
    told,       \* results a service has confirmed
    dropped,    \* entries the queue has given up
    wiped       \* results and samples in memory when the process died

service == <<row, received, faults>>
link == <<up, wire, acks>>
store == <<queue, nextId>>
telemetry == <<buffer, flight, recorded>>
gateway == <<pending, pushes, acked>>
history == <<executed, told, dropped, wiped>>
vars == <<tunnel, link, task, store, telemetry, gateway, service, crashes, history>>

ASSUME AgentAssumption ==
    /\ NoExec \notin Exec
    /\ MaxAttempts \in Nat \ {0} /\ DrainLimit \in Nat \ {0}
    /\ MaxPushes \in Nat /\ MaxTroubles \in Nat

-----------------------------------------------------------------------------
Result == {"succeeded", "failed"}
Answer == {"ok", "refused", "none"}

\* What a request carries, and an entry of the queue stores.
Report == [exec: Exec, status: Result, samples: {{}}]
Batch == [exec: {NoExec}, status: {"none"}, samples: SUBSET Sample]
Body == Report \cup Batch

report(e, s) == [exec |-> e, status |-> s, samples |-> {}]
batch(S) == [exec |-> NoExec, status |-> "none", samples |-> S]

\* `sends` is not a column: it counts the times an entry was posted.
Item == [id: Nat, body: Body, attempts: 0..MaxAttempts - 1, sends: Nat]

Handler == [step: {"idle", "start", "execute", "ack", "report"},
            exec: Exec \cup {NoExec}, status: Result \cup {"none"}, live: BOOLEAN]
Idle == [step |-> "idle", exec |-> NoExec, status |-> "none", live |-> FALSE]

Tunnel == [step: {"down", "registering", "draining", "sent", "receiving"},
           left: SUBSET Nat, answer: Answer]
Down == [step |-> "down", left |-> {}, answer |-> "none"]

TypeOK ==
    /\ tunnel \in Tunnel /\ up \in BOOLEAN
    /\ wire \in [Exec -> Nat] /\ acks \subseteq Exec
    /\ task \in [Task -> Handler]
    /\ queue \subseteq Item /\ nextId \in Nat
    /\ buffer \subseteq Sample /\ flight \subseteq Sample /\ recorded \subseteq Sample
    /\ row \in [Exec -> RowStatus] /\ received \in [Sample -> Nat]
    /\ pending \subseteq Exec /\ acked \subseteq Exec
    /\ pushes \in [Exec -> 0..MaxPushes]
    /\ faults \in Nat /\ crashes \in Nat
    /\ executed \in [Exec -> SUBSET Result]
    /\ told \subseteq Body /\ dropped \subseteq Body /\ wiped \subseteq Body

\* The gateway holds every dispatch: each row was dispatched before.
Init ==
    /\ tunnel = Down /\ up = FALSE
    /\ wire = [e \in Exec |-> 0] /\ acks = {}
    /\ task = [t \in Task |-> Idle]
    /\ queue = {} /\ nextId = 1
    /\ buffer = {} /\ flight = {} /\ recorded = {}
    /\ row = [e \in Exec |-> "dispatched"] /\ received = [s \in Sample |-> 0]
    /\ pending = Exec /\ acked = {} /\ pushes = [e \in Exec |-> 0]
    /\ faults = 0 /\ crashes = 0
    /\ executed = [e \in Exec |-> {}]
    /\ told = {} /\ dropped = {} /\ wiped = {}

-----------------------------------------------------------------------------
(* Requests *)

\* A request that gets answer a: "refused" is any status but success and changes
\* nothing; one without an answer was served or never arrived.
Faulted(a) == /\ a = "none" => faults + crashes < MaxTroubles
              /\ faults' = IF a = "none" THEN faults + 1 ELSE faults

callback(e, s, a) ==
    LET moved == {r \in {[row EXCEPT ![e] = s]} : transition_allowed(row[e], s)}
    IN  /\ row' \in CASE a = "ok"      -> moved
                      [] a = "refused" -> {row}
                      [] a = "none"    -> moved \cup {row}
        /\ Faulted(a)
        /\ UNCHANGED received

store_samples(S, a) ==
    LET stored == [s \in Sample |-> IF s \in S THEN received[s] + 1 ELSE received[s]]
    IN  /\ received' \in CASE a = "ok"      -> {stored}
                           [] a = "refused" -> {received}
                           [] a = "none"    -> {stored, received}
        /\ Faulted(a)
        /\ UNCHANGED row

\* _send_callback_direct and _send_telemetry return True on a success status.
\* Mutant: a report that is refused counts as sent.
delivered_if_answered(a) == a \in {"ok", "refused"}

delivered(a) == a = "ok"

Post(b, a) == IF b.exec = NoExec THEN store_samples(b.samples, a)
                                 ELSE callback(b.exec, b.status, a)

-----------------------------------------------------------------------------
(* The offline queue *)

enqueue(b) ==
    /\ queue' = queue \cup {[id |-> nextId, body |-> b, attempts |-> 0, sends |-> 0]}
    /\ nextId' = nextId + 1

\* Mutant: off by one.
peek_one_short(limit) == {i \in queue : Cardinality({j \in queue : j.id <= i.id}) < limit}

peek(limit) == {i \in queue : Cardinality({j \in queue : j.id < i.id}) < limit}

ack(i) ==
    /\ queue' = queue \ {i}
    /\ told' = told \cup {i.body}
    /\ UNCHANGED dropped

\* Mutant: entries are given up one attempt too late.
nack_one_over(i) ==
    /\ IF i.attempts + 1 > MaxAttempts
         THEN queue' = queue \ {i} /\ dropped' = dropped \cup {i.body}
         ELSE /\ queue' = (queue \ {i}) \cup {[i EXCEPT !.attempts = @ + 1]}
              /\ UNCHANGED dropped
    /\ UNCHANGED told

\* Mutant: the attempt is not counted.
nack_uncounted(i) == UNCHANGED <<queue, dropped, told>>

nack(i) ==
    /\ IF i.attempts + 1 >= MaxAttempts
         THEN /\ queue' = queue \ {i}
              /\ dropped' = dropped \cup {i.body}
         ELSE /\ queue' = (queue \ {i}) \cup {[i EXCEPT !.attempts = @ + 1]}
              /\ UNCHANGED dropped
    /\ UNCHANGED told

\* The entry the drain is at: entries are taken in the order of their ids.
Current == {i \in queue : i.id \in tunnel.left /\ \A n \in tunnel.left : i.id <= n}

-----------------------------------------------------------------------------
(* run: the tunnel *)

\* An attempt that fails only waits and tries again.
connect ==
    /\ tunnel.step = "down"
    /\ tunnel' = [tunnel EXCEPT !.step = "registering"]
    /\ up' = TRUE
    /\ UNCHANGED <<wire, acks, task, store, telemetry, gateway, service, crashes, history>>

\* The session is registered, whatever the gateway answers, and the drain reads
\* the entries it will send.
start_drain ==
    /\ tunnel.step = "registering"
    /\ tunnel' = [tunnel EXCEPT !.step = "draining",
                                !.left = {i.id : i \in peek(DrainLimit)}]
    /\ UNCHANGED <<link, task, store, telemetry, gateway, service, crashes, history>>

drain(i, a) ==
    /\ tunnel.step = "draining"
    /\ i \in Current
    /\ Post(i.body, a)
    /\ queue' = (queue \ {i}) \cup {[i EXCEPT !.sends = @ + 1]}
    /\ tunnel' = [tunnel EXCEPT !.step = "sent", !.answer = a]
    /\ UNCHANGED <<link, task, nextId, telemetry, gateway, crashes, history>>

settle(i) ==
    /\ tunnel.step = "sent"
    /\ i \in Current
    /\ IF delivered(tunnel.answer) THEN ack(i) ELSE nack(i)
    /\ tunnel' = [step |-> "draining", left |-> tunnel.left \ {i.id}, answer |-> "none"]
    /\ UNCHANGED <<link, task, nextId, telemetry, gateway, service, crashes,
                   executed, wiped>>

receive_loop ==
    /\ tunnel.step = "draining"
    /\ tunnel.left = {}
    /\ tunnel' = [tunnel EXCEPT !.step = "receiving"]
    /\ UNCHANGED <<link, task, store, telemetry, gateway, service, crashes, history>>

\* A control message starts a task and the loop reads on.
receive_control(e, t) ==
    /\ tunnel.step = "receiving"
    /\ wire[e] > 0
    /\ task[t] = Idle
    /\ wire' = [wire EXCEPT ![e] = @ - 1]
    /\ task' = [task EXCEPT ![t] = [step |-> "start", exec |-> e, status |-> "none",
                                    live |-> TRUE]]
    /\ UNCHANGED <<tunnel, up, acks, store, telemetry, gateway, service, crashes, history>>

\* The loop notices that the socket is closed, backs off and connects again.
\* Tasks go on, and keep the closed socket.
disconnect ==
    /\ tunnel.step = "receiving"
    /\ ~up
    /\ tunnel' = Down
    /\ UNCHANGED <<link, task, store, telemetry, gateway, service, crashes, history>>

-----------------------------------------------------------------------------
(* _handle_control *)

\* The answer to this report is not looked at.
report_running(t, a) ==
    /\ task[t].step = "start"
    /\ callback(task[t].exec, "running", a)
    /\ task' = [task EXCEPT ![t].step = "execute"]
    /\ UNCHANGED <<tunnel, link, store, telemetry, gateway, crashes, history>>

\* The command runs, or fails, or times out: the executor always returns.
execute(t, s) ==
    /\ task[t].step = "execute"
    /\ executed' = [executed EXCEPT ![task[t].exec] = @ \cup {s}]
    /\ task' = [task EXCEPT ![t].step = "ack", ![t].status = s]
    /\ UNCHANGED <<tunnel, link, store, telemetry, gateway, service, crashes,
                   told, dropped, wiped>>

\* Sending on a closed socket fails, and the failure is only logged.
send_ack(t) ==
    /\ task[t].step = "ack"
    /\ acks' = IF task[t].live THEN acks \cup {task[t].exec} ELSE acks
    /\ task' = [task EXCEPT ![t].step = "report"]
    /\ UNCHANGED <<tunnel, up, wire, store, telemetry, gateway, service, crashes, history>>

\* Mutant: the result is not queued when the report fails.
report_result_unqueued(t, a) ==
    LET b == report(task[t].exec, task[t].status)
    IN  /\ task[t].step = "report"
        /\ Post(b, a)
        /\ told' = IF delivered(a) THEN told \cup {b} ELSE told
        /\ task' = [task EXCEPT ![t] = Idle]
        /\ UNCHANGED <<tunnel, link, store, telemetry, gateway, crashes,
                       executed, dropped, wiped>>

report_result(t, a) ==
    LET b == report(task[t].exec, task[t].status)
    IN  /\ task[t].step = "report"
        /\ Post(b, a)
        /\ IF delivered(a) THEN told' = told \cup {b} /\ UNCHANGED store
                          ELSE enqueue(b) /\ UNCHANGED told
        /\ task' = [task EXCEPT ![t] = Idle]
        /\ UNCHANGED <<tunnel, link, telemetry, gateway, crashes, executed, dropped, wiped>>

-----------------------------------------------------------------------------
(* Telemetry *)

record(s) ==
    /\ s \notin recorded
    /\ recorded' = recorded \cup {s}
    /\ buffer' = buffer \cup {s}
    /\ UNCHANGED <<flight, tunnel, link, task, store, gateway, service, crashes, history>>

flush ==
    /\ flight = {} /\ buffer # {}
    /\ flight' = buffer
    /\ buffer' = {}
    /\ UNCHANGED <<recorded, tunnel, link, task, store, gateway, service, crashes, history>>

\* Mutant: a refused batch goes back to the buffer as well.
flushed_twice(a) ==
    /\ flight # {}
    /\ store_samples(flight, a)
    /\ IF a = "ok" THEN UNCHANGED store ELSE enqueue(batch(flight))
    /\ buffer' = IF a = "ok" THEN buffer ELSE buffer \cup flight
    /\ flight' = {}
    /\ UNCHANGED <<recorded, tunnel, link, task, gateway, crashes, history>>

\* A batch that gets no answer goes back to the buffer and into the queue.
flushed(a) ==
    /\ flight # {}
    /\ store_samples(flight, a)
    /\ IF a = "ok" THEN UNCHANGED store ELSE enqueue(batch(flight))
    /\ buffer' = IF a = "none" THEN buffer \cup flight ELSE buffer
    /\ flight' = {}
    /\ UNCHANGED <<recorded, tunnel, link, task, gateway, crashes, history>>

-----------------------------------------------------------------------------
(* The gateway, execution-service and the machine *)

\* Both the replay at a connection and the push of a new dispatch.
gateway_push(e) ==
    /\ up /\ e \in pending /\ pushes[e] < MaxPushes
    /\ wire' = [wire EXCEPT ![e] = @ + 1]
    /\ pushes' = [pushes EXCEPT ![e] = @ + 1]
    /\ UNCHANGED <<tunnel, up, acks, task, store, telemetry, pending, acked, service,
                   crashes, history>>

gateway_ack(e) ==
    /\ e \in acks
    /\ acks' = acks \ {e}
    /\ pending' = pending \ {e}
    /\ acked' = acked \cup {e}
    /\ UNCHANGED <<tunnel, up, wire, task, store, telemetry, pushes, service, crashes, history>>

\* The socket closes: what was on it is lost, and every task that holds it knows.
tunnel_breaks ==
    /\ up
    /\ up' = FALSE /\ acks' = {} /\ wire' = [e \in Exec |-> 0]
    /\ task' = [t \in Task |-> [task[t] EXCEPT !.live = FALSE]]
    /\ UNCHANGED <<tunnel, store, telemetry, gateway, service, crashes, history>>

\* The row is ended by the time-out loop or deleted.  A cancellation only differs
\* from a time-out in its name.
service_ends(e, s) ==
    /\ \/ s = "timeout" /\ transition_allowed(row[e], s)
       \/ s = Deleted /\ row[e] # Deleted
    /\ row' = [row EXCEPT ![e] = s]
    /\ UNCHANGED <<tunnel, link, task, store, telemetry, gateway, received, faults,
                   crashes, history>>

\* The process dies and systemd starts it again: only the queue is on disk.
crash ==
    /\ faults + crashes < MaxTroubles
    /\ crashes' = crashes + 1
    /\ wiped' = wiped \cup {batch({s}) : s \in buffer \cup flight}
                      \cup {report(task[t].exec, task[t].status) :
                              t \in {u \in Task : task[u].step \in {"ack", "report"}}}
    /\ tunnel' = Down
    /\ up' = FALSE /\ acks' = {} /\ wire' = [e \in Exec |-> 0]
    /\ task' = [t \in Task |-> Idle]
    /\ buffer' = {} /\ flight' = {}
    /\ UNCHANGED <<store, recorded, gateway, service, executed, told, dropped>>

-----------------------------------------------------------------------------
TunnelStep ==
    \/ start_drain
    \/ \E i \in queue : settle(i) \/ \E a \in Answer : drain(i, a)
    \/ receive_loop
    \/ disconnect

TaskStep(t) ==
    \/ \E a \in Answer : report_running(t, a) \/ report_result(t, a)
    \/ \E s \in Result : execute(t, s)
    \/ send_ack(t)

Next ==
    \/ connect \/ TunnelStep \/ tunnel_breaks \/ crash \/ flush
    \/ \E t \in Task : TaskStep(t) \/ \E e \in Exec : receive_control(e, t)
    \/ \E s \in Sample : record(s)
    \/ \E a \in Answer : flushed(a)
    \/ \E e \in Exec : gateway_push(e) \/ gateway_ack(e)
    \/ \E e \in Exec, s \in {"timeout", Deleted} : service_ends(e, s)

Spec == Init /\ [][Next]_vars

\* The event loop runs what is ready.  Nothing says that the tunnel opens, or
\* that a request succeeds.
FairSpec == Spec /\ WF_vars(TunnelStep)

-----------------------------------------------------------------------------
(* Properties *)

\* What a command ended with is not lost: execution-service has confirmed it, a
\* task or the queue still has it, the queue gave it up after its last attempt,
\* or the process died with it in memory.
ResultsKept ==
    \A e \in Exec : \A s \in executed[e] :
        \/ report(e, s) \in told \cup dropped \cup wiped
        \/ \E i \in queue : i.body = report(e, s)
        \/ \E t \in Task : /\ task[t].step \in {"ack", "report"}
                           /\ task[t].exec = e /\ task[t].status = s

\* What is kept of a telemetry sample that has not arrived.
SamplesKept ==
    \A s \in recorded :
        \/ s \in buffer \cup flight \/ received[s] > 0
        \/ \E i \in queue : s \in i.body.samples
        \/ \E b \in dropped \cup wiped : s \in b.samples

\* The gateway deletes a dispatch on an ack, so an acknowledged command has been
\* executed, whatever broke or died on the way (at-least-once, ADR-0006).
AckedAreExecuted == \A e \in acks \cup acked : executed[e] # {}

\* The final status of a row is one the command ended with, and a confirmed
\* result is the one the row keeps.
RowsTellTheTruth ==
    /\ \A e \in Exec : row[e] \in Result => row[e] \in executed[e]
    /\ \A b \in told : b.exec \in Exec => row[b.exec] \in {b.status, Deleted}

\* An entry is posted at most MaxAttempts times, but for the posts whose outcome
\* the process did not live to write down.
RetryLimit ==
    \A i \in queue :
        i.sends <= i.attempts + crashes + (IF tunnel.step = "sent" /\ i \in Current
                                             THEN 1 ELSE 0)

\* No sample is lost, and only a request without an answer makes one arrive
\* twice, or a crash between a post and the deletion of its entry.
SamplesAccount ==
    /\ SamplesKept
    /\ faults = 0 /\ crashes = 0 => \A s \in Sample : received[s] <= 1

\* When the load ends and the tunnel is opened again and again the queue becomes
\* empty, even if no post succeeds: nothing at its head can block it for good.
QueueDrains ==
    []<>(tunnel.step = "registering") => []<>(queue = {})
=============================================================================
